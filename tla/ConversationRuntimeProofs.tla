----------------------- MODULE ConversationRuntimeProofs -----------------------
(***************************************************************************)
(* Proof that ConversationRuntime implements AtomicConversation, for any   *)
(* number of processes, turns and messages and any clock skew: the version *)
(* check of the conditional write makes every commit the atomic operation  *)
(* its process computed, however long ago it loaded the snapshot.          *)
(***************************************************************************)
EXTENDS ConversationRuntime

-----------------------------------------------------------------------------
(* The aggregate is one and the same for both modules.                     *)

(* SameGuards: the instance's guards are this module's guards.             *)
LEMMA SameGuards ==
  ASSUME NEW s, NEW t, NEW b, NEW fence, NEW now, NEW used, NEW receipt,
         NEW authority
  PROVE  /\ Atomic!CanAccept(s, t, b) <=> CanAccept(s, t, b)
         /\ Atomic!CanClaim(s, t, fence, now) <=> CanClaim(s, t, fence, now)
         /\ Atomic!CanComplete(s, t, fence, used, receipt, now)
              <=> CanComplete(s, t, fence, used, receipt, now)
         /\ Atomic!CanCancel(s, t, authority, fence, used, now)
              <=> CanCancel(s, t, authority, fence, used, now)
         /\ Atomic!CanClose(s) <=> CanClose(s)
         /\ Atomic!CanRequestHandoff(s) <=> CanRequestHandoff(s)
<1>1. Atomic!CanAccept(s, t, b) <=> CanAccept(s, t, b)
  BY DEF Atomic!CanAccept, CanAccept, Atomic!Fits, Fits
<1>2. Atomic!CanClaim(s, t, fence, now) <=> CanClaim(s, t, fence, now)
  BY DEF Atomic!CanClaim, CanClaim, Atomic!ClaimLive, ClaimLive,
         Atomic!IsFirstClaimable, IsFirstClaimable, Atomic!Claimable, Claimable
<1>3. Atomic!CanComplete(s, t, fence, used, receipt, now)
        <=> CanComplete(s, t, fence, used, receipt, now)
  BY DEF Atomic!CanComplete, CanComplete, Atomic!HasCurrentClaim,
         HasCurrentClaim, Atomic!Fits, Fits, Atomic!ValidReceipt, ValidReceipt
<1>4. Atomic!CanCancel(s, t, authority, fence, used, now)
        <=> CanCancel(s, t, authority, fence, used, now)
  BY DEF Atomic!CanCancel, CanCancel, Atomic!HasCurrentClaim,
         HasCurrentClaim, Atomic!Fits, Fits, Atomic!ActiveStatus, ActiveStatus
<1>5. /\ Atomic!CanClose(s) <=> CanClose(s)
      /\ Atomic!CanRequestHandoff(s) <=> CanRequestHandoff(s)
  BY DEF Atomic!CanClose, CanClose, Atomic!CanRequestHandoff, CanRequestHandoff
<1>6. QED
  BY <1>1, <1>2, <1>3, <1>4, <1>5

(* SameTransitions: and so are its transitions and events.                 *)
LEMMA SameTransitions ==
  ASSUME NEW s, NEW t, NEW m, NEW f, NEW b, NEW fence, NEW now, NEW outcome,
         NEW used, NEW receipt, NEW authority, NEW type
  PROVE  /\ Atomic!AcceptMessage(s, t, m, f, b) = AcceptMessage(s, t, m, f, b)
         /\ Atomic!ClaimTurn(s, t, fence, now) = ClaimTurn(s, t, fence, now)
         /\ Atomic!CompleteTurn(s, t, outcome, used, receipt)
              = CompleteTurn(s, t, outcome, used, receipt)
         /\ Atomic!CancelTurn(s, t, authority, used)
              = CancelTurn(s, t, authority, used)
         /\ Atomic!CloseSession(s) = CloseSession(s)
         /\ Atomic!RequestHandoff(s) = RequestHandoff(s)
         /\ Atomic!NextEvent(s, type, t) = NextEvent(s, type, t)
         /\ Atomic!CompletionEventType(outcome) = CompletionEventType(outcome)
<1>1. Atomic!AcceptMessage(s, t, m, f, b) = AcceptMessage(s, t, m, f, b)
  BY DEF Atomic!AcceptMessage, AcceptMessage, Atomic!Advance, Advance,
         Atomic!AcceptedTurn, AcceptedTurn, Atomic!AbsentTurn, AbsentTurn,
         Atomic!Reserve, Reserve, Atomic!NoBudget, NoBudget
<1>2. Atomic!ClaimTurn(s, t, fence, now) = ClaimTurn(s, t, fence, now)
  BY DEF Atomic!ClaimTurn, ClaimTurn, Atomic!Advance, Advance,
         Atomic!ClaimedTurn, ClaimedTurn
<1>3. Atomic!CompleteTurn(s, t, outcome, used, receipt)
        = CompleteTurn(s, t, outcome, used, receipt)
  BY DEF Atomic!CompleteTurn, CompleteTurn, Atomic!Advance, Advance,
         Atomic!ReleaseUnusedBudget, ReleaseUnusedBudget,
         Atomic!CompletedTurn, CompletedTurn, Atomic!SettledTurn, SettledTurn
<1>4. Atomic!CancelTurn(s, t, authority, used) = CancelTurn(s, t, authority, used)
  BY DEF Atomic!CancelTurn, CancelTurn, Atomic!Advance, Advance,
         Atomic!ReleaseUnusedBudget, ReleaseUnusedBudget,
         Atomic!CancelledTurn, CancelledTurn, Atomic!SettledTurn, SettledTurn,
         Atomic!CancelUsage, CancelUsage, Atomic!NoBudget, NoBudget
<1>5. /\ Atomic!CloseSession(s) = CloseSession(s)
      /\ Atomic!RequestHandoff(s) = RequestHandoff(s)
  BY DEF Atomic!CloseSession, CloseSession, Atomic!RequestHandoff,
         RequestHandoff, Atomic!SetStatus, SetStatus, Atomic!Advance, Advance
<1>6. /\ Atomic!NextEvent(s, type, t) = NextEvent(s, type, t)
      /\ Atomic!CompletionEventType(outcome) = CompletionEventType(outcome)
  BY DEF Atomic!NextEvent, NextEvent, Atomic!CompletionEventType,
         CompletionEventType
<1>7. QED
  BY <1>1, <1>2, <1>3, <1>4, <1>5, <1>6

-----------------------------------------------------------------------------
(* What an operation that is in flight remembers, per kind of operation:   *)
(* if it was computed on the snapshot s that is still stored, its guard    *)
(* holds there and its result is the transition of that snapshot.          *)

AcceptOn(s, o, t, m, f, b) ==
  /\ CanAccept(s, t, b)
  /\ o.next = AcceptMessage(s, t, m, f, b)
  /\ o.event = NextEvent(s, "message.accepted", t)

ClaimOn(s, o, t, fence, now) ==
  /\ CanClaim(s, t, fence, now)
  /\ o.next = ClaimTurn(s, t, fence, now)
  /\ o.event = NextEvent(s, "turn.processing", t)

CompleteOn(s, o, t, fence, outcome, used, receipt, now) ==
  /\ CanComplete(s, t, fence, used, receipt, now)
  /\ o.next = CompleteTurn(s, t, outcome, used, receipt)
  /\ o.event = NextEvent(s, CompletionEventType(outcome), t)
  /\ o.fencingToken = fence

CancelOn(s, o, t, authority, fence, used, now) ==
  /\ CanCancel(s, t, authority, fence, used, now)
  /\ o.next = CancelTurn(s, t, authority, used)
  /\ o.event = NextEvent(s, "turn.cancelled", t)

CloseOn(s, o) ==
  /\ CanClose(s)
  /\ o.next = CloseSession(s)
  /\ o.event = NextEvent(s, "session.closed", Nil)

HandoffOn(s, o) ==
  /\ CanRequestHandoff(s)
  /\ o.next = RequestHandoff(s)
  /\ o.event = NextEvent(s, "handoff.requested", Nil)

Computed(s, ceiling, o) ==
  \/ \E t \in Turn, m \in Message, f \in Fingerprint, b \in Reservation :
       AcceptOn(s, o, t, m, f, b)
  \/ \E now \in 0..(ceiling + MaxSkew), t \in Turn, fence \in Fence :
       ClaimOn(s, o, t, fence, now)
  \/ \E now \in 0..(ceiling + MaxSkew), t \in Turn, fence \in Fence,
        used \in Usage, outcome \in Outcome, receipt \in Receipts \cup {Nil} :
       CompleteOn(s, o, t, fence, outcome, used, receipt, now)
  \/ \E now \in 0..(ceiling + MaxSkew), t \in Turn, fence \in Fence,
        used \in Usage, authority \in Authority :
       CancelOn(s, o, t, authority, fence, used, now)
  \/ CloseOn(s, o)
  \/ HandoffOn(s, o)

(* RInv: the inductive invariant.  An operation in flight never expects a  *)
(* version that is yet to come, so one whose version is still current was  *)
(* computed on exactly the stored snapshot.                                *)
RInv ==
  /\ store \in Snapshot
  /\ clock \in Nat
  /\ op \in [Caller -> Operation \cup {Nil}]
  /\ \A c \in Caller : op[c] # Nil =>
       /\ op[c].expectedVersion <= store.version
       /\ op[c].expectedVersion = store.version => Computed(store, clock, op[c])

(* ComputedType: a computed operation is well formed and writes the next   *)
(* version.                                                                *)
LEMMA ComputedType ==
  ASSUME NEW s \in Snapshot, NEW now0 \in Nat, NEW o, Computed(s, now0, o)
  PROVE  /\ o.next \in Snapshot
         /\ o.next.version = s.version + 1
         /\ o.event \in Event
<1> DEFINE Good == /\ o.next \in Snapshot
                   /\ o.next.version = s.version + 1
                   /\ o.event \in Event
<1>0. ASSUME NEW type \in EventType, NEW t \in Turn \cup {Nil}
      PROVE  NextEvent(s, type, t) \in Event
  BY DEF NextEvent, Event, Snapshot
<1>1. ASSUME NEW t \in Turn, NEW m \in Message, NEW f \in Fingerprint,
             NEW b \in Reservation, AcceptOn(s, o, t, m, f, b)
      PROVE  Good
  <2>1. o.event \in Event
    BY <1>0, <1>1 DEF AcceptOn, EventType
  <2>2. o.next \in Snapshot
    BY <1>1, AcceptType DEF AcceptOn
  <2>3. QED
    BY <1>1, <2>1, <2>2 DEF AcceptOn, AcceptMessage, Advance
<1>2. ASSUME NEW now \in 0..(now0 + MaxSkew), NEW t \in Turn,
             NEW fence \in Fence, ClaimOn(s, o, t, fence, now)
      PROVE  Good
  <2>1. o.event \in Event
    BY <1>0, <1>2 DEF ClaimOn, EventType
  <2>2. now \in Nat /\ fence \in Nat
    BY RuntimeAssumption
  <2>3. o.next \in Snapshot
    BY <1>2, <2>2, ClaimType DEF ClaimOn
  <2>4. QED
    BY <1>2, <2>1, <2>3 DEF ClaimOn, ClaimTurn, Advance
<1>3. ASSUME NEW now, NEW t \in Turn, NEW fence, NEW used \in Usage,
             NEW outcome, NEW receipt \in Receipts \cup {Nil},
             CompleteOn(s, o, t, fence, outcome, used, receipt, now)
      PROVE  Good
  <2>1. CompletionEventType(outcome) \in EventType
    BY DEF CompletionEventType, EventType
  <2>2. o.event \in Event
    BY <1>0, <1>3, <2>1 DEF CompleteOn
  <2>3. receipt = Nil \/ receipt \in Receipt
    BY RuntimeAssumption
  <2>4. o.next \in Snapshot
    BY <1>3, <2>3, CompleteType DEF CompleteOn
  <2>5. QED
    BY <1>3, <2>2, <2>4 DEF CompleteOn, CompleteTurn, Advance
<1>4. ASSUME NEW now, NEW t \in Turn, NEW fence, NEW used \in Usage,
             NEW authority, CancelOn(s, o, t, authority, fence, used, now)
      PROVE  Good
  <2>1. o.event \in Event
    BY <1>0, <1>4 DEF CancelOn, EventType
  <2>2. o.next \in Snapshot
    BY <1>4, CancelType DEF CancelOn
  <2>3. QED
    BY <1>4, <2>1, <2>2 DEF CancelOn, CancelTurn, Advance
<1>5. ASSUME CloseOn(s, o) \/ HandoffOn(s, o)
      PROVE  Good
  <2>1. o.event \in Event
    BY <1>0, <1>5 DEF CloseOn, HandoffOn, EventType
  <2>2. PICK status \in SessionStatus : o.next = SetStatus(s, status)
    BY <1>5 DEF CloseOn, HandoffOn, CloseSession, RequestHandoff, SessionStatus
  <2>3. o.next \in Snapshot
    BY <2>2, StatusType
  <2>4. QED
    BY <2>1, <2>2, <2>3 DEF SetStatus, Advance
<1>6. QED
  BY <1>1, <1>2, <1>3, <1>4, <1>5 DEF Computed

(* WrittenRow: the row-wise write of a transition that replaced one row is *)
(* the transition itself.                                                  *)
LEMMA WrittenRow ==
  ASSUME NEW s \in Snapshot, NEW t \in Turn, NEW row,
         NEW status, NEW remaining, NEW received, NEW watermark, NEW next,
         next = Advance(s, status, remaining, received, watermark,
                        [s.turns EXCEPT ![t] = row])
  PROVE  [next EXCEPT !.turns = [s.turns EXCEPT ![t] = next.turns[t]]] = next
<1>1. next.turns[t] = row
  BY DEF Advance, Snapshot
<1>2. QED
  BY <1>1 DEF Advance

(* ComputedWritten: so committing a computed operation on the snapshot it  *)
(* was computed on, row by row, stores its result.                         *)
LEMMA ComputedWritten ==
  ASSUME store \in Snapshot, NEW k, NEW o, Computed(store, k, o)
  PROVE  Written(o) = o.next
<1>1. ASSUME NEW t \in Turn, NEW type, o.event = NextEvent(store, type, t),
             NEW status, NEW remaining, NEW received, NEW watermark, NEW row,
             o.next = Advance(store, status, remaining, received, watermark,
                              [store.turns EXCEPT ![t] = row])
      PROVE  Written(o) = o.next
  <2>1. [o.next EXCEPT !.turns =
           [store.turns EXCEPT ![t] = o.next.turns[t]]] = o.next
    BY <1>1, WrittenRow
  <2>2. o.event.turn = t /\ t # Nil
    BY <1>1, AggregateAssumption DEF NextEvent
  <2>3. QED
    BY <2>1, <2>2 DEF Written
<1>2. ASSUME NEW t \in Turn, NEW m \in Message, NEW f \in Fingerprint,
             NEW b \in Reservation, AcceptOn(store, o, t, m, f, b)
      PROVE  Written(o) = o.next
  BY <1>1, <1>2 DEF AcceptOn, AcceptMessage
<1>3. ASSUME NEW now, NEW t \in Turn, NEW fence,
             ClaimOn(store, o, t, fence, now)
      PROVE  Written(o) = o.next
  BY <1>1, <1>3 DEF ClaimOn, ClaimTurn
<1>4. ASSUME NEW now, NEW t \in Turn, NEW fence, NEW used, NEW outcome,
             NEW receipt, CompleteOn(store, o, t, fence, outcome, used, receipt, now)
      PROVE  Written(o) = o.next
  BY <1>1, <1>4 DEF CompleteOn, CompleteTurn
<1>5. ASSUME NEW now, NEW t \in Turn, NEW fence, NEW used, NEW authority,
             CancelOn(store, o, t, authority, fence, used, now)
      PROVE  Written(o) = o.next
  BY <1>1, <1>5 DEF CancelOn, CancelTurn
<1>6. ASSUME CloseOn(store, o) \/ HandoffOn(store, o)
      PROVE  Written(o) = o.next
  <2>1. o.event.turn = Nil
    BY <1>6 DEF CloseOn, HandoffOn, NextEvent
  <2>2. PICK status : o.next = SetStatus(store, status)
    BY <1>6 DEF CloseOn, HandoffOn, CloseSession, RequestHandoff
  <2>3. [o.next EXCEPT !.turns = store.turns] = o.next
    BY <2>2 DEF SetStatus, Advance
  <2>4. QED
    BY <2>1, <2>3 DEF Written
<1>7. QED
  BY <1>2, <1>3, <1>4, <1>5, <1>6 DEF Computed

(* ComputedStays: what holds at one time of the database clock still holds *)
(* at a later one.                                                         *)
LEMMA ComputedStays ==
  ASSUME NEW s, NEW k \in Nat, NEW l \in Nat, k <= l, NEW o, Computed(s, k, o)
  PROVE  Computed(s, l, o)
<1>1. \A now \in 0..(k + MaxSkew) : now \in 0..(l + MaxSkew)
  BY RuntimeAssumption
<1>2. QED
  BY <1>1 DEF Computed

(* ComputeKeeps: running a transition preserves the invariant, whatever    *)
(* the transition.                                                         *)
LEMMA ComputeKeeps ==
  ASSUME RInv, NEW c \in Caller, NEW next, NEW event,
         NEW fence \in Fence \cup {0}, Compute(c, next, event, fence),
         Computed(store, clock,
                  [expectedVersion |-> store.version, next |-> next,
                   event |-> event, fencingToken |-> fence])
  PROVE  RInv'
<1> DEFINE o == [expectedVersion |-> store.version, next |-> next,
                 event |-> event, fencingToken |-> fence]
<1>1. o.next \in Snapshot /\ o.event \in Event
  BY ComputedType DEF RInv
<1>2. o \in Operation
  BY <1>1 DEF Operation, RInv, Snapshot
<1>3. /\ op' = [op EXCEPT ![c] = o]
      /\ store' = store
      /\ clock' = clock
  BY DEF Compute
<1>4. op' \in [Caller -> Operation \cup {Nil}]
  BY <1>2, <1>3 DEF RInv
<1>5. o.expectedVersion <= store.version /\ Computed(store, clock, o)
  BY DEF RInv, Snapshot
<1> HIDE DEF o
<1>6. ASSUME NEW d \in Caller, op'[d] # Nil
      PROVE  /\ op'[d].expectedVersion <= store.version
             /\ op'[d].expectedVersion = store.version
                  => Computed(store, clock, op'[d])
  BY <1>3, <1>5, <1>6 DEF RInv
<1>7. QED
  BY <1>3, <1>4, <1>6 DEF RInv

(* BeginStep: so does each load and transition of the service.             *)
LEMMA BeginStep ==
  ASSUME RInv, NEW c \in Caller, Begin(c)
  PROVE  RInv'
<1>0. ASSUME NEW n \in LocalTime
      PROVE  n \in 0..(clock + MaxSkew)
  BY DEF LocalTime
<1>1. ASSUME NEW t \in Turn, NEW m \in Message, NEW f \in Fingerprint,
             NEW b \in Reservation, BeginAccept(c, t, m, f, b)
      PROVE  RInv'
  <2> DEFINE next == AcceptMessage(store, t, m, f, b)
             event == NextEvent(store, "message.accepted", t)
             o(token) == [expectedVersion |-> store.version, next |-> next,
                         event |-> event, fencingToken |-> token]
  <2> HIDE DEF next, event
  <2>1. Compute(c, next, event, 0) /\ AcceptOn(store, o(0), t, m, f, b)
    BY <1>1 DEF BeginAccept, AcceptOn, next, event
  <2>2. Computed(store, clock, o(0))
    BY <2>1 DEF Computed
  <2>3. QED
    BY <2>1, <2>2, ComputeKeeps
<1>2. ASSUME NEW now \in LocalTime, NEW t \in Turn, NEW fence \in Fence,
             BeginClaim(c, t, fence, now)
      PROVE  RInv'
  <2> DEFINE next == ClaimTurn(store, t, fence, now)
             event == NextEvent(store, "turn.processing", t)
             o(token) == [expectedVersion |-> store.version, next |-> next,
                         event |-> event, fencingToken |-> token]
  <2> HIDE DEF next, event
  <2>1. /\ Compute(c, next, event, fence)
        /\ ClaimOn(store, o(fence), t, fence, now)
    BY <1>2 DEF BeginClaim, ClaimOn, next, event
  <2>2. Computed(store, clock, o(fence))
    BY <1>0, <2>1 DEF Computed
  <2>3. QED
    BY <2>1, <2>2, ComputeKeeps
<1>3. ASSUME NEW now \in LocalTime, NEW t \in Turn, NEW fence \in Fence,
             NEW used \in Usage, NEW outcome \in Outcome,
             NEW receipt \in Receipts \cup {Nil},
             BeginComplete(c, t, fence, outcome, used, receipt, now)
      PROVE  RInv'
  <2> DEFINE next == CompleteTurn(store, t, outcome, used, receipt)
             event == NextEvent(store, CompletionEventType(outcome), t)
             o(token) == [expectedVersion |-> store.version, next |-> next,
                         event |-> event, fencingToken |-> token]
  <2> HIDE DEF next, event
  <2>1. /\ Compute(c, next, event, fence)
        /\ CompleteOn(store, o(fence), t, fence, outcome, used,
                      receipt, now)
    BY <1>3 DEF BeginComplete, CompleteOn, next, event
  <2>2. Computed(store, clock, o(fence))
    BY <1>0, <2>1 DEF Computed
  <2>3. QED
    BY <2>1, <2>2, ComputeKeeps
<1>4. ASSUME NEW now \in LocalTime, NEW t \in Turn, NEW fence \in Fence,
             NEW used \in Usage, NEW authority \in Authority,
             BeginCancel(c, t, authority, fence, used, now)
      PROVE  RInv'
  <2> DEFINE next == CancelTurn(store, t, authority, used)
             event == NextEvent(store, "turn.cancelled", t)
             o(token) == [expectedVersion |-> store.version, next |-> next,
                         event |-> event, fencingToken |-> token]
             shown == IF authority = "worker" THEN fence ELSE 0
  <2> HIDE DEF next, event
  <2>1. /\ Compute(c, next, event, shown)
        /\ CancelOn(store, o(shown), t, authority, fence, used, now)
        /\ shown \in Fence \cup {0}
    BY <1>4 DEF BeginCancel, CancelOn, next, event
  <2> HIDE DEF shown
  <2>2. Computed(store, clock, o(shown))
    BY <1>0, <2>1 DEF Computed
  <2>3. QED
    BY <2>1, <2>2, ComputeKeeps
<1>5. ASSUME BeginClose(c)
      PROVE  RInv'
  <2> DEFINE next == CloseSession(store)
             event == NextEvent(store, "session.closed", Nil)
             o(token) == [expectedVersion |-> store.version, next |-> next,
                         event |-> event, fencingToken |-> token]
  <2> HIDE DEF next, event
  <2>1. Compute(c, next, event, 0) /\ CloseOn(store, o(0))
    BY <1>5 DEF BeginClose, CloseOn, next, event
  <2>2. QED
    BY <2>1, ComputeKeeps DEF Computed
<1>6. ASSUME BeginHandoff(c)
      PROVE  RInv'
  <2> DEFINE next == RequestHandoff(store)
             event == NextEvent(store, "handoff.requested", Nil)
             o(token) == [expectedVersion |-> store.version, next |-> next,
                         event |-> event, fencingToken |-> token]
  <2> HIDE DEF next, event
  <2>1. Compute(c, next, event, 0) /\ HandoffOn(store, o(0))
    BY <1>6 DEF BeginHandoff, HandoffOn, next, event
  <2>2. QED
    BY <2>1, ComputeKeeps DEF Computed
<1>7. QED
  BY <1>1, <1>2, <1>3, <1>4, <1>5, <1>6 DEF Begin

(* StepKeeps: every step preserves the invariant.                          *)
LEMMA StepKeeps ==
  ASSUME RInv, [Next]_vars
  PROVE  RInv'
<1>1. CASE UNCHANGED vars
  BY <1>1 DEF RInv, vars
<1>2. ASSUME NEW c \in Caller, Begin(c)
      PROVE  RInv'
  BY <1>2, BeginStep
<1>3. ASSUME NEW c \in Caller, Commit(c)
      PROVE  RInv'
  <2> DEFINE o == op[c]
  <2>1. /\ o # Nil
        /\ store.version = o.expectedVersion
        /\ store' = Written(o)
        /\ op' = [op EXCEPT ![c] = Nil]
        /\ clock' = clock
    BY <1>3 DEF Commit
  <2>2. Computed(store, clock, o)
    BY <2>1 DEF RInv
  <2>3. store' = o.next
    BY <2>1, <2>2, ComputedWritten DEF RInv
  <2>4. o.next \in Snapshot /\ o.next.version = store.version + 1
    BY <2>2, ComputedType DEF RInv
  <2>5. op' \in [Caller -> Operation \cup {Nil}]
    BY <2>1 DEF RInv
  <2>6. ASSUME NEW d \in Caller, op'[d] # Nil
        PROVE  op'[d].expectedVersion <= store.version
    BY <2>1, <2>6 DEF RInv
  <2>7. op' \in [Caller -> Operation \cup {Nil}] /\ store.version \in Nat
    BY <2>5 DEF RInv, Snapshot
  <2>8. ASSUME NEW d \in Caller, op'[d] # Nil
        PROVE  op'[d].expectedVersion < store.version + 1
    BY <2>6, <2>7, <2>8 DEF Operation
  <2> HIDE DEF o
  <2>9. ASSUME NEW d \in Caller, op'[d] # Nil
        PROVE  /\ op'[d].expectedVersion <= store'.version
               /\ op'[d].expectedVersion # store'.version
    BY <2>3, <2>4, <2>7, <2>8, <2>9 DEF Operation
  <2>10. QED
    BY <2>1, <2>3, <2>4, <2>5, <2>9 DEF RInv
<1>4. ASSUME NEW c \in Caller, CommitReplay(c) \/ CommitRejected(c) \/ Crash(c)
      PROVE  RInv'
  <2>1. /\ op' = [op EXCEPT ![c] = Nil]
        /\ store' = store
        /\ clock' = clock
    BY <1>4 DEF CommitReplay, CommitRejected, Crash
  <2>2. QED
    BY <2>1 DEF RInv
<1>5. ASSUME NEW m \in Message, NEW f \in Fingerprint, ReplayAccepted(m, f)
      PROVE  RInv'
  BY <1>5 DEF ReplayAccepted, RInv
<1>6. CASE Tick
  <2>1. clock' = clock + 1 /\ store' = store /\ op' = op
    BY <1>6 DEF Tick
  <2>2. clock \in Nat /\ clock' \in Nat /\ clock <= clock'
    BY <2>1 DEF RInv
  <2>3. ASSUME NEW c \in Caller, Computed(store, clock, op[c])
        PROVE  Computed(store, clock', op[c])
    BY <2>2, <2>3, ComputedStays
  <2>4. QED
    BY <2>1, <2>2, <2>3 DEF RInv
<1>7. QED
  BY <1>1, <1>2, <1>3, <1>4, <1>5, <1>6 DEF Next

(* OperationsCurrent: in every behaviour, an operation in flight whose     *)
(* version is current was computed on the stored snapshot.                 *)
THEOREM OperationsCurrent == Spec => []RInv
<1>1. Init => RInv
  BY CreateType DEF Init, RInv
<1>2. QED
  BY <1>1, StepKeeps, PTL DEF Spec

-----------------------------------------------------------------------------
(* Each commit is the atomic operation its process computed.               *)

(* ApplyCommit: the writes of a commit are the atomic module's Apply.      *)
LEMMA ApplyCommit ==
  ASSUME RInv, NEW c \in Caller, Commit(c)
  PROVE  /\ Computed(store, clock, op[c])
         /\ Atomic!Apply(op[c].next, op[c].event)
<1> DEFINE o == op[c]
<1>1. /\ o # Nil
      /\ store.version = o.expectedVersion
      /\ store' = Written(o)
      /\ log' = log \cup {o.event}
      /\ outbox' = outbox \cup Signals(o)
      /\ UNCHANGED clock
  BY DEF Commit
<1>2. Computed(store, clock, o)
  BY <1>1 DEF RInv
<1>3. store' = o.next
  BY <1>1, <1>2, ComputedWritten DEF RInv
<1> HIDE DEF o
<1>4. o.event.type = "turn.cancelled" =>
        Signals(o) = Atomic!SignalsFor(store, o.event.turn)
  BY <1>1 DEF Signals, Atomic!SignalsFor
<1>5. o.event.type # "turn.cancelled" => Signals(o) = {}
  BY DEF Signals
<1>6. outbox' = IF o.event.type = "turn.cancelled"
                THEN outbox \cup Atomic!SignalsFor(store, o.event.turn)
                ELSE outbox
  BY <1>1, <1>4, <1>5
<1>7. Atomic!Apply(o.next, o.event)
  BY <1>1, <1>3, <1>6 DEF Atomic!Apply
<1>8. QED
  BY <1>2, <1>7 DEF o

(* CommitAtomic: a commit is one step of the atomic conversation.          *)
LEMMA CommitAtomic ==
  ASSUME RInv, NEW c \in Caller, Commit(c)
  PROVE  Atomic!Next
<1> DEFINE o == op[c]
<1>1. /\ Computed(store, clock, o)
      /\ Atomic!Apply(o.next, o.event)
  BY ApplyCommit
<1>2. ~IsReplay(o) /\ ReceiptFresh(o)
  BY DEF Commit
<1> HIDE DEF o
<1>3. store \in Snapshot
  BY DEF RInv
<1>4. ASSUME NEW t \in Turn, NEW m \in Message, NEW f \in Fingerprint,
             NEW b \in Reservation, AcceptOn(store, o, t, m, f, b)
      PROVE  Atomic!Accept(t, m, f, b)
  <2>1. o.event.turn = t /\ IsAccept(o)
    BY <1>4 DEF AcceptOn, NextEvent, IsAccept
  <2>2. o.next.turns[t] = AcceptedTurn(store, m, f, b)
    BY <1>3, <1>4 DEF AcceptOn, AcceptMessage, Advance, Snapshot
  <2>3. SentMessage(o) = m
    BY <2>1, <2>2 DEF SentMessage, AcceptedTurn, AbsentTurn
  <2>4. ~Atomic!Known(store, m)
    BY <1>2, <2>1, <2>3 DEF IsReplay, Stored, Atomic!Known
  <2>5. QED
    BY <1>1, <1>4, <2>4, SameGuards, SameTransitions
       DEF AcceptOn, Atomic!Accept
<1>5. ASSUME NEW t \in Turn, o.event.turn = t,
             o.event.type # "message.accepted"
      PROVE  Atomic!ReceiptFresh(o.next.turns[t])
  BY <1>2, <1>5, AggregateAssumption
     DEF ReceiptFresh, IsAccept, Atomic!ReceiptFresh
<1>6. ASSUME NEW now \in 0..(clock + MaxSkew), NEW t \in Turn,
             NEW fence \in Fence, ClaimOn(store, o, t, fence, now)
      PROVE  Atomic!Claim(t, fence, now)
  <2>1. o.event.turn = t /\ o.event.type = "turn.processing"
    BY <1>6 DEF ClaimOn, NextEvent
  <2>2. o.next.turns[t] = ClaimedTurn(store.turns[t], fence, now)
    BY <1>3, <1>6 DEF ClaimOn, ClaimTurn, Advance, Snapshot
  <2>3. o.next.turns[t].receiptExpiresAt = store.turns[t].receiptExpiresAt
    BY <2>2, <1>3, TurnOf DEF ClaimedTurn, TurnRecord
  <2>4. Atomic!ReceiptFresh(store.turns[t])
    BY <1>5, <2>1, <2>3 DEF Atomic!ReceiptFresh
  <2>5. QED
    BY <1>1, <1>6, <2>4, SameGuards, SameTransitions
       DEF ClaimOn, Atomic!Claim
<1>7. ASSUME NEW now \in 0..(clock + MaxSkew), NEW t \in Turn,
             NEW fence \in Fence, NEW used \in Usage, NEW outcome \in Outcome,
             NEW receipt \in Receipts \cup {Nil},
             CompleteOn(store, o, t, fence, outcome, used, receipt, now)
      PROVE  Atomic!Complete(t, fence, outcome, used, receipt, now)
  <2>1. o.event.turn = t /\ o.event.type # "message.accepted"
    BY <1>7 DEF CompleteOn, NextEvent, CompletionEventType
  <2>2. Atomic!ReceiptFresh(
          CompleteTurn(store, t, outcome, used, receipt).turns[t])
    BY <1>5, <1>7, <2>1 DEF CompleteOn
  <2>3. QED
    BY <1>1, <1>7, <2>2, SameGuards, SameTransitions
       DEF CompleteOn, Atomic!Complete
<1>8. ASSUME NEW now \in 0..(clock + MaxSkew), NEW t \in Turn,
             NEW fence \in Fence, NEW used \in Usage,
             NEW authority \in Authority,
             CancelOn(store, o, t, authority, fence, used, now)
      PROVE  Atomic!Cancel(t, authority, fence, used, now)
  <2>1. o.event.turn = t /\ o.event.type = "turn.cancelled"
    BY <1>8 DEF CancelOn, NextEvent
  <2>2. o.next.turns[t] = CancelledTurn(store.turns[t], authority, used)
    BY <1>3, <1>8 DEF CancelOn, CancelTurn, Advance, Snapshot
  <2>3. o.next.turns[t].receiptExpiresAt = store.turns[t].receiptExpiresAt
    BY <2>2, <1>3, TurnOf DEF CancelledTurn, SettledTurn, TurnRecord
  <2>4. Atomic!ReceiptFresh(store.turns[t])
    BY <1>5, <2>1, <2>3 DEF Atomic!ReceiptFresh
  <2>5. QED
    BY <1>1, <1>8, <2>4, SameGuards, SameTransitions
       DEF CancelOn, Atomic!Cancel
<1>9. ASSUME CloseOn(store, o) \/ HandoffOn(store, o)
      PROVE  Atomic!Close \/ Atomic!Handoff
  BY <1>1, <1>9, SameGuards, SameTransitions
     DEF CloseOn, HandoffOn, Atomic!Close, Atomic!Handoff
<1>10. Outcome = Atomic!Outcome /\ Authority = Atomic!Authority
  BY DEF Outcome, Atomic!Outcome, Authority, Atomic!Authority
<1>11. QED
  BY <1>1, <1>4, <1>6, <1>7, <1>8, <1>9, <1>10 DEF Computed, Atomic!Next

(* OtherStepsStutter: loading, replaying, refusing and crashing are        *)
(* invisible, and the clock ticks in both.                                 *)
LEMMA OtherStepsStutter ==
  ASSUME [Next]_vars
  PROVE  \/ \E c \in Caller : Commit(c)
         \/ Atomic!Tick
         \/ UNCHANGED Atomic!vars
<1>1. ASSUME NEW c \in Caller, Begin(c)
      PROVE  UNCHANGED Atomic!vars
  BY <1>1 DEF Begin, BeginAccept, BeginClaim, BeginComplete, BeginCancel,
              BeginClose, BeginHandoff, Compute, Atomic!vars
<1>2. ASSUME NEW c \in Caller, CommitReplay(c) \/ CommitRejected(c) \/ Crash(c)
      PROVE  UNCHANGED Atomic!vars
  BY <1>2 DEF CommitReplay, CommitRejected, Crash, Atomic!vars
<1>3. ASSUME NEW m \in Message, NEW f \in Fingerprint, ReplayAccepted(m, f)
      PROVE  UNCHANGED Atomic!vars
  BY <1>3 DEF ReplayAccepted, Atomic!vars
<1>4. CASE Tick
  BY <1>4 DEF Tick, Atomic!Tick
<1>5. CASE UNCHANGED vars
  BY <1>5 DEF vars, Atomic!vars
<1>6. QED
  BY <1>1, <1>2, <1>3, <1>4, <1>5 DEF Next

(* RuntimeIsAtomic: the runtime of any number of API processes, which      *)
(* load, compute and write conditionally in any interleaving and may die   *)
(* in between, implements the conversation that applies each operation to  *)
(* the durable state at one instant.                                       *)
THEOREM RuntimeIsAtomic == Spec => AtomicSpec
<1>1. Init => Atomic!Init
  BY DEF Init, Atomic!Init, CreateSnapshot, Atomic!CreateSnapshot,
         AbsentTurn, Atomic!AbsentTurn, NoBudget, Atomic!NoBudget
<1>2. RInv /\ [Next]_vars => [Atomic!Next]_(Atomic!vars)
  <2>1. ASSUME RInv, [Next]_vars
        PROVE  Atomic!Next \/ UNCHANGED Atomic!vars
    BY <2>1, CommitAtomic, OtherStepsStutter DEF Atomic!Next
  <2>2. QED
    BY <2>1
<1>3. QED
  BY <1>1, <1>2, OperationsCurrent, PTL DEF Spec, AtomicSpec, Atomic!Spec

-----------------------------------------------------------------------------
(* The properties of the runtime that the atomic module cannot state.      *)

(* What a commit does to the turn rows: it fills one for a message that is *)
(* in no other, or rewrites one keeping its message, or touches none.      *)
Fills(o, t, m, f) ==
  /\ IsAccept(o)
  /\ o.event.turn = t
  /\ SentMessage(o) = m
  /\ SentFingerprint(o) = f
  /\ store.turns[t].status = "absent"
  /\ Stored(m) = {}
  /\ store'.turns[t].clientMessageId = m
  /\ store'.turns[t].requestFingerprint = f
  /\ store'.turns[t].receiptExpiresAt = 0
  /\ store'.turns[t].status = "accepted"

Rewrites(o, t) ==
  /\ ~IsAccept(o)
  /\ o.event.turn = t
  /\ store.turns[t].status # "absent"
  /\ store'.turns[t].status # "absent"
  /\ store'.turns[t].clientMessageId = store.turns[t].clientMessageId
  /\ store'.turns[t].requestFingerprint = store.turns[t].requestFingerprint
  /\ \/ store'.turns[t].receiptExpiresAt = store.turns[t].receiptExpiresAt
     \/ store'.turns[t].receiptExpiresAt > clock
  /\ store'.turns[t].status \in {"completed", "handed_off"} =>
       o.fencingToken = store.turns[t].fencingToken

KeepsOthers(t) == \A u \in Turn \ {t} : store'.turns[u] = store.turns[u]

CommitsRows(o) ==
  \/ \E t \in Turn, m \in Message, f \in Fingerprint :
       Fills(o, t, m, f) /\ KeepsOthers(t)
  \/ \E t \in Turn : Rewrites(o, t) /\ KeepsOthers(t)
  \/ ~IsAccept(o) /\ o.event.turn = Nil /\ store'.turns = store.turns

(* CommitRows: every commit does one of the three.                         *)
LEMMA CommitRows ==
  ASSUME RInv, NEW c \in Caller, Commit(c)
  PROVE  CommitsRows(op[c])
<1> DEFINE o == op[c]
<1>1. /\ Computed(store, clock, o)
      /\ store' = o.next
      /\ ~IsReplay(o)
      /\ ReceiptFresh(o)
  BY ApplyCommit DEF Commit, Atomic!Apply
<1>2. store \in Snapshot /\ store.turns \in [Turn -> TurnRecord]
  BY DEF RInv, Snapshot
<1> HIDE DEF o
<1>3. ASSUME NEW t \in Turn, NEW m \in Message, NEW f \in Fingerprint,
             NEW b \in Reservation, AcceptOn(store, o, t, m, f, b)
      PROVE  Fills(o, t, m, f) /\ KeepsOthers(t)
  <2>1. o.event.turn = t /\ IsAccept(o) /\ store.turns[t].status = "absent"
    BY <1>3 DEF AcceptOn, NextEvent, IsAccept, CanAccept
  <2>2. store'.turns = [store.turns EXCEPT ![t] = AcceptedTurn(store, m, f, b)]
    BY <1>1, <1>3 DEF AcceptOn, AcceptMessage, Advance
  <2>3. store'.turns[t] = AcceptedTurn(store, m, f, b) /\ KeepsOthers(t)
    BY <1>2, <2>2 DEF KeepsOthers
  <2>4. /\ store'.turns[t].clientMessageId = m
        /\ store'.turns[t].requestFingerprint = f
        /\ store'.turns[t].receiptExpiresAt = 0
        /\ store'.turns[t].status = "accepted"
    BY <2>3 DEF AcceptedTurn, AbsentTurn
  <2>5. SentMessage(o) = m /\ SentFingerprint(o) = f
    BY <1>1, <2>1, <2>4 DEF SentMessage, SentFingerprint
  <2>6. Stored(m) = {}
    BY <1>1, <2>1, <2>5 DEF IsReplay
  <2>7. QED
    BY <2>1, <2>3, <2>4, <2>5, <2>6 DEF Fills
<1>4. ASSUME NEW now, NEW t \in Turn, NEW fence,
             ClaimOn(store, o, t, fence, now)
      PROVE  Rewrites(o, t) /\ KeepsOthers(t)
  <2>1. o.event.turn = t /\ ~IsAccept(o)
    BY <1>4 DEF ClaimOn, NextEvent, IsAccept
  <2>2. store.turns[t].status # "absent"
    BY <1>4 DEF ClaimOn, CanClaim, IsFirstClaimable, Claimable
  <2>3. store'.turns =
          [store.turns EXCEPT ![t] = ClaimedTurn(store.turns[t], fence, now)]
    BY <1>1, <1>4 DEF ClaimOn, ClaimTurn, Advance
  <2>4. /\ store'.turns[t] = ClaimedTurn(store.turns[t], fence, now)
        /\ KeepsOthers(t)
    BY <1>2, <2>3 DEF KeepsOthers
  <2> DEFINE row == store.turns[t]
  <2>5. row \in TurnRecord
    BY <1>2
  <2>6. /\ store'.turns[t].clientMessageId = row.clientMessageId
        /\ store'.turns[t].requestFingerprint = row.requestFingerprint
        /\ store'.turns[t].receiptExpiresAt = row.receiptExpiresAt
        /\ store'.turns[t].status = "claimed"
    BY <2>4, <2>5 DEF ClaimedTurn, TurnRecord
  <2>7. QED
    BY <2>1, <2>2, <2>4, <2>6 DEF Rewrites
<1>5. ASSUME NEW now \in 0..(clock + MaxSkew), NEW t \in Turn, NEW fence,
             NEW used, NEW outcome, NEW receipt \in Receipts \cup {Nil},
             CompleteOn(store, o, t, fence, outcome, used, receipt, now)
      PROVE  Rewrites(o, t) /\ KeepsOthers(t)
  <2> DEFINE row == store.turns[t]
             status == IF outcome = "handoff" THEN "handed_off" ELSE "completed"
             expiry == IF receipt = Nil THEN row.receiptExpiresAt
                       ELSE receipt.expiresAt
  <2>1. o.event.turn = t /\ ~IsAccept(o)
    BY <1>5 DEF CompleteOn, NextEvent, CompletionEventType, IsAccept
  <2>2. row.status = "claimed" /\ o.fencingToken = row.fencingToken
    BY <1>5 DEF CompleteOn, CanComplete, HasCurrentClaim
  <2>3. store'.turns = [store.turns EXCEPT ![t] =
                          SettledTurn(row, status, used, expiry)]
    BY <1>1, <1>5 DEF CompleteOn, CompleteTurn, CompletedTurn, Advance
  <2>4. /\ store'.turns[t] = SettledTurn(row, status, used, expiry)
        /\ KeepsOthers(t)
    BY <1>2, <2>3 DEF KeepsOthers
  <2>5. row \in TurnRecord
    BY <1>2
  <2> HIDE DEF row, status, expiry
  <2>6. /\ store'.turns[t].clientMessageId = row.clientMessageId
        /\ store'.turns[t].requestFingerprint = row.requestFingerprint
        /\ store'.turns[t].receiptExpiresAt = expiry
        /\ store'.turns[t].status = status
    BY <2>4, <2>5 DEF SettledTurn, TurnRecord
  <2>7. expiry = row.receiptExpiresAt \/ expiry > clock
    <3>1. CASE receipt = Nil
      BY <3>1 DEF expiry
    <3>2. CASE receipt # Nil
      <4>1. expiry \in Nat /\ expiry > now
        BY <1>5, <3>2, RuntimeAssumption
           DEF CompleteOn, CanComplete, ValidReceipt, Receipt, expiry
      <4>2. expiry # 0
        BY <4>1
      <4>3. o.next.turns[t].receiptExpiresAt = expiry
        BY <1>1, <2>6
      <4>4. QED
        BY <1>1, <2>1, <4>2, <4>3, AggregateAssumption DEF ReceiptFresh
    <3>3. QED
      BY <3>1, <3>2
  <2>8. status # "absent"
    BY DEF status
  <2>9. QED
    BY <2>1, <2>2, <2>4, <2>6, <2>7, <2>8 DEF Rewrites, row
<1>6. ASSUME NEW now, NEW t \in Turn, NEW fence, NEW used, NEW authority,
             CancelOn(store, o, t, authority, fence, used, now)
      PROVE  Rewrites(o, t) /\ KeepsOthers(t)
  <2> DEFINE row == store.turns[t]
             charged == CancelUsage(row, authority, used)
  <2>1. o.event.turn = t /\ ~IsAccept(o)
    BY <1>6 DEF CancelOn, NextEvent, IsAccept
  <2>2. row.status # "absent"
    BY <1>6 DEF CancelOn, CanCancel, ActiveStatus
  <2>3. store'.turns = [store.turns EXCEPT ![t] =
          SettledTurn(row, "cancelled", charged, row.receiptExpiresAt)]
    BY <1>1, <1>6 DEF CancelOn, CancelTurn, CancelledTurn, Advance
  <2>4. /\ store'.turns[t] =
             SettledTurn(row, "cancelled", charged, row.receiptExpiresAt)
        /\ KeepsOthers(t)
    BY <1>2, <2>3 DEF KeepsOthers
  <2>5. row \in TurnRecord
    BY <1>2
  <2> HIDE DEF row, charged
  <2>6. /\ store'.turns[t].clientMessageId = row.clientMessageId
        /\ store'.turns[t].requestFingerprint = row.requestFingerprint
        /\ store'.turns[t].receiptExpiresAt = row.receiptExpiresAt
        /\ store'.turns[t].status = "cancelled"
    BY <2>4, <2>5 DEF SettledTurn, TurnRecord
  <2>7. QED
    BY <2>1, <2>2, <2>4, <2>6 DEF Rewrites, row
<1>7. ASSUME CloseOn(store, o) \/ HandoffOn(store, o)
      PROVE  /\ ~IsAccept(o)
             /\ o.event.turn = Nil
             /\ store'.turns = store.turns
  BY <1>1, <1>7 DEF CloseOn, HandoffOn, NextEvent, IsAccept, CloseSession,
                    RequestHandoff, SetStatus, Advance
<1>8. QED
  BY <1>1, <1>3, <1>4, <1>5, <1>6, <1>7 DEF Computed, CommitsRows, o

(* RowsInv: a row not yet used carries no receipt, a message is in one     *)
(* row, and what was acknowledged stands in the row it names.              *)
Acknowledges(r) ==
  /\ r = [message |-> r.message, fingerprint |-> r.fingerprint,
          turn |-> r.turn]
  /\ r.turn \in Turn
  /\ store.turns[r.turn].status # "absent"
  /\ store.turns[r.turn].clientMessageId = r.message
  /\ store.turns[r.turn].requestFingerprint = r.fingerprint

RowsInv ==
  /\ \A t \in Turn : store.turns[t].status = "absent" =>
       store.turns[t].receiptExpiresAt = 0
  /\ \A t \in Turn : store.turns[t].status # "absent" =>
       /\ store.turns[t].clientMessageId \in Message
       /\ store.turns[t].requestFingerprint \in Fingerprint
  /\ \A t, u \in Turn :
       /\ store.turns[t].status # "absent"
       /\ store.turns[u].status # "absent"
       /\ store.turns[t].clientMessageId = store.turns[u].clientMessageId
       => t = u
  /\ \A r \in replies : Acknowledges(r)

(* RowsStep: every step preserves it.                                      *)
LEMMA RowsStep ==
  ASSUME RInv, RowsInv, [Next]_vars
  PROVE  RowsInv'
<1>1. ASSUME store' = store, replies' = replies
      PROVE  RowsInv'
  BY <1>1 DEF RowsInv, Acknowledges
<1>2. ASSUME NEW m, NEW f, NEW t \in Stored(m), store' = store,
             replies' = replies \cup ReplyFor(m, f, t)
      PROVE  RowsInv'
  <2>1. ASSUME NEW r \in ReplyFor(m, f, t)
        PROVE  Acknowledges(r)
    BY <2>1 DEF ReplyFor, Stored, Acknowledges
  <2>2. \A r \in replies' : Acknowledges(r)
    BY <1>2, <2>1 DEF RowsInv
  <2>3. QED
    BY <1>2, <2>2 DEF RowsInv, Acknowledges
<1>3. ASSUME NEW c \in Caller, Begin(c)
      PROVE  RowsInv'
  <2>1. store' = store /\ replies' = replies
    BY <1>3 DEF Begin, BeginAccept, BeginClaim, BeginComplete, BeginCancel,
                BeginClose, BeginHandoff, Compute
  <2>2. QED
    BY <1>1, <2>1
<1>4. ASSUME NEW c \in Caller, Commit(c)
      PROVE  RowsInv'
  <2> DEFINE o == op[c]
  <2>1. CommitsRows(o) /\ replies' = replies \cup Acknowledged(o)
    BY <1>4, CommitRows DEF Commit
  <2> HIDE DEF o
  <2>2. ASSUME NEW t \in Turn, NEW m \in Message, NEW f \in Fingerprint,
               Fills(o, t, m, f), KeepsOthers(t)
        PROVE  RowsInv'
    <3>1. Acknowledged(o) = {[message |-> m, fingerprint |-> f, turn |-> t]}
      BY <2>2 DEF Acknowledged, Fills
    <3>2. \A u \in Turn \ {t} : store'.turns[u] = store.turns[u]
      BY <2>2 DEF KeepsOthers
    <3>3. \A u \in Turn \ {t} : store.turns[u].status # "absent" =>
            store.turns[u].clientMessageId # m
      BY <2>2 DEF Fills, Stored
    <3>4. ASSUME NEW r \in replies
          PROVE  Acknowledges(r)'
      <4>1. Acknowledges(r) /\ r.turn # t
        BY <2>2 DEF RowsInv, Acknowledges, Fills
      <4>2. QED
        BY <3>2, <4>1 DEF Acknowledges
    <3>5. Acknowledges([message |-> m, fingerprint |-> f, turn |-> t])'
      BY <2>2 DEF Acknowledges, Fills
    <3>6. \A r \in replies' : Acknowledges(r)'
      BY <2>1, <3>1, <3>4, <3>5
    <3>7. \A u, v \in Turn :
            /\ store'.turns[u].status # "absent"
            /\ store'.turns[v].status # "absent"
            /\ store'.turns[u].clientMessageId = store'.turns[v].clientMessageId
            => u = v
      BY <2>2, <3>2, <3>3 DEF RowsInv, Fills
    <3>8. \A u \in Turn : store'.turns[u].status = "absent" =>
            store'.turns[u].receiptExpiresAt = 0
      BY <2>2, <3>2 DEF RowsInv, Fills
    <3>9. \A u \in Turn : store'.turns[u].status # "absent" =>
            /\ store'.turns[u].clientMessageId \in Message
            /\ store'.turns[u].requestFingerprint \in Fingerprint
      BY <2>2, <3>2 DEF RowsInv, Fills
    <3>10. QED
      BY <3>6, <3>7, <3>8, <3>9 DEF RowsInv
  <2>3. ASSUME NEW t \in Turn, Rewrites(o, t), KeepsOthers(t)
        PROVE  RowsInv'
    <3>1. replies' = replies
      BY <2>1, <2>3 DEF Acknowledged, Rewrites
    <3>2. \A u \in Turn :
            /\ store'.turns[u].status = "absent"
                 <=> store.turns[u].status = "absent"
            /\ store'.turns[u].clientMessageId = store.turns[u].clientMessageId
            /\ store'.turns[u].requestFingerprint
                 = store.turns[u].requestFingerprint
            /\ store'.turns[u].status = "absent" =>
                 store'.turns[u].receiptExpiresAt
                   = store.turns[u].receiptExpiresAt
      BY <2>3 DEF Rewrites, KeepsOthers
    <3>3. QED
      BY <3>1, <3>2 DEF RowsInv, Acknowledges
  <2>4. ASSUME ~IsAccept(o), store'.turns = store.turns
        PROVE  RowsInv'
    <3>1. replies' = replies
      BY <2>1, <2>4 DEF Acknowledged
    <3>2. QED
      BY <2>4, <3>1 DEF RowsInv, Acknowledges
  <2>5. QED
    BY <2>1, <2>2, <2>3, <2>4 DEF CommitsRows
<1>5. ASSUME NEW c \in Caller, CommitReplay(c)
      PROVE  RowsInv'
  BY <1>2, <1>5 DEF CommitReplay
<1>6. ASSUME NEW c \in Caller, CommitRejected(c) \/ Crash(c)
      PROVE  RowsInv'
  BY <1>1, <1>6 DEF CommitRejected, Crash
<1>7. ASSUME NEW m \in Message, NEW f \in Fingerprint, ReplayAccepted(m, f)
      PROVE  RowsInv'
  BY <1>2, <1>7 DEF ReplayAccepted
<1>8. CASE Tick
  BY <1>1, <1>8 DEF Tick
<1>9. CASE UNCHANGED vars
  BY <1>1, <1>9 DEF vars
<1>10. QED
  BY <1>3, <1>4, <1>5, <1>6, <1>7, <1>8, <1>9 DEF Next

(* RowsInvariant: both invariants hold throughout.                         *)
LEMMA RowsInvariant == Spec => [](RInv /\ RowsInv)
<1>1. Init => RInv /\ RowsInv
  <2>1. Init => RInv
    BY CreateType DEF Init, RInv
  <2>2. Init => RowsInv
    BY DEF Init, RowsInv, CreateSnapshot, AbsentTurn
  <2>3. QED
    BY <2>1, <2>2
<1>2. RInv /\ RowsInv /\ [Next]_vars => (RInv /\ RowsInv)'
  BY StepKeeps, RowsStep
<1>3. QED
  BY <1>1, <1>2, PTL DEF Spec

(* RepliesStayTrue: every acknowledgement ever given names the one turn    *)
(* that holds the message, with the content acknowledged, for any number   *)
(* of clients that send it again and of processes that race to accept it.  *)
THEOREM RepliesStayTrue == Spec => []RepliesAgree
<1>1. RowsInv => RepliesAgree
  <2>1. ASSUME RowsInv, NEW r \in replies, NEW q \in replies,
               q.message = r.message
        PROVE  q = r
    <3>1. Acknowledges(q) /\ Acknowledges(r)
      BY <2>1 DEF RowsInv
    <3>2. q.turn = r.turn
      BY <2>1, <3>1 DEF RowsInv, Acknowledges
    <3>3. QED
      BY <2>1, <3>1, <3>2 DEF Acknowledges
  <2>2. QED
    BY <2>1 DEF RepliesAgree, RowsInv, Acknowledges
<1>2. QED
  BY <1>1, RowsInvariant, PTL

(* CommitChanges: only a commit changes the stored rows.                   *)
LEMMA CommitChanges ==
  ASSUME RInv, [Next]_vars
  PROVE  \/ store' = store
         \/ \E c \in Caller : /\ Commit(c)
                              /\ CommitsRows(op[c])
                              /\ op' = [op EXCEPT ![c] = Nil]
<1>1. ASSUME NEW c \in Caller, Begin(c)
      PROVE  store' = store
  BY <1>1 DEF Begin, BeginAccept, BeginClaim, BeginComplete, BeginCancel,
              BeginClose, BeginHandoff, Compute
<1>2. ASSUME NEW c \in Caller, Commit(c)
      PROVE  CommitsRows(op[c]) /\ op' = [op EXCEPT ![c] = Nil]
  BY <1>2, CommitRows DEF Commit
<1>3. QED
  BY <1>1, <1>2 DEF Next, vars, CommitReplay, CommitRejected, Crash,
                    ReplayAccepted, Tick

(* StaleResultsAreRejected: a turn is completed or handed off only under   *)
(* the fence that holds it at the instant of the commit.                   *)
THEOREM StaleResultsAreRejected == Spec => StaleResultRejected
<1> DEFINE Held == \A c \in Caller, t \in Turn :
                     /\ op[c] # Nil
                     /\ op'[c] = Nil
                     /\ op[c].event.turn = t
                     /\ store.turns[t].status = "claimed"
                     /\ store'.turns[t].status \in {"completed", "handed_off"}
                     => op[c].fencingToken = store.turns[t].fencingToken
<1>1. ASSUME RInv, [Next]_vars
      PROVE  Held
  <2>1. CASE store' = store
    BY <2>1
  <2>2. ASSUME NEW d \in Caller, CommitsRows(op[d]),
               op' = [op EXCEPT ![d] = Nil]
        PROVE  Held
    <3>1. \A c \in Caller : op[c] # Nil /\ op'[c] = Nil => c = d
      BY <2>2 DEF RInv
    <3>2. ASSUME NEW t \in Turn, op[d].event.turn = t,
                 store.turns[t].status = "claimed",
                 store'.turns[t].status \in {"completed", "handed_off"}
          PROVE  op[d].fencingToken = store.turns[t].fencingToken
      <4>1. CASE \E u \in Turn, m \in Message, f \in Fingerprint :
                   Fills(op[d], u, m, f)
        BY <3>2, <4>1 DEF Fills
      <4>2. CASE \E u \in Turn : Rewrites(op[d], u)
        BY <3>2, <4>2 DEF Rewrites
      <4>3. CASE store'.turns = store.turns
        BY <3>2, <4>3
      <4>4. QED
        BY <2>2, <4>1, <4>2, <4>3 DEF CommitsRows
    <3>3. QED
      BY <3>1, <3>2
  <2>3. QED
    BY <1>1, <2>1, <2>2, CommitChanges
<1>2. RInv /\ [Next]_vars => [Held]_vars
  BY <1>1
<1>3. QED
  BY <1>2, OperationsCurrent, PTL DEF Spec, StaleResultRejected

(* ReceiptsLiveAtCommit: a release receipt enters a turn only while it is  *)
(* unexpired on the database clock, however far the worker's clock is off. *)
THEOREM ReceiptsLiveAtCommit == Spec => ReceiptLiveAtCommit
<1> DEFINE Live == \A t \in Turn :
                     store'.turns[t].receiptExpiresAt
                       # store.turns[t].receiptExpiresAt =>
                     store'.turns[t].receiptExpiresAt > clock
<1>1. ASSUME RInv, RowsInv, [Next]_vars
      PROVE  Live
  <2>1. CASE store' = store
    BY <2>1
  <2>2. ASSUME NEW d \in Caller, CommitsRows(op[d])
        PROVE  Live
    <3>1. ASSUME NEW u \in Turn, NEW m \in Message, NEW f \in Fingerprint,
                 Fills(op[d], u, m, f), KeepsOthers(u)
          PROVE  Live
      BY <1>1, <3>1 DEF Fills, KeepsOthers, RowsInv
    <3>2. ASSUME NEW u \in Turn, Rewrites(op[d], u), KeepsOthers(u)
          PROVE  Live
      BY <3>2 DEF Rewrites, KeepsOthers
    <3>3. CASE store'.turns = store.turns
      BY <3>3
    <3>4. QED
      BY <2>2, <3>1, <3>2, <3>3 DEF CommitsRows
  <2>3. QED
    BY <1>1, <2>1, <2>2, CommitChanges
<1>2. RInv /\ RowsInv /\ [Next]_vars => [Live]_vars
  BY <1>1
<1>3. QED
  BY <1>2, RowsInvariant, PTL DEF Spec, ReceiptLiveAtCommit

(* RuntimeTypeInvariant: every row, event, signal, reply and operation in  *)
(* flight is well formed; in particular no budget counter is negative.     *)
THEOREM RuntimeTypeInvariant == Spec => []TypeOK
<1> DEFINE Rows == log \in SUBSET Event /\ outbox \in SUBSET CancelSignal
<1>1. Init => Rows
  BY DEF Init
<1>2. RInv /\ Rows /\ [Next]_vars => Rows'
  <2>1. ASSUME RInv, Rows, NEW c \in Caller, Commit(c)
        PROVE  Rows'
    <3>1. op[c].event \in Event /\ op[c].expectedVersion \in Nat
      BY <2>1 DEF RInv, Commit, Operation
    <3>2. Signals(op[c]) \in SUBSET CancelSignal
      <4>1. CASE op[c].event.type = "turn.cancelled"
        <5>1. op[c].event.turn \in Turn
          <6>1. Computed(store, clock, op[c])
            BY <2>1, ApplyCommit
          <6>2. ~CloseOn(store, op[c]) /\ ~HandoffOn(store, op[c])
            BY <4>1 DEF CloseOn, HandoffOn, NextEvent
          <6>3. \E t \in Turn : \E type : op[c].event = NextEvent(store, type, t)
            BY <6>1, <6>2 DEF Computed, AcceptOn, ClaimOn, CompleteOn, CancelOn
          <6>4. QED
            BY <6>3 DEF NextEvent
        <5>2. store.turns[op[c].event.turn].fencingToken \in Nat
          BY <2>1, <5>1, TurnOf DEF RInv, TurnRecord
        <5>3. QED
          BY <3>1, <5>1, <5>2 DEF Signals, CancelSignal
      <4>2. CASE op[c].event.type # "turn.cancelled"
        BY <4>2 DEF Signals
      <4>3. QED
        BY <4>1, <4>2
    <3>3. QED
      BY <2>1, <3>1, <3>2 DEF Commit
  <2>2. ASSUME [Next]_vars, ~ \E c \in Caller : Commit(c)
        PROVE  log' = log /\ outbox' = outbox
    BY <2>2 DEF Next, vars, Begin, BeginAccept, BeginClaim, BeginComplete,
                BeginCancel, BeginClose, BeginHandoff, Compute, CommitReplay,
                CommitRejected, Crash, ReplayAccepted, Tick
  <2>3. QED
    BY <2>1, <2>2
<1>3. RInv /\ RowsInv /\ Rows => TypeOK
  <2>1. RowsInv => replies \in SUBSET Reply
    BY DEF RowsInv, Acknowledges, Reply
  <2>2. RInv => \A c \in Caller : op[c] # Nil => op[c] \in Operation
    BY DEF RInv
  <2>3. QED
    BY <2>1, <2>2 DEF TypeOK, RInv
<1>4. QED
  BY <1>1, <1>2, <1>3, RowsInvariant, PTL DEF Spec

=============================================================================
