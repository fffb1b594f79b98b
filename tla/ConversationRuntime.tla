------------------------- MODULE ConversationRuntime -------------------------
(***************************************************************************)
(* The conversation runtime as it runs: any number of API processes, each  *)
(* of which loads a snapshot of the session (getSnapshot), computes a      *)
(* transition on it in memory (ConversationAggregate) and later asks the   *)
(* repository to commit the result under optimistic concurrency control.   *)
(* Between the load and the commit every other process may commit, the     *)
(* clock may move, and the process may die.                                *)
(*                                                                         *)
(* The unique indexes on (session, event sequence), (session, received     *)
(* sequence), (session, client message) and one claimed turn per session   *)
(* are left out on purpose: the invariants show that the version check     *)
(* alone keeps them, so they never fire.                                   *)
(***************************************************************************)
EXTENDS ConversationAggregate

CONSTANTS
  Caller,         \* requests and dispatcher workers in flight
  Fence,          \* fencing tokens a caller may present
  Receipts,       \* release receipts the AI plane may return
  MaxSkew,        \* how far a process's clock may differ from the database's
  SessionExpiry   \* the session's expiresAt

ASSUME RuntimeAssumption ==
  /\ Fence \subseteq Nat \ {0}
  /\ Receipts \subseteq Receipt
  /\ Nil \notin Receipts
  /\ MaxSkew \in Nat
  /\ SessionExpiry \in Nat

VARIABLES
  store,    \* the durable snapshot: runtime row and turn rows
  log,      \* the public event rows
  outbox,   \* conversation.ai.cancel.requested outbox rows
  clock,    \* the database clock
  op,       \* each caller's computed, not yet committed transition
  replies   \* acknowledgements of acceptMessage sent to clients

vars == <<store, log, outbox, clock, op, replies>>

Operation ==
  [expectedVersion : Nat,
   next            : Snapshot,
   event           : Event,
   fencingToken    : Fence \cup {0}]
Reply == [message : Message, fingerprint : Fingerprint, turn : Turn]

CancelSignal == [turn : Turn, fencingToken : Nat, conversationVersion : Nat]

TypeOK ==
  /\ store \in Snapshot
  /\ log \in SUBSET Event
  /\ outbox \in SUBSET CancelSignal
  /\ clock \in Nat
  /\ \A c \in Caller : op[c] # Nil => op[c] \in Operation
  /\ replies \in SUBSET Reply

Init ==
  /\ store = CreateSnapshot
  /\ log = {}
  /\ outbox = {}
  /\ clock = 0
  /\ op = [c \in Caller |-> Nil]
  /\ replies = {}

LocalTime == {n \in 0..(clock + MaxSkew) : n + MaxSkew >= clock}
Readable(now) == now < SessionExpiry

-----------------------------------------------------------------------------
(* The service: load the snapshot, run the transition, keep the result.    *)

Compute(c, next, event, fence) ==
  /\ op[c] = Nil
  /\ op' = [op EXCEPT ![c] = [expectedVersion |-> store.version,
                              next |-> next, event |-> event,
                              fencingToken |-> fence]]
  /\ UNCHANGED <<store, log, outbox, clock, replies>>

(* acceptMessage: findAcceptedMessage may have run before a duplicate of   *)
(* the message was committed, so the load may already see it.              *)
BeginAccept(c, t, m, f, b) ==
  /\ \E now \in LocalTime : Readable(now)
  /\ CanAccept(store, t, b)
  /\ Compute(c, AcceptMessage(store, t, m, f, b),
             NextEvent(store, "message.accepted", t), 0)

BeginClaim(c, t, fence, now) ==
  /\ Readable(now)
  /\ CanClaim(store, t, fence, now)
  /\ Compute(c, ClaimTurn(store, t, fence, now),
             NextEvent(store, "turn.processing", t), fence)

BeginComplete(c, t, fence, outcome, used, receipt, now) ==
  /\ Readable(now)
  /\ CanComplete(store, t, fence, used, receipt, now)
  /\ Compute(c, CompleteTurn(store, t, outcome, used, receipt),
             NextEvent(store, CompletionEventType(outcome), t), fence)

BeginCancel(c, t, authority, fence, used, now) ==
  /\ Readable(now)
  /\ CanCancel(store, t, authority, fence, used, now)
  /\ Compute(c, CancelTurn(store, t, authority, used),
             NextEvent(store, "turn.cancelled", t),
             IF authority = "worker" THEN fence ELSE 0)

BeginClose(c) ==
  /\ \E now \in LocalTime : Readable(now)
  /\ CanClose(store)
  /\ Compute(c, CloseSession(store), NextEvent(store, "session.closed", Nil), 0)

BeginHandoff(c) ==
  /\ \E now \in LocalTime : Readable(now)
  /\ CanRequestHandoff(store)
  /\ Compute(c, RequestHandoff(store),
             NextEvent(store, "handoff.requested", Nil), 0)

-----------------------------------------------------------------------------
(* The repository: one serializable transaction under the session lock.    *)

Stored(m) == {t \in Turn : /\ store.turns[t].status # "absent"
                           /\ store.turns[t].clientMessageId = m}

IsAccept(o) == o.event.type = "message.accepted"
SentMessage(o) == o.next.turns[o.event.turn].clientMessageId
SentFingerprint(o) == o.next.turns[o.event.turn].requestFingerprint
\* Fault: the commit does not look for an earlier acceptance.
IsReplayUnchecked(o) == FALSE
IsReplay(o) == IsAccept(o) /\ Stored(SentMessage(o)) # {}

(* A message that is already in the inbox is answered from its turn if the *)
(* fingerprints agree, and refused otherwise.                              *)
ReplyFor(m, f, t) ==
  IF store.turns[t].requestFingerprint = f
  THEN {[message |-> m, fingerprint |-> f, turn |-> t]}
  ELSE {}

(* The release receipt a written turn carries must outlive the commit on   *)
(* the database's clock.                                                   *)
\* Fault: the receipt is not compared with the database clock.
ReceiptUnchecked(o) == TRUE
ReceiptFresh(o) ==
  o.event.turn # Nil /\ ~IsAccept(o) =>
    \/ o.next.turns[o.event.turn].receiptExpiresAt = 0
    \/ o.next.turns[o.event.turn].receiptExpiresAt > clock

(* Only the runtime row and the event's own turn row are written.          *)
Written(o) ==
  IF o.event.turn = Nil
  THEN [o.next EXCEPT !.turns = store.turns]
  ELSE [o.next EXCEPT !.turns =
          [store.turns EXCEPT ![o.event.turn] = o.next.turns[o.event.turn]]]

Signals(o) ==
  IF o.event.type = "turn.cancelled"
     /\ store.turns[o.event.turn].status = "claimed"
  THEN {[turn |-> o.event.turn,
         fencingToken |-> store.turns[o.event.turn].fencingToken,
         conversationVersion |-> o.expectedVersion]}
  ELSE {}

(* What a commit acknowledges to the client: only an acceptance.           *)
Acknowledged(o) ==
  IF IsAccept(o)
  THEN {[message |-> SentMessage(o), fingerprint |-> SentFingerprint(o),
         turn |-> o.event.turn]}
  ELSE {}

\* Fault: the conditional update drops its version condition.
CommitAnyVersion(c) ==
  LET o == op[c] IN
  /\ o # Nil
  /\ ~IsReplay(o)
  /\ ReceiptFresh(o)
  /\ store' = Written(o)
  /\ log' = log \cup {o.event}
  /\ outbox' = outbox \cup Signals(o)
  /\ replies' = replies \cup Acknowledged(o)
  /\ op' = [op EXCEPT ![c] = Nil]
  /\ UNCHANGED clock
Commit(c) ==
  LET o == op[c] IN
  /\ o # Nil
  /\ ~IsReplay(o)
  /\ store.version = o.expectedVersion
  /\ ReceiptFresh(o)
  /\ store' = Written(o)
  /\ log' = log \cup {o.event}
  /\ outbox' = outbox \cup Signals(o)
  /\ replies' = replies \cup Acknowledged(o)
  /\ op' = [op EXCEPT ![c] = Nil]
  /\ UNCHANGED clock

(* The commit finds the message already accepted, whatever the version.    *)
CommitReplay(c) ==
  /\ op[c] # Nil
  /\ IsReplay(op[c])
  /\ \E t \in Stored(SentMessage(op[c])) :
       replies' = replies \cup
         ReplyFor(SentMessage(op[c]), SentFingerprint(op[c]), t)
  /\ op' = [op EXCEPT ![c] = Nil]
  /\ UNCHANGED <<store, log, outbox, clock>>

(* The version moved, or the receipt lapsed: the transaction rolls back.   *)
CommitRejected(c) ==
  /\ op[c] # Nil
  /\ ~IsReplay(op[c])
  /\ store.version # op[c].expectedVersion \/ ~ReceiptFresh(op[c])
  /\ op' = [op EXCEPT ![c] = Nil]
  /\ UNCHANGED <<store, log, outbox, clock, replies>>

(* findAcceptedMessage: a resent message is answered without a transition. *)
ReplayAccepted(m, f) ==
  /\ \E now \in LocalTime : Readable(now)
  /\ \E t \in Stored(m) : replies' = replies \cup ReplyFor(m, f, t)
  /\ UNCHANGED <<store, log, outbox, clock, op>>

(* The process dies between its load and its commit.                       *)
Crash(c) ==
  /\ op[c] # Nil
  /\ op' = [op EXCEPT ![c] = Nil]
  /\ UNCHANGED <<store, log, outbox, clock, replies>>

Tick ==
  /\ clock' = clock + 1
  /\ UNCHANGED <<store, log, outbox, op, replies>>

Begin(c) ==
  \/ \E t \in Turn, m \in Message, f \in Fingerprint, b \in Reservation :
       BeginAccept(c, t, m, f, b)
  \/ \E now \in LocalTime, t \in Turn, fence \in Fence :
       \/ BeginClaim(c, t, fence, now)
       \/ \E used \in Usage :
            \/ \E outcome \in Outcome, receipt \in Receipts \cup {Nil} :
                 BeginComplete(c, t, fence, outcome, used, receipt, now)
            \/ \E authority \in Authority :
                 BeginCancel(c, t, authority, fence, used, now)
  \/ BeginClose(c)
  \/ BeginHandoff(c)

Next ==
  \/ \E c \in Caller : \/ Begin(c)
                       \/ Commit(c)
                       \/ CommitReplay(c)
                       \/ CommitRejected(c)
                       \/ Crash(c)
  \/ \E m \in Message, f \in Fingerprint : ReplayAccepted(m, f)
  \/ Tick

Spec == Init /\ [][Next]_vars

-----------------------------------------------------------------------------
(* AtomicSpec: the load, compute and conditional write of many processes   *)
(* is indistinguishable from applying each operation at one instant.       *)
Atomic == INSTANCE AtomicConversation
AtomicSpec == Atomic!Spec

(* StaleResultRejected: a result is written only under the fence that      *)
(* holds the turn at that moment, however late its process commits.        *)
StaleResultRejected ==
  [][\A c \in Caller, t \in Turn :
       /\ op[c] # Nil
       /\ op'[c] = Nil
       /\ op[c].event.turn = t
       /\ store.turns[t].status = "claimed"
       /\ store'.turns[t].status \in {"completed", "handed_off"}
       => op[c].fencingToken = store.turns[t].fencingToken]_vars

(* ReceiptLiveAtCommit: an answer becomes durable only while its release   *)
(* receipt is unexpired on the database clock, not merely on the worker's. *)
ReceiptLiveAtCommit ==
  [][\A t \in Turn :
       store'.turns[t].receiptExpiresAt # store.turns[t].receiptExpiresAt =>
         store'.turns[t].receiptExpiresAt > clock]_vars

(* RepliesAgree: every acknowledgement of a message names the one turn     *)
(* that durably holds it, with the content that was acknowledged.          *)
RepliesAgree ==
  \A r \in replies :
    /\ store.turns[r.turn].clientMessageId = r.message
    /\ store.turns[r.turn].requestFingerprint = r.fingerprint
    /\ \A q \in replies : q.message = r.message => q = r

=============================================================================
