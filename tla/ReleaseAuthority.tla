--------------------------- MODULE ReleaseAuthority ---------------------------
(***************************************************************************)
(* The authority over which assistant release may answer: one scope's      *)
(* append-only history and active pointer, guarded by database triggers    *)
(* while release transactions race; the trusted registry whose rows can be *)
(* revoked at any time; and the turns that resolve the release, resolve it *)
(* again after the graph ran, take a short commit lease on it and answer.  *)
(* Only committed rows are variables: a transaction's own writes stay in   *)
(* tx until it commits.  The writer is outside the repository and is any   *)
(* transaction the domain document and the triggers admit.                 *)
(***************************************************************************)
EXTENDS Naturals, Sequences, FiniteSets

CONSTANTS
  Activation,   \* activations of one assistant profile and environment
  PriorOf,      \* the prior activation each one pins, Nil for static safe
  Writer,       \* release transactions running side by side
  Turn,         \* turns answered by the AI plane
  Safe,         \* the static safe release every activation falls back to
  LeaseTime,    \* life of a commit lease (15 seconds), in clock ticks
  MaxRevision,  \* bound: revisions of the pointer
  MaxClock,     \* bound: ticks of the database clock
  Nil

VARIABLES
  history,  \* committed history events, in sequence
  pointer,  \* committed pointer: target and revision
  outbox,   \* sequences of the history events with an outbox event
  tx,       \* the open transaction of each writer
  trust,    \* activations whose artifacts and evidence are still active
  turn,     \* progress of each turn through resolution
  lease,    \* commit lease of each turn
  clock

vars == <<history, pointer, outbox, tx, trust, turn, lease, clock>>

EventTypes == {"activated", "superseded", "revoked", "rolled_back"}
Events == [type : EventTypes,
           from : Activation \cup {Safe}, to : Activation \cup {Safe}]
Pointers == [target : Activation \cup {Safe}, revision : 0..MaxRevision]
Transactions == [event : Events, revision : 1..MaxRevision,
                 inserted : BOOLEAN, moved : BOOLEAN, published : BOOLEAN]
Phases == {"idle", "pointer", "snapshot", "verified", "fresh", "running",
           "checked", "leased", "answered", "failed"}
Turns == [phase : Phases, pass : 1..2, seen : Pointers \cup {Nil},
          snap : Pointers \cup {Nil}, receipts : SUBSET Activation,
          release : Pointers \cup {Nil}]
Leases == [activation : Activation, revision : 1..MaxRevision,
           expires : 0..MaxClock + LeaseTime]

TypeOK ==
  /\ history \in Seq(Events)
  /\ pointer \in Pointers
  /\ outbox \subseteq 1..MaxRevision
  /\ tx \in [Writer -> Transactions \cup {Nil}]
  /\ trust \subseteq Activation
  /\ turn \in [Turn -> Turns]
  /\ lease \in [Turn -> Leases \cup {Nil}]
  /\ clock \in 0..MaxClock

NewTurn == [phase |-> "idle", pass |-> 1, seen |-> Nil, snap |-> Nil,
            receipts |-> {}, release |-> Nil]

\* The pointer is created on the static safe release at revision zero.
Init ==
  /\ history = << >>
  /\ pointer = [target |-> Safe, revision |-> 0]
  /\ outbox = {}
  /\ tx = [w \in Writer |-> Nil]
  /\ trust = Activation
  /\ turn = [t \in Turn |-> NewTurn]
  /\ lease = [t \in Turn |-> Nil]
  /\ clock = 0

-----------------------------------------------------------------------------
(* Release transactions.                                                   *)

\* Sequences of the events that made a the target.
MadeTarget(a) == {i \in DOMAIN history : history[i].to = a}

\* The table's event matrix, and the rule of the domain document that an
\* activation moves the pointer away from the target it would roll back to.
MatrixAdmits(e) ==
  \/ e.type = "activated"   /\ e.from = Safe /\ e.to # Safe
  \/ e.type = "superseded"  /\ e.from # Safe /\ e.to # Safe /\ e.from # e.to
  \/ e.type = "rolled_back" /\ e.from # Safe /\ e.to # Safe /\ e.from # e.to
  \/ e.type = "revoked"     /\ e.from # Safe /\ e.to = Safe

DocumentAdmits(e) == e.type = "superseded" => PriorOf[e.to] = e.from

\* The trigger on the history table compares an event with the pins of the
\* activations it names and with the committed chain.
HistoryAdmits(e, sequence) ==
  /\ sequence = Len(history) + 1
  /\ e.type = "activated"   => PriorOf[e.to] = Nil
  /\ e.type = "revoked"     => PriorOf[e.from] = Nil
  /\ e.type = "rolled_back" => PriorOf[e.from] = e.to /\ MadeTarget(e.to) # {}

\* Fault: the pointer moves whatever leases there are.
LiveLeaseIgnored(a) == FALSE
LiveLeaseOn(a) ==
  \E t \in Turn : /\ lease[t] # Nil
                  /\ lease[t].activation = a
                  /\ lease[t].expires > clock

\* The update of the pointer: its own guard, then the commit lease guard.
PointerAdmits(x) ==
  /\ x.inserted
  /\ x.revision = pointer.revision + 1
  /\ x.event.from = pointer.target
  /\ ~LiveLeaseOn(pointer.target)

\* Fault: the outbox event is not asked for.
CommitAdmitsUnpublished(x) == x.moved
\* The deferred trigger on the history table, at commit.
CommitAdmits(x) == x.moved /\ x.published

\* A transaction fails as a whole: the writer has to start again.
Abort(w) == tx' = [tx EXCEPT ![w] = Nil]

\* A writer reads the pointer and prepares the event that moves it.
Prepare(w, e) ==
  /\ tx[w] = Nil
  /\ pointer.revision < MaxRevision
  /\ e.from = pointer.target /\ MatrixAdmits(e) /\ DocumentAdmits(e)
  /\ tx' = [tx EXCEPT ![w] = [event |-> e, revision |-> pointer.revision + 1,
                              inserted |-> FALSE, moved |-> FALSE,
                              published |-> FALSE]]
  /\ UNCHANGED <<history, pointer, outbox, trust, turn, lease, clock>>

\* The advisory lock of the scope is held from the insert to the commit.
InsertHistory(w) ==
  /\ tx[w] # Nil /\ ~tx[w].inserted
  /\ \A v \in Writer : tx[v] # Nil => ~tx[v].inserted
  /\ IF HistoryAdmits(tx[w].event, tx[w].revision)
     THEN tx' = [tx EXCEPT ![w].inserted = TRUE]
     ELSE Abort(w)
  /\ UNCHANGED <<history, pointer, outbox, trust, turn, lease, clock>>

MovePointer(w) ==
  /\ tx[w] # Nil /\ tx[w].inserted /\ ~tx[w].moved
  /\ IF PointerAdmits(tx[w])
     THEN tx' = [tx EXCEPT ![w].moved = TRUE]
     ELSE Abort(w)
  /\ UNCHANGED <<history, pointer, outbox, trust, turn, lease, clock>>

Publish(w) ==
  /\ tx[w] # Nil /\ tx[w].inserted /\ ~tx[w].published
  /\ tx' = [tx EXCEPT ![w].published = TRUE]
  /\ UNCHANGED <<history, pointer, outbox, trust, turn, lease, clock>>

\* Everything a transaction wrote becomes visible at once.
Commit(w) ==
  /\ tx[w] # Nil /\ tx[w].inserted
  /\ IF CommitAdmits(tx[w])
     THEN history' = Append(history, tx[w].event)
     ELSE UNCHANGED history
  /\ pointer' = IF CommitAdmits(tx[w]) /\ tx[w].moved
                THEN [target |-> tx[w].event.to, revision |-> tx[w].revision]
                ELSE pointer
  /\ outbox' = IF CommitAdmits(tx[w]) /\ tx[w].published
               THEN outbox \cup {tx[w].revision} ELSE outbox
  /\ Abort(w)
  /\ UNCHANGED <<trust, turn, lease, clock>>

\* The writer gives up, or dies and its connection with it.
Rollback(w) ==
  /\ tx[w] # Nil
  /\ Abort(w)
  /\ UNCHANGED <<history, pointer, outbox, trust, turn, lease, clock>>

\* A registry row goes from active to revoked, once; repeating the call with
\* the same idempotency key changes nothing.
RevokeTrust(a) ==
  /\ a \in trust
  /\ trust' = trust \ {a}
  /\ UNCHANGED <<history, pointer, outbox, tx, turn, lease, clock>>

-----------------------------------------------------------------------------
(* Resolution of a release by a turn.                                      *)

\* The activations whose artifacts and evidence a resolution reads: its own,
\* and those of the prior activation it would roll back to.
Evidence(a) == {a} \cup ({PriorOf[a]} \ {Nil})

\* The state of an activation, derived from the pointer and the history.
Related(a) == {i \in DOMAIN history : a \in {history[i].from, history[i].to}}
LastOf(S) == CHOOSE i \in S : \A j \in S : j <= i
FirstOf(S) == CHOOSE i \in S : \A j \in S : i <= j
StateOf(a) ==
  IF pointer.target = a THEN "active"
  ELSE IF Related(a) = {} THEN "unknown"
  ELSE IF history[LastOf(Related(a))].type = "revoked" THEN "revoked"
  ELSE "superseded"

\* The prior activation was authoritative before a first was, and has been
\* superseded, not revoked, since.
RollbackReady(a) ==
  PriorOf[a] # Nil =>
    /\ StateOf(PriorOf[a]) = "superseded"
    /\ \E i \in MadeTarget(PriorOf[a]) : i < FirstOf(MadeTarget(a))

Fail(t) == turn' = [turn EXCEPT ![t].phase = "failed"]

\* The first resolution starts the turn, the second follows the graph's run.
ReadPointer(t) ==
  /\ turn[t].phase \in {"idle", "running"}
  /\ IF pointer.target = Safe
     THEN Fail(t)
     ELSE turn' = [turn EXCEPT
            ![t].pass = IF turn[t].phase = "idle" THEN 1 ELSE 2,
            ![t].phase = "pointer", ![t].seen = pointer,
            ![t].snap = Nil, ![t].receipts = {}]
  /\ UNCHANGED <<history, pointer, outbox, tx, trust, lease, clock>>

\* One repeatable-read transaction over the activation, pointer and history.
Snapshot(t) ==
  /\ turn[t].phase = "pointer"
  /\ LET a == turn[t].seen.target IN
     IF StateOf(a) = "active" /\ RollbackReady(a)
     THEN turn' = [turn EXCEPT ![t].phase = "snapshot", ![t].snap = pointer]
     ELSE Fail(t)
  /\ UNCHANGED <<history, pointer, outbox, tx, trust, lease, clock>>

\* The registry is read row by row; each active row leaves a receipt.
Verify(t, a) ==
  /\ turn[t].phase = "snapshot"
  /\ a \in Evidence(turn[t].seen.target) \ turn[t].receipts
  /\ IF a \in trust
     THEN turn' = [turn EXCEPT ![t].receipts = @ \cup {a}]
     ELSE Fail(t)
  /\ UNCHANGED <<history, pointer, outbox, tx, trust, lease, clock>>

AssertPointerFresh(t) ==
  /\ turn[t].phase = "snapshot"
  /\ turn[t].receipts = Evidence(turn[t].seen.target)
  /\ IF pointer = turn[t].snap
     THEN turn' = [turn EXCEPT ![t].phase = "verified"]
     ELSE Fail(t)
  /\ UNCHANGED <<history, pointer, outbox, tx, trust, lease, clock>>

\* All receipts at once; then the release is the turn's, or is compared with
\* the one the turn ran on.
AssertTrustFresh(t) ==
  /\ turn[t].phase = "verified"
  /\ IF turn[t].receipts \subseteq trust
     THEN turn' = [turn EXCEPT ![t].phase = "fresh"]
     ELSE Fail(t)
  /\ UNCHANGED <<history, pointer, outbox, tx, trust, lease, clock>>

Resolved(t) ==
  /\ turn[t].phase = "fresh" /\ turn[t].pass = 1
  /\ turn' = [turn EXCEPT ![t].phase = "running", ![t].release = turn[t].seen]
  /\ UNCHANGED <<history, pointer, outbox, tx, trust, lease, clock>>

AssertCurrent(t) ==
  /\ turn[t].phase = "fresh" /\ turn[t].pass = 2
  /\ IF turn[t].seen = turn[t].release
     THEN turn' = [turn EXCEPT ![t].phase = "checked"]
     ELSE Fail(t)
  /\ UNCHANGED <<history, pointer, outbox, tx, trust, lease, clock>>

\* The statement share-locks the pointer row, so it waits for a transaction
\* that has moved the pointer and not ended.
IssueLease(t) ==
  /\ turn[t].phase = "checked"
  /\ \A w \in Writer : tx[w] # Nil => ~tx[w].moved
  /\ IF pointer = turn[t].release
     THEN /\ turn' = [turn EXCEPT ![t].phase = "leased"]
          /\ lease' = [lease EXCEPT ![t] =
                         [activation |-> pointer.target,
                          revision |-> pointer.revision,
                          expires |-> clock + LeaseTime]]
     ELSE Fail(t) /\ UNCHANGED lease
  /\ UNCHANGED <<history, pointer, outbox, tx, trust, clock>>

\* The API commits the answer only while the database clock is before the
\* receipt's expiry; the two databases' clocks are taken to agree.
Answer(t) ==
  /\ turn[t].phase = "leased"
  /\ IF clock < lease[t].expires
     THEN turn' = [turn EXCEPT ![t].phase = "answered"]
     ELSE Fail(t)
  /\ UNCHANGED <<history, pointer, outbox, tx, trust, lease, clock>>

Tick ==
  /\ clock < MaxClock
  /\ clock' = clock + 1
  /\ UNCHANGED <<history, pointer, outbox, tx, trust, turn, lease>>

Next ==
  \/ \E w \in Writer, e \in Events : Prepare(w, e)
  \/ \E w \in Writer : \/ InsertHistory(w) \/ MovePointer(w) \/ Publish(w)
                       \/ Commit(w) \/ Rollback(w)
  \/ \E a \in Activation : RevokeTrust(a)
  \/ \E t \in Turn : \/ ReadPointer(t) \/ Snapshot(t)
                     \/ AssertPointerFresh(t) \/ AssertTrustFresh(t)
                     \/ Resolved(t) \/ AssertCurrent(t)
                     \/ IssueLease(t) \/ Answer(t)
  \/ \E t \in Turn, a \in Activation : Verify(t, a)
  \/ Tick

Spec == Init /\ [][Next]_vars

-----------------------------------------------------------------------------
(* Properties.                                                             *)

\* The committed pointer, history and outbox never tell different stories:
\* the pointer is where the last event left it, no revision was skipped or
\* used twice, each event starts where the one before it ended, and each has
\* its outbox event (the triggers of migration 20260726_0011).
PointerFollowsHistory ==
  /\ pointer.revision = Len(history)
  /\ outbox = 1..Len(history)
  /\ \A i \in DOMAIN history :
       history[i].from = IF i = 1 THEN Safe ELSE history[i - 1].to
  /\ pointer.target = IF history = << >> THEN Safe
                      ELSE history[Len(history)].to

\* While a commit lease is live the pointer stays where the lease found it,
\* at the same revision, whoever tries to move it (migration 20260727_0015).
LeaseHoldsPointer ==
  \A t \in Turn :
    lease[t] # Nil /\ lease[t].expires > clock =>
      pointer = [target |-> lease[t].activation, revision |-> lease[t].revision]

\* An answered turn was resolved, run, resolved again and answered under one
\* revision of the pointer: when it is answered, the pointer is still exactly
\* where the turn's first read found it.
AnsweredUnderItsRelease ==
  [][\A t \in Turn :
       turn[t].phase # "answered" /\ turn'[t].phase = "answered" =>
         pointer = turn[t].release]_vars

\* Whatever activation is authoritative, the prior activation it pins can be
\* rolled back to: it was authoritative earlier and was superseded, so the
\* resolver never refuses the current release for its rollback target.
RollbackAlwaysReady == pointer.target # Safe => RollbackReady(pointer.target)

=============================================================================
