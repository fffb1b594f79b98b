--------------------------- MODULE KnowledgeRelease ---------------------------
(***************************************************************************)
(* Knowledge releases of one scope: candidates pinned to source revisions  *)
(* are materialized, evaluated, approved, given a barrier and activated,   *)
(* rolled back or withdrawn by operators working at the same time, while   *)
(* the source register changes and retrieval reads the active release in   *)
(* two transactions.  A command is read by the service (Begin), and        *)
(* committed by the repository in one transaction (the action named after  *)
(* it).  Capability, time window and compatibility checks can only refuse: *)
(* Refuse stands for all of them.                                          *)
(***************************************************************************)
EXTENDS Naturals, FiniteSets

CONSTANTS
  Release,      \* release identities of one scope
  Critical,     \* the releases of critical domains
  Source,       \* sources of the register; every release pins all of them
  Operator,     \* commands in flight at the same time
  Key,          \* idempotency keys
  Query,        \* retrievals in flight
  MaxVersion,   \* bound: versions of the pointer
  MaxRevision,  \* bound: revisions of a source
  Nil

VARIABLES
  release,  \* rows: status, version, pinned revisions, materialized sources
  pointer,  \* the scope's pointer row: active, candidate, barrier, version
  source,   \* current revision of each source; 0 once deletion is fenced
  command,  \* the command each operator has read the state for
  done,     \* committed transitions, with the pointer version they wrote
  query     \* what each retrieval has resolved and served

vars == <<release, pointer, source, command, done, query>>

Statuses ==
  {"none", "candidate", "evaluated", "ready", "active", "superseded",
   "tombstoned"}
Kinds == {"evaluate", "approve", "barrier", "activate", "rollback",
          "tombstone"}
Revisions == 0..MaxRevision
Versions == 0..MaxVersion
Pointers == [active : Release \cup {Nil}, candidate : Release \cup {Nil},
             barrier : {"clear", "syncing", "blocked"},
             generation : Versions, version : Versions]
Commands == [kind : Kinds, release : Release, key : Key,
             version : Nat, pointer : Versions, generation : Versions]
Transitions == [kind : Kinds, release : Release, key : Key, wrote : Versions]

TypeOK ==
  /\ release \in [Release -> [status : Statuses, version : Nat,
                              pins : [Source -> Revisions],
                              chunks : SUBSET Source]]
  /\ pointer \in Pointers
  /\ source \in [Source -> Revisions]
  /\ command \in [Operator -> Commands \cup {Nil}]
  /\ done \subseteq Transitions
  /\ query \in [Query -> [snapshot : Pointers \cup {Nil}, served : BOOLEAN]]

NoRelease == [status |-> "none", version |-> 0,
              pins |-> [s \in Source |-> 0], chunks |-> {}]

Init ==
  /\ release = [r \in Release |-> NoRelease]
  /\ pointer = [active |-> Nil, candidate |-> Nil, barrier |-> "clear",
                generation |-> 0, version |-> 0]
  /\ source = [s \in Source |-> 1]
  /\ command = [o \in Operator |-> Nil]
  /\ done = {}
  /\ query = [q \in Query |-> [snapshot |-> Nil, served |-> FALSE]]

-----------------------------------------------------------------------------
(* Sources and candidates.                                                 *)

\* The pinned snapshots are the register's current, eligible ones.
SourcesCurrent(r) ==
  \A s \in Source : source[s] # 0 /\ source[s] = release[r].pins[s]

\* A new revision replaces the source's row, or its deletion is fenced.
ChangeSource(s, revision) ==
  /\ source[s] # 0
  /\ revision \in {0, source[s] + 1} /\ revision <= MaxRevision
  /\ source' = [source EXCEPT ![s] = revision]
  /\ UNCHANGED <<release, pointer, command, done, query>>

\* The release's identity is its idempotency key: a second call finds it.
AddCandidate(r) ==
  /\ release[r].status = "none"
  /\ \A s \in Source : source[s] # 0
  /\ release' = [release EXCEPT
       ![r] = [status |-> "candidate", version |-> 1,
               pins |-> source, chunks |-> {}]]
  /\ UNCHANGED <<pointer, source, command, done, query>>

\* The chunks of one source enter a release once, while it is a candidate.
Materialize(r, s) ==
  /\ release[r].status = "candidate"
  /\ source[s] # 0 /\ source[s] = release[r].pins[s]
  /\ s \notin release[r].chunks
  /\ release' = [release EXCEPT ![r].chunks = @ \cup {s}]
  /\ UNCHANGED <<pointer, source, command, done, query>>

Materialized(r) == release[r].chunks = Source

-----------------------------------------------------------------------------
(* Commands.                                                               *)

Committed(kind, r, key) ==
  \E d \in done : d.kind = kind /\ d.release = r /\ d.key = key

\* The service looks for a replay, reads the release, revalidates its
\* sources, and passes on the pointer the operator has seen.
ServiceAdmits(kind, r) ==
  CASE kind = "evaluate"  -> release[r].status = "candidate"
    [] kind = "approve"   -> release[r].status = "evaluated" /\ SourcesCurrent(r)
    [] kind = "barrier"   -> release[r].status = "ready"
    [] kind = "activate"  -> SourcesCurrent(r)
    [] kind = "rollback"  -> release[r].status = "superseded"
    [] kind = "tombstone" -> release[r].status # "none"

\* The repository's call takes the expectations its transaction compares.
Moving == {"activate", "rollback", "tombstone"}

Begin(o, kind, r, key) ==
  /\ command[o] = Nil
  /\ ~Committed(kind, r, key) /\ ServiceAdmits(kind, r)
  /\ command' = [command EXCEPT
       ![o] = [kind |-> kind, release |-> r, key |-> key,
               version |-> IF kind = "rollback" THEN 0 ELSE release[r].version,
               pointer |-> IF kind \in Moving THEN pointer.version ELSE 0,
               generation |-> IF kind \in Moving THEN pointer.generation ELSE 0]]
  /\ UNCHANGED <<release, pointer, source, done, query>>

\* The advisory lock of the command and the second look for a replay.
Locked(o, kind) ==
  /\ command[o] # Nil /\ command[o].kind = kind
  /\ ~Committed(kind, command[o].release, command[o].key)

\* One of the transaction's checks fails, or the command is a replay.
Refuse(o) ==
  /\ command[o] # Nil
  /\ command' = [command EXCEPT ![o] = Nil]
  /\ UNCHANGED <<release, pointer, source, done, query>>

\* Every transition leaves an append-only event under the command's key.
AppendEvent(o, wrote) ==
  /\ done' = done \cup {[kind |-> command[o].kind,
                         release |-> command[o].release,
                         key |-> command[o].key, wrote |-> wrote]}
  /\ command' = [command EXCEPT ![o] = Nil]

Move(rel, r, status) ==
  [rel EXCEPT ![r].status = status, ![r].version = @ + 1]

AllowedTransitions(status) ==
  CASE status = "candidate"  -> {"evaluated", "tombstoned"}
    [] status = "evaluated"  -> {"ready", "tombstoned"}
    [] status = "ready"      -> {"active", "tombstoned"}
    [] status = "active"     -> {"superseded"}
    [] status = "superseded" -> {"active", "tombstoned"}
    [] OTHER                 -> {}

SaveTransition(o, kind, status) ==
  /\ Locked(o, kind)
  /\ LET r == command[o].release IN
     /\ release[r].version = command[o].version
     /\ status \in AllowedTransitions(release[r].status)
     /\ status = "ready" => SourcesCurrent(r)
     /\ release' = Move(release, r, status)
  /\ AppendEvent(o, 0)
  /\ UNCHANGED <<pointer, source, query>>

RecordEvaluation(o) == SaveTransition(o, "evaluate", "evaluated")
Approve(o) == SaveTransition(o, "approve", "ready")

OpenBarrier(o) ==
  /\ Locked(o, "barrier") /\ pointer.version < MaxVersion
  /\ LET r == command[o].release IN
     /\ release[r].status = "ready" /\ release[r].version = command[o].version
     /\ pointer.candidate \in {Nil, r} \/ pointer.barrier = "clear"
     /\ SourcesCurrent(r)
     /\ pointer' = [pointer EXCEPT
          !.candidate = r,
          !.barrier = IF r \in Critical THEN "syncing" ELSE "clear",
          !.generation = @ + 1, !.version = @ + 1]
     /\ release' = [release EXCEPT ![r].version = @ + 1]
  /\ AppendEvent(o, pointer.version + 1)
  /\ UNCHANGED <<source, query>>

\* Fault: the release that is replaced stays active.
SupersedeNothing(rel) == rel

\* The active release becomes superseded in the transaction that moves on.
Supersede(rel) ==
  IF pointer.active = Nil THEN rel ELSE Move(rel, pointer.active, "superseded")

Activate(o) ==
  /\ Locked(o, "activate") /\ pointer.version < MaxVersion
  /\ LET r == command[o].release IN
     /\ release[r].status = "ready" /\ release[r].version = command[o].version
     /\ Materialized(r)
     /\ pointer.version = command[o].pointer
     /\ pointer.generation = command[o].generation
     /\ pointer.candidate = r
     /\ pointer.barrier = IF r \in Critical THEN "syncing" ELSE "clear"
     /\ SourcesCurrent(r)
     /\ release' = Move(Supersede(release), r, "active")
     /\ pointer' = [pointer EXCEPT !.active = r, !.candidate = Nil,
                                   !.barrier = "clear", !.version = @ + 1]
  /\ AppendEvent(o, pointer.version + 1)
  /\ UNCHANGED <<source, query>>

RollBack(o) ==
  /\ Locked(o, "rollback") /\ pointer.version < MaxVersion
  /\ LET r == command[o].release IN
     /\ pointer.version = command[o].pointer
     /\ pointer.barrier = "clear" /\ pointer.candidate = Nil
     /\ pointer.generation = command[o].generation
     /\ release[r].status = "superseded" /\ Materialized(r)
     /\ pointer.active \notin {Nil, r}
     /\ SourcesCurrent(r)
     /\ release' = Move(Supersede(release), r, "active")
     /\ pointer' = [pointer EXCEPT !.active = r, !.version = @ + 1]
  /\ AppendEvent(o, pointer.version + 1)
  /\ UNCHANGED <<source, query>>

\* Fault: the active release does not count as referenced.
ReferencedAsCandidate(r) == r = pointer.candidate
Referenced(r) == r \in {pointer.active, pointer.candidate}

\* Withdrawing a release the pointer names blocks the scope as well.
Tombstone(o) ==
  /\ Locked(o, "tombstone")
  /\ LET r == command[o].release IN
     /\ release[r].version = command[o].version
     /\ release[r].status # "tombstoned"
     /\ Referenced(r) => /\ pointer.version = command[o].pointer
                         /\ pointer.version < MaxVersion
     /\ release' = Move(release, r, "tombstoned")
     /\ IF Referenced(r)
        THEN /\ pointer' = [active |-> IF pointer.active = r THEN Nil
                                       ELSE pointer.active,
                            candidate |-> Nil, barrier |-> "blocked",
                            generation |-> pointer.generation + 1,
                            version |-> pointer.version + 1]
             /\ AppendEvent(o, pointer.version + 1)
        ELSE UNCHANGED pointer /\ AppendEvent(o, 0)
  /\ UNCHANGED <<source, query>>

-----------------------------------------------------------------------------
(* Retrieval: one transaction resolves the snapshot, a second one searches *)
(* it, comparing the pointer's version, generation and barrier.            *)

ResolveSnapshot(q) ==
  /\ query[q].snapshot = Nil /\ ~query[q].served
  /\ pointer.barrier = "clear" /\ pointer.active # Nil
  /\ release[pointer.active].status = "active" /\ Materialized(pointer.active)
  /\ query' = [query EXCEPT ![q].snapshot = pointer]
  /\ UNCHANGED <<release, pointer, source, command, done>>

\* Fault: only the release is compared, neither version nor generation.
SearchableByRelease(snapshot) ==
  pointer.active = snapshot.active /\ pointer.barrier = "clear"

Searchable(snapshot) ==
  /\ pointer.active = snapshot.active
  /\ release[snapshot.active].status = "active"
  /\ pointer.version = snapshot.version
  /\ pointer.generation = snapshot.generation
  /\ pointer.barrier = "clear"
  /\ \E s \in Source : /\ source[s] # 0
                       /\ source[s] = release[snapshot.active].pins[s]

Search(q) ==
  /\ query[q].snapshot # Nil
  /\ query' = [query EXCEPT
       ![q] = [snapshot |-> Nil, served |-> Searchable(query[q].snapshot)]]
  /\ UNCHANGED <<release, pointer, source, command, done>>

Next ==
  \/ \E s \in Source, n \in 0..MaxRevision : ChangeSource(s, n)
  \/ \E r \in Release : AddCandidate(r)
  \/ \E r \in Release, s \in Source : Materialize(r, s)
  \/ \E o \in Operator, kind \in Kinds, r \in Release, key \in Key :
       Begin(o, kind, r, key)
  \/ \E o \in Operator :
       \/ RecordEvaluation(o) \/ Approve(o) \/ OpenBarrier(o)
       \/ Activate(o) \/ RollBack(o) \/ Tombstone(o) \/ Refuse(o)
  \/ \E q \in Query : ResolveSnapshot(q) \/ Search(q)

Spec == Init /\ [][Next]_vars

-----------------------------------------------------------------------------
(* Properties.                                                             *)

\* The pointer and the releases' own status agree: the active release is the
\* one the pointer names and there is never a second one, the candidate with
\* the barrier is still ready (activate_atomic, rollback_atomic,
\* tombstone_atomic each write both).
PointerNamesActive ==
  /\ \A r \in Release : release[r].status = "active" <=> pointer.active = r
  /\ pointer.candidate # Nil => release[pointer.candidate].status = "ready"

\* While a critical candidate holds the barrier, nothing that other operators
\* commit makes the scope readable again except the activation of that very
\* candidate (docs/knowledge-release.md:118-119).
CriticalBarrierKept ==
  [][pointer.barrier = "syncing" /\ pointer'.barrier = "clear" =>
       pointer'.active = pointer.candidate]_vars

\* Every version of the pointer was written by exactly one committed command
\* and no command took effect twice, however often it was submitted.
TransitionsExplainPointer ==
  /\ \A n \in 1..pointer.version : Cardinality({d \in done : d.wrote = n}) = 1
  /\ \A d, e \in done :
       d.kind = e.kind /\ d.release = e.release /\ d.key = e.key => d = e

\* Evidence is served only while the pointer is, field by field, the one the
\* snapshot was resolved under, with no barrier over the scope.
EvidenceUnderOnePointer ==
  [][\A q \in Query :
       query'[q].served /\ ~query[q].served =>
         pointer = query[q].snapshot]_vars

=============================================================================
