---------------------------- MODULE ReleaseProofs ----------------------------
(***************************************************************************)
(* Theorems about the workflows of MCReleaseWorkflows: the two release     *)
(* planes, which both implement ActiveRelease, the ledger of cloud         *)
(* extractions, and those that keep artifacts in stores: the intake of     *)
(* datasets, the local corpus and the ingestion of knowledge.  Each part   *)
(* has the names of its rows and its invariant, a lemma for each of its    *)
(* steps and its theorems; the last part is about the workflows together.  *)
(***************************************************************************)
EXTENDS MCReleaseWorkflows, SequenceTheorems, FiniteSetTheorems, TLAPS

-----------------------------------------------------------------------------
(* Knowledge releases.                                                     *)

\* The rows of the knowledge plane, under names of their own.
KnowledgeRow ==
  [status : Knowledge!Statuses, version : Nat, pins : [Source -> Knowledge!Revisions],
   chunks : SUBSET Source]
KnowledgeRows == [Candidate -> KnowledgeRow]
Resolved == [snapshot : Knowledge!Pointers \cup {Nil}, served : BOOLEAN]
KnowledgeTypes ==
  /\ release \in KnowledgeRows /\ pointer \in Knowledge!Pointers
  /\ source \in [Source -> Knowledge!Revisions]
  /\ command \in [Actor -> Knowledge!Commands \cup {Nil}]
  /\ done \subseteq Knowledge!Transitions
  /\ query \in [Retrieval -> Resolved]

\* Every barrier is a version of the pointer, and a critical one is up only for the
\* candidate the pointer names.
BarrierInv ==
  /\ pointer.generation <= pointer.version
  /\ pointer.barrier = "syncing" => pointer.candidate \in Critical \ {Nil}
\* No event is of a version to come, and each version has the event that wrote it.
HistoryInv ==
  /\ \A d \in done : d.wrote <= pointer.version
  /\ \A n \in 1..pointer.version : Cardinality({d \in done : d.wrote = n}) = 1
  /\ \A d, e \in done : d.kind = e.kind /\ d.release = e.release /\ d.key = e.key => d = e
\* What a retrieval resolved is the pointer, as long as its version stands.
SnapshotInv ==
  \A q \in Retrieval : query[q].snapshot # Nil =>
    /\ query[q].snapshot.version <= pointer.version
    /\ query[q].snapshot.version = pointer.version => query[q].snapshot = pointer
KnowledgeInv ==
  /\ KnowledgeTypes /\ Knowledge!PointerNamesActive /\ BarrierInv /\ HistoryInv
  /\ SnapshotInv

\* The types are those of the component.
LEMMA KnowledgeTyped == KnowledgeTypes <=> Knowledge!TypeOK
BY DEF KnowledgeTypes, Knowledge!TypeOK, KnowledgeRows, KnowledgeRow, Resolved

\* The components count as this module does.
LEMMA Counting ==
  /\ \A S : Knowledge!Cardinality(S) = Cardinality(S)
  /\ \A S : Product!Cardinality(S) = Cardinality(S)
BY DEF Cardinality, Knowledge!Cardinality, Product!Cardinality

\* The history explains the pointer.
LEMMA HistoryExplains == HistoryInv => Knowledge!TransitionsExplainPointer
BY Counting, Zenon DEF HistoryInv, Knowledge!TransitionsExplainPointer

\* What the pointer row holds.
LEMMA PointerFields ==
  ASSUME NEW p \in Knowledge!Pointers
  PROVE  /\ p.active \in Candidate \cup {Nil} /\ p.candidate \in Candidate \cup {Nil}
         /\ p.barrier \in {"clear", "syncing", "blocked"}
         /\ p.generation \in Nat /\ p.version \in Nat
         /\ p.generation <= MaxPointer /\ p.version <= MaxPointer
BY ReleasesAssumption DEF Knowledge!Pointers, Knowledge!Versions

\* A release that moves changes its own status and version and no other row.
LEMMA MoveMoves ==
  ASSUME NEW rel \in KnowledgeRows, NEW r \in Candidate, NEW status \in Knowledge!Statuses
  PROVE  /\ Knowledge!Move(rel, r, status) \in KnowledgeRows
         /\ Knowledge!Move(rel, r, status)[r].status = status
         /\ \A q \in Candidate \ {r} : Knowledge!Move(rel, r, status)[q] = rel[q]
<1> DEFINE marked == [rel[r] EXCEPT !.status = status]
           row == [marked EXCEPT !.version = rel[r].version + 1]
           moved == Knowledge!Move(rel, r, status)
<1>1. rel[r] \in KnowledgeRow
  BY DEF KnowledgeRows
<1>2. marked \in KnowledgeRow /\ marked.status = status /\ marked.version = rel[r].version
  BY <1>1 DEF KnowledgeRow
<1> HIDE DEF marked
<1>a. rel[r].version + 1 \in Nat
  BY <1>1 DEF KnowledgeRow
<1>3. row \in KnowledgeRow /\ row.status = status
  BY <1>2, <1>a DEF KnowledgeRow
<1> USE DEF marked
<1>4. moved = [[rel EXCEPT ![r] = marked] EXCEPT ![r] =
                 [[rel EXCEPT ![r] = marked][r] EXCEPT !.version = [rel EXCEPT ![r] = marked][r].version + 1]]
  BY DEF Knowledge!Move
<1>5. [rel EXCEPT ![r] = marked][r] = marked
  BY DEF KnowledgeRows
<1> HIDE DEF marked
<1>6. moved = [[rel EXCEPT ![r] = marked] EXCEPT ![r] = row]
  BY <1>2, <1>4, <1>5
<1> HIDE DEF row, moved
<1>7. moved \in KnowledgeRows /\ moved[r] = row /\ \A q \in Candidate \ {r} : moved[q] = rel[q]
  BY <1>2, <1>3, <1>6 DEF KnowledgeRows
<1> QED BY <1>3, <1>7 DEF moved

\* The release the pointer names steps aside.
LEMMA SupersedeMoves ==
  ASSUME KnowledgeTypes
  PROVE  /\ Knowledge!Supersede(release) \in KnowledgeRows
         /\ pointer.active # Nil => Knowledge!Supersede(release)[pointer.active].status = "superseded"
         /\ \A q \in Candidate \ {pointer.active} : Knowledge!Supersede(release)[q] = release[q]
<1>1. pointer.active \in Candidate \cup {Nil} /\ release \in KnowledgeRows
  BY PointerFields DEF KnowledgeTypes
<1>2. CASE pointer.active = Nil
  BY <1>1, <1>2 DEF Knowledge!Supersede
<1>3. CASE pointer.active # Nil
  <2>1. Knowledge!Supersede(release) = Knowledge!Move(release, pointer.active, "superseded")
    BY <1>3 DEF Knowledge!Supersede
  <2>2. "superseded" \in Knowledge!Statuses
    BY DEF Knowledge!Statuses
  <2> QED BY <1>1, <1>3, <2>1, <2>2, MoveMoves
<1> QED BY <1>2, <1>3

-----------------------------------------------------------------------------
(* What a committed command does, besides moving releases.                 *)

\* The command of o leaves an event that says it wrote a version, or none.
Records(o, wrote) ==
  Knowledge!AppendEvent(o, wrote)
    /\ command[o] # Nil /\ ~Knowledge!Committed(command[o].kind, command[o].release, command[o].key)

\* A command that locked its row and leaves an event is the first of its kind and key.
LEMMA LockedRecords ==
  ASSUME NEW o \in Actor, NEW kind, NEW wrote, Knowledge!Locked(o, kind),
         Knowledge!AppendEvent(o, wrote)
  PROVE  Records(o, wrote)
BY DEF Knowledge!Locked, Records

\* A command in flight names a release.
LEMMA CommandFields ==
  ASSUME KnowledgeTypes, NEW o \in Actor, command[o] # Nil
  PROVE  /\ command[o] \in Knowledge!Commands
         /\ command[o].kind \in Knowledge!Kinds /\ command[o].release \in Candidate
         /\ command[o].key \in Command
BY DEF KnowledgeTypes, Knowledge!Commands

\* The event is one more of its kind, and the only one of its command.
LEMMA OneMoreEvent ==
  ASSUME KnowledgeTypes, NEW o \in Actor, NEW wrote \in Knowledge!Versions, Records(o, wrote)
  PROVE  /\ command' \in [Actor -> Knowledge!Commands \cup {Nil}]
         /\ done' \subseteq Knowledge!Transitions
         /\ \E d : /\ done' = done \cup {d} /\ d.wrote = wrote
                   /\ \A e \in done : ~(d.kind = e.kind /\ d.release = e.release /\ d.key = e.key)
<1> DEFINE d == [kind |-> command[o].kind, release |-> command[o].release,
                 key |-> command[o].key, wrote |-> wrote]
<1>1. done' = done \cup {d} /\ command' = [command EXCEPT ![o] = Nil] /\ command[o] # Nil
  BY DEF Records, Knowledge!AppendEvent
<1>2. d \in Knowledge!Transitions
  BY <1>1, CommandFields DEF Knowledge!Transitions
<1>3. \A e \in done : ~(d.kind = e.kind /\ d.release = e.release /\ d.key = e.key)
  BY DEF Records, Knowledge!Committed
<1>4. d.wrote = wrote
  OBVIOUS
<1> HIDE DEF d
<1> QED BY <1>1, <1>2, <1>3, <1>4 DEF KnowledgeTypes

\* An event that wrote no version keeps the history of the versions.
LEMMA HistoryGrows ==
  ASSUME KnowledgeTypes, HistoryInv, NEW o \in Actor, Records(o, 0), pointer' = pointer
  PROVE  HistoryInv'
<1>0. pointer.version \in Nat /\ 0 \in Knowledge!Versions
  BY PointerFields, ReleasesAssumption DEF KnowledgeTypes, Knowledge!Versions
<1>1. PICK d : /\ done' = done \cup {d} /\ d.wrote = 0
               /\ \A e \in done : ~(d.kind = e.kind /\ d.release = e.release /\ d.key = e.key)
  BY <1>0, OneMoreEvent
<1>2. \A e \in done' : e.wrote <= pointer'.version
  BY <1>0, <1>1 DEF HistoryInv
<1>3. ASSUME NEW n \in 1..pointer'.version PROVE Cardinality({e \in done' : e.wrote = n}) = 1
  <2>0. n \in 1..pointer.version /\ n # 0
    BY <1>0, <1>3
  <2>1. {e \in done' : e.wrote = n} = {e \in done : e.wrote = n}
    BY <1>1, <2>0
  <2>2. Cardinality({e \in done : e.wrote = n}) = 1
    BY <2>0 DEF HistoryInv
  <2> QED BY <2>1, <2>2, Zenon
<1>4. \A e, f \in done' : e.kind = f.kind /\ e.release = f.release /\ e.key = f.key => e = f
  BY <1>1 DEF HistoryInv
<1> QED BY <1>2, <1>3, <1>4 DEF HistoryInv

\* An event that wrote the next version is that version's only one.
LEMMA HistoryAdvances ==
  ASSUME KnowledgeTypes, HistoryInv, NEW o \in Actor, Records(o, pointer.version + 1),
         pointer'.version = pointer.version + 1, pointer.version < MaxPointer
  PROVE  HistoryInv'
<1>0. pointer.version \in Nat /\ pointer.version + 1 \in Knowledge!Versions
  BY PointerFields, ReleasesAssumption DEF KnowledgeTypes, Knowledge!Versions
<1>1. PICK d : /\ done' = done \cup {d} /\ d.wrote = pointer.version + 1
               /\ \A e \in done : ~(d.kind = e.kind /\ d.release = e.release /\ d.key = e.key)
  BY <1>0, OneMoreEvent
<1>a. \A e \in done : e.wrote <= pointer.version /\ e.wrote \in Nat
  BY DEF HistoryInv, KnowledgeTypes, Knowledge!Transitions, Knowledge!Versions
<1>2. \A e \in done' : e.wrote <= pointer'.version
  BY <1>0, <1>1, <1>a
<1>3. ASSUME NEW n \in 1..pointer'.version PROVE Cardinality({e \in done' : e.wrote = n}) = 1
  <2>1. CASE n = pointer.version + 1
    <3>1. {e \in done' : e.wrote = n} = {d}
      BY <1>0, <1>1, <1>a, <2>1
    <3>2. Cardinality({d}) = 1
      BY FS_Singleton
    <3> QED BY <3>1, <3>2, Zenon
  <2>2. CASE n # pointer.version + 1
    <3>1. {e \in done' : e.wrote = n} = {e \in done : e.wrote = n}
      BY <1>0, <1>1, <2>2
    <3>2. n \in 1..pointer.version
      BY <1>0, <1>3, <2>2
    <3>3. Cardinality({e \in done : e.wrote = n}) = 1
      BY <3>2 DEF HistoryInv
    <3> QED BY <3>1, <3>3, Zenon
  <2> QED BY <2>1, <2>2
<1>4. \A e, f \in done' : e.kind = f.kind /\ e.release = f.release /\ e.key = f.key => e = f
  BY <1>1 DEF HistoryInv
<1> QED BY <1>2, <1>3, <1>4 DEF HistoryInv

\* A new version of the pointer leaves every snapshot behind.
LEMMA SnapshotsAge ==
  ASSUME KnowledgeTypes, SnapshotInv, query' = query, pointer'.version = pointer.version + 1
  PROVE  SnapshotInv'
<1>1. pointer.version \in Nat
  BY PointerFields DEF KnowledgeTypes
<1>2. ASSUME NEW q \in Retrieval, query[q].snapshot # Nil
      PROVE  query[q].snapshot.version < pointer'.version /\ query[q].snapshot.version \in Nat
  <2>1. query[q].snapshot \in Knowledge!Pointers
    BY <1>2 DEF KnowledgeTypes, Resolved
  <2>2. query[q].snapshot.version \in Nat
    BY <2>1, PointerFields
  <2> QED BY <1>1, <1>2, <2>2 DEF SnapshotInv
<1> QED BY <1>1, <1>2 DEF SnapshotInv

-----------------------------------------------------------------------------
(* The release plane.                                                      *)

\* Which releases the plane counts as ready, and which as gone.
Ready == {r \in Candidate : release[r].status \in {"ready", "active", "superseded"}}
Gone == {r \in Candidate : release[r].status = "tombstoned"}
PlaneStep == [KnowledgePlane!Next]_(KnowledgePlane!vars)

Prepares(r) ==
  r \notin Ready \cup Gone /\ Ready' = Ready \cup {r} /\ Gone' = Gone /\ pointer'.active = pointer.active
Publishes(r) ==
  r \in Ready \ {pointer.active} /\ Ready' = Ready /\ Gone' = Gone /\ pointer'.active = r
Withdraws(r) ==
  /\ r \notin Gone /\ Ready' = Ready \ {r} /\ Gone' = Gone \cup {r}
  /\ pointer'.active = IF pointer.active = r THEN Nil ELSE pointer.active

\* A release made ready, published or withdrawn is a step of the plane.
LEMMA PlaneMoves ==
  ASSUME NEW r \in Candidate, Prepares(r) \/ Publishes(r) \/ Withdraws(r)
  PROVE  PlaneStep
<1>1. CASE Prepares(r)
  BY <1>1 DEF PlaneStep, Prepares, Ready, Gone, KnowledgePlane!Next, KnowledgePlane!vars, KnowledgePlane!Prepare
<1>2. CASE Publishes(r)
  BY <1>2 DEF PlaneStep, Publishes, Ready, Gone, KnowledgePlane!Next, KnowledgePlane!vars, KnowledgePlane!Publish
<1>3. CASE Withdraws(r)
  BY <1>3 DEF PlaneStep, Withdraws, Ready, Gone, KnowledgePlane!Next, KnowledgePlane!vars, KnowledgePlane!Withdraw
<1> QED BY <1>1, <1>2, <1>3

\* Anything else leaves it as it is.
LEMMA PlaneStays ==
  ASSUME Ready' = Ready, Gone' = Gone, pointer'.active = pointer.active
  PROVE  PlaneStep
BY DEF PlaneStep, Ready, Gone, KnowledgePlane!vars

-----------------------------------------------------------------------------
(* Every step keeps the invariant and is a step of the plane.              *)

KnowledgeKept == KnowledgeInv' /\ PlaneStep

\* Steps that move no release: what they read and remember is theirs.
LEMMA QuietKeeps ==
  ASSUME KnowledgeInv, release' \in KnowledgeRows, pointer' = pointer, done' = done, query' = query,
         source' \in [Source -> Knowledge!Revisions],
         command' \in [Actor -> Knowledge!Commands \cup {Nil}],
         \A r \in Candidate :
           \/ release'[r].status = release[r].status
           \/ release[r].status = "none" /\ release'[r].status = "candidate"
  PROVE  KnowledgeKept
<1>1. KnowledgeTypes' /\ BarrierInv' /\ HistoryInv' /\ SnapshotInv'
  BY DEF KnowledgeInv, KnowledgeTypes, BarrierInv, HistoryInv, SnapshotInv
<1>2. Knowledge!PointerNamesActive'
  <2>1. pointer.candidate \in Candidate \cup {Nil}
    BY PointerFields DEF KnowledgeInv, KnowledgeTypes
  <2> QED BY <2>1 DEF KnowledgeInv, Knowledge!PointerNamesActive
<1>3. Ready' = Ready /\ Gone' = Gone
  BY DEF Ready, Gone
<1> QED BY <1>1, <1>2, <1>3, PlaneStays DEF KnowledgeKept, KnowledgeInv

\* The register moves on.
LEMMA ChangeSourceKeeps ==
  ASSUME KnowledgeInv, NEW s \in Source, NEW n \in 0..MaxSource, Knowledge!ChangeSource(s, n)
  PROVE  KnowledgeKept
<1>1. source' \in [Source -> Knowledge!Revisions]
  BY DEF Knowledge!ChangeSource, Knowledge!Revisions, KnowledgeInv, KnowledgeTypes
<1> QED BY <1>1, QuietKeeps DEF Knowledge!ChangeSource, KnowledgeInv, KnowledgeTypes

\* A new candidate is no release yet.
LEMMA AddCandidateKeeps ==
  ASSUME KnowledgeInv, NEW r \in Candidate, Knowledge!AddCandidate(r)
  PROVE  KnowledgeKept
<1> DEFINE row == [status |-> "candidate", version |-> 1, pins |-> source, chunks |-> {}]
<1>1. row \in KnowledgeRow /\ row.status = "candidate"
  BY DEF KnowledgeInv, KnowledgeTypes, KnowledgeRow, Knowledge!Statuses
<1>2. release' = [release EXCEPT ![r] = row] /\ release[r].status = "none"
      /\ UNCHANGED <<pointer, source, command, done, query>>
  BY DEF Knowledge!AddCandidate
<1> HIDE DEF row
<1>3. release' \in KnowledgeRows /\ \A q \in Candidate : release'[q] = IF q = r THEN row ELSE release[q]
  BY <1>1, <1>2 DEF KnowledgeInv, KnowledgeTypes, KnowledgeRows
<1> QED BY <1>1, <1>2, <1>3, QuietKeeps DEF KnowledgeInv, KnowledgeTypes

\* The chunks of a source enter a candidate.
LEMMA MaterializeKeeps ==
  ASSUME KnowledgeInv, NEW r \in Candidate, NEW s \in Source, Knowledge!Materialize(r, s)
  PROVE  KnowledgeKept
<1> DEFINE row == [release[r] EXCEPT !.chunks = release[r].chunks \cup {s}]
<1>0. release[r] \in KnowledgeRow
  BY DEF KnowledgeInv, KnowledgeTypes, KnowledgeRows
<1>1. row \in KnowledgeRow /\ row.status = release[r].status
  BY <1>0 DEF KnowledgeRow
<1>2. release' = [release EXCEPT ![r] = row]
      /\ UNCHANGED <<pointer, source, command, done, query>>
  BY DEF Knowledge!Materialize
<1> HIDE DEF row
<1>3. release' \in KnowledgeRows /\ \A q \in Candidate : release'[q] = IF q = r THEN row ELSE release[q]
  BY <1>1, <1>2 DEF KnowledgeInv, KnowledgeTypes, KnowledgeRows
<1> QED BY <1>1, <1>2, <1>3, QuietKeeps DEF KnowledgeInv, KnowledgeTypes

\* An operator reads the state for a command, or gives one up.
LEMMA BeginKeeps ==
  ASSUME KnowledgeInv, NEW o \in Actor, NEW kind \in Knowledge!Kinds, NEW r \in Candidate,
         NEW key \in Command, Knowledge!Begin(o, kind, r, key)
  PROVE  KnowledgeKept
<1> DEFINE new == [kind |-> kind, release |-> r, key |-> key,
                   version |-> IF kind = "rollback" THEN 0 ELSE release[r].version,
                   pointer |-> IF kind \in Knowledge!Moving THEN pointer.version ELSE 0,
                   generation |-> IF kind \in Knowledge!Moving THEN pointer.generation ELSE 0]
<1>1. release[r].version \in Nat
  BY DEF KnowledgeInv, KnowledgeTypes, KnowledgeRows, KnowledgeRow
<1>2. pointer.version \in Knowledge!Versions /\ pointer.generation \in Knowledge!Versions
      /\ 0 \in Knowledge!Versions
  BY ReleasesAssumption DEF KnowledgeInv, KnowledgeTypes, Knowledge!Pointers, Knowledge!Versions
<1>3. new \in Knowledge!Commands
  BY <1>1, <1>2 DEF Knowledge!Commands
<1>4. command' = [command EXCEPT ![o] = new] /\ UNCHANGED <<release, pointer, source, done, query>>
  BY DEF Knowledge!Begin
<1> HIDE DEF new
<1>5. command' \in [Actor -> Knowledge!Commands \cup {Nil}]
  BY <1>3, <1>4 DEF KnowledgeInv, KnowledgeTypes
<1> QED BY <1>4, <1>5, QuietKeeps DEF KnowledgeInv, KnowledgeTypes

\* A command that is refused leaves everything but itself as it was.
LEMMA RefuseKeeps ==
  ASSUME KnowledgeInv, NEW o \in Actor, Knowledge!Refuse(o)
  PROVE  KnowledgeKept
<1>1. command' \in [Actor -> Knowledge!Commands \cup {Nil}]
  BY DEF Knowledge!Refuse, KnowledgeInv, KnowledgeTypes
<1> QED BY <1>1, QuietKeeps DEF Knowledge!Refuse, KnowledgeInv, KnowledgeTypes

\* A retrieval resolves the pointer as it is, or lets go of what it resolved.
LEMMA RetrievalKeeps ==
  ASSUME KnowledgeInv, NEW q \in Retrieval, Knowledge!ResolveSnapshot(q) \/ Knowledge!Search(q)
  PROVE  KnowledgeKept
<1>1. PICK next \in Resolved : /\ query' = [query EXCEPT ![q] = next]
                               /\ next.snapshot \in {pointer, Nil}
  <2>1. query[q] \in Resolved /\ pointer \in Knowledge!Pointers
    BY DEF KnowledgeInv, KnowledgeTypes
  <2>2. CASE Knowledge!ResolveSnapshot(q)
    <3> DEFINE next == [query[q] EXCEPT !.snapshot = pointer]
    <3>1. next \in Resolved /\ next.snapshot = pointer /\ query' = [query EXCEPT ![q] = next]
      BY <2>1, <2>2 DEF Knowledge!ResolveSnapshot, Resolved
    <3> QED BY <3>1
  <2>3. CASE Knowledge!Search(q)
    <3> DEFINE next == [snapshot |-> Nil, served |-> Knowledge!Searchable(query[q].snapshot)]
    <3>1. Knowledge!Searchable(query[q].snapshot) \in BOOLEAN
      BY Zenon DEF Knowledge!Searchable
    <3>2. next \in Resolved /\ next.snapshot = Nil
      BY <3>1 DEF Resolved
    <3>3. query' = [query EXCEPT ![q] = next]
      BY <2>3 DEF Knowledge!Search
    <3> QED BY <3>2, <3>3
  <2> QED BY <2>2, <2>3
<1>2. UNCHANGED <<release, pointer, source, command, done>>
  BY DEF Knowledge!ResolveSnapshot, Knowledge!Search
<1>3. query' \in [Retrieval -> Resolved] /\ \A p \in Retrieval : query'[p] = IF p = q THEN next ELSE query[p]
  BY <1>1 DEF KnowledgeInv, KnowledgeTypes
<1>4. pointer.version \in Nat
  BY PointerFields DEF KnowledgeInv, KnowledgeTypes
<1>5. SnapshotInv'
  BY <1>1, <1>2, <1>3, <1>4 DEF KnowledgeInv, SnapshotInv
<1>6. KnowledgeTypes' /\ BarrierInv' /\ HistoryInv' /\ Knowledge!PointerNamesActive'
  BY <1>2, <1>3 DEF KnowledgeInv, KnowledgeTypes, BarrierInv, HistoryInv, Knowledge!PointerNamesActive
<1>7. PlaneStep
  BY <1>2, PlaneStays DEF Ready, Gone
<1> QED BY <1>5, <1>6, <1>7 DEF KnowledgeKept, KnowledgeInv

\* A release is evaluated or approved; only the approval makes it ready.
LEMMA SaveKeeps ==
  ASSUME KnowledgeInv, NEW o \in Actor,
         Knowledge!RecordEvaluation(o) \/ Knowledge!Approve(o)
  PROVE  KnowledgeKept
<1>0. KnowledgeTypes /\ HistoryInv
  BY DEF KnowledgeInv
<1>1. PICK kind \in Knowledge!Kinds, status \in {"evaluated", "ready"} :
        Knowledge!SaveTransition(o, kind, status)
  BY DEF Knowledge!RecordEvaluation, Knowledge!Approve, Knowledge!Kinds
<1> DEFINE r == command[o].release
<1>2. Records(o, 0) /\ UNCHANGED <<pointer, source, query>>
  BY <1>1, LockedRecords DEF Knowledge!SaveTransition
<1>3. r \in Candidate
  BY <1>0, <1>2, CommandFields DEF Records
<1>4. release' = Knowledge!Move(release, r, status)
      /\ status \in Knowledge!AllowedTransitions(release[r].status)
  BY <1>1 DEF Knowledge!SaveTransition
<1>5. release[r].status \in {"candidate", "evaluated"}
      /\ (status = "ready" => release[r].status = "evaluated")
  BY <1>4 DEF Knowledge!AllowedTransitions
<1>6. status \in Knowledge!Statuses
  BY DEF Knowledge!Statuses
<1> HIDE DEF r
<1>7. /\ release' \in KnowledgeRows /\ release'[r].status = status
      /\ \A q \in Candidate \ {r} : release'[q] = release[q]
  BY <1>0, <1>3, <1>4, <1>6, MoveMoves DEF KnowledgeTypes
<1>8. /\ command' \in [Actor -> Knowledge!Commands \cup {Nil}]
      /\ done' \subseteq Knowledge!Transitions
  BY <1>0, <1>2, OneMoreEvent, ReleasesAssumption DEF Knowledge!Versions
<1>9. KnowledgeTypes' /\ BarrierInv' /\ SnapshotInv'
  BY <1>0, <1>2, <1>7, <1>8 DEF KnowledgeInv, KnowledgeTypes, BarrierInv, SnapshotInv
<1>10. HistoryInv'
  BY <1>0, <1>2, HistoryGrows
<1>11. Knowledge!PointerNamesActive'
  <2>1. pointer.candidate \in Candidate \cup {Nil}
    BY <1>0, PointerFields DEF KnowledgeTypes
  <2>2. pointer.candidate # r
    BY <1>3, <1>5, ReleasesAssumption DEF KnowledgeInv, Knowledge!PointerNamesActive
  <2> QED BY <1>2, <1>3, <1>5, <1>7, <2>1, <2>2 DEF KnowledgeInv, Knowledge!PointerNamesActive
<1>12. PlaneStep
  <2>1. CASE status = "ready"
    <3>1. Prepares(r)
      BY <1>2, <1>3, <1>5, <1>7, <2>1 DEF Prepares, Ready, Gone
    <3> QED BY <1>3, <3>1, PlaneMoves
  <2>2. CASE status = "evaluated"
    <3>1. Ready' = Ready /\ Gone' = Gone
      BY <1>3, <1>5, <1>7, <2>2 DEF Ready, Gone
    <3> QED BY <1>2, <3>1, PlaneStays
  <2> QED BY <2>1, <2>2
<1> QED BY <1>9, <1>10, <1>11, <1>12 DEF KnowledgeKept, KnowledgeInv

\* A barrier is a version of the pointer, and moves no release.
LEMMA OpenBarrierKeeps ==
  ASSUME KnowledgeInv, NEW o \in Actor, Knowledge!OpenBarrier(o)
  PROVE  KnowledgeKept
<1>0. KnowledgeTypes /\ HistoryInv /\ SnapshotInv /\ BarrierInv
  BY DEF KnowledgeInv
<1> DEFINE r == command[o].release
           row == [release[r] EXCEPT !.version = release[r].version + 1]
           next == [active |-> pointer.active, candidate |-> r,
                    barrier |-> IF r \in Critical THEN "syncing" ELSE "clear",
                    generation |-> pointer.generation + 1, version |-> pointer.version + 1]
<1>1. Records(o, pointer.version + 1) /\ pointer.version < MaxPointer /\ UNCHANGED <<source, query>>
  BY LockedRecords DEF Knowledge!OpenBarrier
<1>2. r \in Candidate
  BY <1>0, <1>1, CommandFields DEF Records
<1>3. release' = [release EXCEPT ![r] = row] /\ pointer' = next
      /\ release[r].status = "ready"
  BY <1>0 DEF Knowledge!OpenBarrier, KnowledgeTypes, Knowledge!Pointers
<1>4. row \in KnowledgeRow /\ row.status = "ready"
  <2>1. release[r] \in KnowledgeRow
    BY <1>0, <1>2 DEF KnowledgeTypes, KnowledgeRows
  <2> QED BY <1>3, <2>1 DEF KnowledgeRow
<1>5. /\ next \in Knowledge!Pointers /\ next.version = pointer.version + 1
      /\ next.generation <= next.version /\ next.active = pointer.active /\ next.candidate = r
      /\ next.barrier = "syncing" => r \in Critical
  <2>1. pointer \in Knowledge!Pointers
    BY <1>0 DEF KnowledgeTypes
  <2>2. pointer.version \in Nat /\ pointer.generation \in Nat /\ pointer.generation <= pointer.version
    BY <1>0, <2>1, PointerFields DEF BarrierInv
  <2>3. pointer.version + 1 \in Knowledge!Versions /\ pointer.generation + 1 \in Knowledge!Versions
    BY <1>1, <2>2, ReleasesAssumption DEF Knowledge!Versions
  <2> QED BY <1>2, <2>1, <2>2, <2>3 DEF Knowledge!Pointers
<1> HIDE DEF row, next, r
<1>6. release' \in KnowledgeRows /\ \A q \in Candidate : release'[q] = IF q = r THEN row ELSE release[q]
  BY <1>0, <1>3, <1>4 DEF KnowledgeTypes, KnowledgeRows
<1>7. \A q \in Candidate : release'[q].status = release[q].status
  BY <1>3, <1>4, <1>6
<1>8. /\ command' \in [Actor -> Knowledge!Commands \cup {Nil}]
      /\ done' \subseteq Knowledge!Transitions
  <2>1. pointer.version + 1 \in Knowledge!Versions
    BY <1>0, <1>1, PointerFields, ReleasesAssumption DEF KnowledgeTypes, Knowledge!Versions
  <2> QED BY <1>0, <1>1, <2>1, OneMoreEvent
<1>9. KnowledgeTypes'
  BY <1>0, <1>1, <1>3, <1>5, <1>6, <1>8 DEF KnowledgeTypes
<1>10. BarrierInv'
  BY <1>2, <1>3, <1>5, ReleasesAssumption DEF BarrierInv
<1>11. HistoryInv' /\ SnapshotInv'
  BY <1>0, <1>1, <1>3, <1>5, HistoryAdvances, SnapshotsAge
<1>12. Knowledge!PointerNamesActive'
  BY <1>2, <1>3, <1>5, <1>7 DEF KnowledgeInv, Knowledge!PointerNamesActive
<1>13. PlaneStep
  <2>1. Ready' = Ready /\ Gone' = Gone
    BY <1>7 DEF Ready, Gone
  <2> QED BY <1>3, <1>5, <2>1, PlaneStays
<1> QED BY <1>9, <1>10, <1>11, <1>12, <1>13 DEF KnowledgeKept, KnowledgeInv

\* A release takes the pointer: the one it replaces steps aside, all else stays.
Takes(r) ==
  /\ release' = Knowledge!Move(Knowledge!Supersede(release), r, "active")
  /\ pointer' = [active |-> r, candidate |-> Nil, barrier |-> "clear",
                 generation |-> pointer.generation, version |-> pointer.version + 1]
  /\ UNCHANGED <<source, query>>

\* The release that takes the pointer is the one active release from then on, under a version
\* of its own.
LEMMA TakeKeeps ==
  ASSUME KnowledgeInv, NEW o \in Actor, Records(o, pointer.version + 1), NEW r \in Candidate,
         Takes(r), release[r].status \in {"ready", "superseded"}, pointer.version < MaxPointer
  PROVE  KnowledgeKept
<1>0. KnowledgeTypes /\ HistoryInv /\ SnapshotInv /\ BarrierInv
  BY DEF KnowledgeInv
<1>1. pointer.version + 1 \in Knowledge!Versions /\ pointer.generation \in Knowledge!Versions
      /\ pointer.generation <= pointer.version /\ pointer.version \in Nat
      /\ pointer.active \in Candidate \cup {Nil}
  <2>1. pointer \in Knowledge!Pointers
    BY <1>0 DEF KnowledgeTypes
  <2>2. pointer.version \in Nat /\ pointer.generation <= pointer.version
    BY <1>0, <2>1, PointerFields DEF BarrierInv
  <2> QED BY <2>1, <2>2, PointerFields, ReleasesAssumption DEF Knowledge!Pointers, Knowledge!Versions
<1>2. pointer' \in Knowledge!Pointers
  BY <1>1 DEF Takes, Knowledge!Pointers
<1>3. pointer.active # r
  BY DEF KnowledgeInv, Knowledge!PointerNamesActive
<1>4. /\ release' \in KnowledgeRows /\ release'[r].status = "active"
      /\ \A q \in Candidate \ {r, pointer.active} : release'[q] = release[q]
      /\ pointer.active # Nil => release'[pointer.active].status = "superseded"
  <2>1. "active" \in Knowledge!Statuses
    BY DEF Knowledge!Statuses
  <2> DEFINE rel == Knowledge!Supersede(release)
  <2>2. /\ rel \in KnowledgeRows
        /\ pointer.active # Nil => rel[pointer.active].status = "superseded"
        /\ \A q \in Candidate \ {pointer.active} : rel[q] = release[q]
    BY <1>0, SupersedeMoves
  <2>3. release' = Knowledge!Move(rel, r, "active")
    BY DEF Takes
  <2> HIDE DEF rel
  <2>4. /\ release' \in KnowledgeRows /\ release'[r].status = "active"
        /\ \A q \in Candidate \ {r} : release'[q] = rel[q]
    BY <2>1, <2>2, <2>3, MoveMoves
  <2> QED BY <1>1, <1>3, <2>2, <2>4
<1>5. /\ command' \in [Actor -> Knowledge!Commands \cup {Nil}]
      /\ done' \subseteq Knowledge!Transitions
  BY <1>0, <1>1, OneMoreEvent
<1>6. KnowledgeTypes'
  BY <1>0, <1>2, <1>4, <1>5 DEF KnowledgeTypes, Takes
<1>7. BarrierInv'
  <2>1. pointer'.generation = pointer.generation /\ pointer'.version = pointer.version + 1
        /\ pointer'.barrier = "clear"
    BY DEF Takes
  <2>2. pointer.generation \in Nat
    BY <1>0, PointerFields DEF KnowledgeTypes
  <2> QED BY <1>1, <2>1, <2>2 DEF BarrierInv
<1>8. HistoryInv' /\ SnapshotInv'
  BY <1>0, HistoryAdvances, SnapshotsAge DEF Takes
<1>9. Knowledge!PointerNamesActive'
  BY <1>1, <1>3, <1>4, ReleasesAssumption DEF KnowledgeInv, Knowledge!PointerNamesActive, Takes
<1>10. PlaneStep
  <2>1. pointer.active # Nil => release[pointer.active].status = "active"
    BY <1>1 DEF KnowledgeInv, Knowledge!PointerNamesActive
  <2>a. \A q \in Candidate :
          /\ release'[q].status \in {"ready", "active", "superseded"} <=>
               release[q].status \in {"ready", "active", "superseded"}
          /\ release'[q].status = "tombstoned" <=> release[q].status = "tombstoned"
    <3> SUFFICES ASSUME NEW q \in Candidate
                 PROVE  /\ release'[q].status \in {"ready", "active", "superseded"} <=>
                             release[q].status \in {"ready", "active", "superseded"}
                        /\ release'[q].status = "tombstoned" <=> release[q].status = "tombstoned"
      OBVIOUS
    <3>1. CASE q = r
      BY <1>4, <3>1
    <3>2. CASE q # r /\ q = pointer.active
      BY <1>4, <2>1, <3>2, ReleasesAssumption
    <3>3. CASE q # r /\ q # pointer.active
      BY <1>4, <3>3
    <3> QED BY <3>1, <3>2, <3>3
  <2>2. Ready' = Ready /\ Gone' = Gone
    BY <2>a DEF Ready, Gone
  <2>3. r \in Ready
    BY DEF Ready
  <2>4. Publishes(r)
    BY <1>3, <2>2, <2>3 DEF Publishes, Takes
  <2> QED BY <2>4, PlaneMoves
<1> QED BY <1>6, <1>7, <1>8, <1>9, <1>10 DEF KnowledgeKept, KnowledgeInv

\* Activation and rollback let a release take the pointer.
LEMMA ActivateTakes ==
  ASSUME KnowledgeInv, NEW o \in Actor, Knowledge!Activate(o) \/ Knowledge!RollBack(o)
  PROVE  /\ Records(o, pointer.version + 1) /\ command[o].release \in Candidate
         /\ Takes(command[o].release) /\ pointer.version < MaxPointer
         /\ release[command[o].release].status \in {"ready", "superseded"}
         /\ pointer.barrier = "syncing" => pointer.candidate = command[o].release
<1>1. pointer \in Knowledge!Pointers /\ KnowledgeTypes
  BY DEF KnowledgeInv, KnowledgeTypes
<1> DEFINE r == command[o].release
<1>2. /\ Records(o, pointer.version + 1) /\ pointer.version < MaxPointer
      /\ release[r].status \in {"ready", "superseded"}
      /\ UNCHANGED <<source, query>>
  BY LockedRecords DEF Knowledge!Activate, Knowledge!RollBack
<1>3. r \in Candidate
  BY <1>1, <1>2, CommandFields DEF Records
<1>4. CASE Knowledge!Activate(o)
  <2>1. /\ release' = Knowledge!Move(Knowledge!Supersede(release), r, "active")
        /\ pointer' = [pointer EXCEPT !.active = r, !.candidate = Nil, !.barrier = "clear",
                                      !.version = pointer.version + 1]
        /\ pointer.candidate = r
    BY <1>4 DEF Knowledge!Activate
  <2> HIDE DEF r
  <2>2. Takes(r)
    BY <1>1, <1>2, <1>3, <2>1 DEF Takes, Knowledge!Pointers
  <2> QED BY <1>2, <1>3, <2>1, <2>2 DEF r
<1>5. CASE Knowledge!RollBack(o)
  <2>1. /\ release' = Knowledge!Move(Knowledge!Supersede(release), r, "active")
        /\ pointer' = [pointer EXCEPT !.active = r, !.version = pointer.version + 1]
        /\ pointer.candidate = Nil /\ pointer.barrier = "clear"
    BY <1>5 DEF Knowledge!RollBack
  <2> HIDE DEF r
  <2>2. Takes(r)
    BY <1>1, <1>2, <1>3, <2>1 DEF Takes, Knowledge!Pointers
  <2> QED BY <1>2, <1>3, <2>1, <2>2 DEF r
<1> QED BY <1>4, <1>5

\* A withdrawal takes the release from the pointer in the same step.
LEMMA TombstoneKeeps ==
  ASSUME KnowledgeInv, NEW o \in Actor, Knowledge!Tombstone(o)
  PROVE  KnowledgeKept
<1>0. KnowledgeTypes /\ HistoryInv /\ SnapshotInv /\ BarrierInv
  BY DEF KnowledgeInv
<1> DEFINE r == command[o].release
<1>1. /\ command[o] # Nil /\ Knowledge!Locked(o, "tombstone")
      /\ release[r].status # "tombstoned" /\ release' = Knowledge!Move(release, r, "tombstoned")
      /\ UNCHANGED <<source, query>>
  BY DEF Knowledge!Tombstone, Knowledge!Locked
<1>2. r \in Candidate /\ "tombstoned" \in Knowledge!Statuses
  BY <1>0, <1>1, CommandFields DEF Knowledge!Statuses
<1>3. /\ release' \in KnowledgeRows /\ release'[r].status = "tombstoned"
      /\ \A q \in Candidate \ {r} : release'[q] = release[q]
  BY <1>0, <1>1, <1>2, MoveMoves DEF KnowledgeTypes
<1>4. /\ pointer.version \in Nat /\ pointer.generation \in Nat
      /\ pointer.generation <= pointer.version
      /\ pointer.active \in Candidate \cup {Nil} /\ pointer.candidate \in Candidate \cup {Nil}
  BY <1>0, PointerFields DEF KnowledgeTypes, BarrierInv
<1>5. CASE Knowledge!Referenced(r)
  <2>1. /\ pointer.version < MaxPointer /\ Records(o, pointer.version + 1)
        /\ pointer' = [active |-> IF pointer.active = r THEN Nil ELSE pointer.active,
                       candidate |-> Nil, barrier |-> "blocked",
                       generation |-> pointer.generation + 1, version |-> pointer.version + 1]
    BY <1>1, <1>5, LockedRecords DEF Knowledge!Tombstone
  <2> HIDE DEF r
  <2>2. pointer.version + 1 \in Knowledge!Versions /\ pointer.generation + 1 \in Knowledge!Versions
    BY <1>4, <2>1, ReleasesAssumption DEF Knowledge!Versions
  <2>3. pointer' \in Knowledge!Pointers
    BY <1>4, <2>1, <2>2 DEF Knowledge!Pointers
  <2>4. /\ command' \in [Actor -> Knowledge!Commands \cup {Nil}]
        /\ done' \subseteq Knowledge!Transitions
    BY <1>0, <2>1, <2>2, OneMoreEvent
  <2>5. KnowledgeTypes'
    BY <1>0, <1>1, <1>3, <2>3, <2>4 DEF KnowledgeTypes
  <2>6. BarrierInv'
    BY <1>4, <2>1 DEF BarrierInv
  <2>7. HistoryInv' /\ SnapshotInv'
    BY <1>0, <1>1, <2>1, HistoryAdvances, SnapshotsAge
  <2>8. Knowledge!PointerNamesActive'
    BY <1>2, <1>3, <1>4, <2>1, ReleasesAssumption DEF KnowledgeInv, Knowledge!PointerNamesActive
  <2>9. Withdraws(r)
    BY <1>1, <1>2, <1>3, <2>1 DEF Withdraws, Ready, Gone, r
  <2>10. PlaneStep
    BY <1>2, <2>9, PlaneMoves
  <2> QED BY <2>5, <2>6, <2>7, <2>8, <2>10 DEF KnowledgeKept, KnowledgeInv
<1>6. CASE ~Knowledge!Referenced(r)
  <2>1. Records(o, 0) /\ pointer' = pointer /\ r # pointer.active /\ r # pointer.candidate
    BY <1>1, <1>6, LockedRecords DEF Knowledge!Tombstone, Knowledge!Referenced
  <2> HIDE DEF r
  <2>2. /\ command' \in [Actor -> Knowledge!Commands \cup {Nil}]
        /\ done' \subseteq Knowledge!Transitions
    BY <1>0, <2>1, OneMoreEvent, ReleasesAssumption DEF Knowledge!Versions
  <2>3. KnowledgeTypes' /\ BarrierInv' /\ SnapshotInv'
    BY <1>0, <1>1, <1>3, <2>1, <2>2 DEF KnowledgeTypes, BarrierInv, SnapshotInv
  <2>4. HistoryInv'
    BY <1>0, <2>1, HistoryGrows
  <2>5. Knowledge!PointerNamesActive'
    BY <1>2, <1>3, <1>4, <2>1 DEF KnowledgeInv, Knowledge!PointerNamesActive
  <2>6. Withdraws(r)
    BY <1>1, <1>2, <1>3, <2>1 DEF Withdraws, Ready, Gone, r
  <2>7. PlaneStep
    BY <1>2, <2>6, PlaneMoves
  <2> QED BY <2>3, <2>4, <2>5, <2>7 DEF KnowledgeKept, KnowledgeInv
<1> QED BY <1>5, <1>6

\* Initially nothing is released and the pointer is at its first version.
LEMMA KnowledgeStart == Knowledge!Init => KnowledgeInv /\ KnowledgePlane!Init
<1> SUFFICES ASSUME Knowledge!Init PROVE KnowledgeInv /\ KnowledgePlane!Init
  OBVIOUS
<1>1. /\ Knowledge!NoRelease \in KnowledgeRow /\ Knowledge!NoRelease.status = "none"
      /\ 0 \in Knowledge!Versions /\ 1 \in Knowledge!Revisions
  BY ReleasesAssumption
     DEF Knowledge!NoRelease, KnowledgeRow, Knowledge!Statuses, Knowledge!Revisions, Knowledge!Versions
<1>2. /\ release = [r \in Candidate |-> Knowledge!NoRelease] /\ done = {}
      /\ pointer = [active |-> Nil, candidate |-> Nil, barrier |-> "clear", generation |-> 0, version |-> 0]
      /\ source = [s \in Source |-> 1] /\ command = [o \in Actor |-> Nil]
      /\ query = [q \in Retrieval |-> [snapshot |-> Nil, served |-> FALSE]]
  BY DEF Knowledge!Init
<1>3. pointer \in Knowledge!Pointers
  BY <1>1, <1>2 DEF Knowledge!Pointers
<1>4. KnowledgeTypes
  BY <1>1, <1>2, <1>3 DEF KnowledgeTypes, KnowledgeRows, Resolved
<1>5. BarrierInv /\ HistoryInv /\ SnapshotInv /\ Knowledge!PointerNamesActive
  BY <1>1, <1>2, ReleasesAssumption DEF BarrierInv, HistoryInv, SnapshotInv, Knowledge!PointerNamesActive
<1>6. KnowledgePlane!Init
  BY <1>1, <1>2 DEF KnowledgePlane!Init
<1> QED BY <1>4, <1>5, <1>6 DEF KnowledgeInv

\* Every step keeps the invariant and is a step of the plane.
LEMMA KnowledgeStep == KnowledgeInv /\ [Knowledge!Next]_knowledgeVars => KnowledgeKept
<1> SUFFICES ASSUME KnowledgeInv, [Knowledge!Next]_knowledgeVars PROVE KnowledgeKept
  OBVIOUS
<1>1. CASE UNCHANGED knowledgeVars
  BY <1>1, QuietKeeps DEF knowledgeVars, KnowledgeInv, KnowledgeTypes
<1>2. ASSUME NEW o \in Actor, Knowledge!Activate(o) \/ Knowledge!RollBack(o) PROVE KnowledgeKept
  BY <1>2, ActivateTakes, TakeKeeps
<1> QED
  BY <1>1, <1>2, ChangeSourceKeeps, AddCandidateKeeps, MaterializeKeeps, BeginKeeps, RefuseKeeps,
     RetrievalKeeps, SaveKeeps, OpenBarrierKeeps, TombstoneKeeps DEF Knowledge!Next

\* Evidence is served under the pointer that was resolved: an equal version is an
\* equal pointer.
LEMMA EvidenceStep ==
  ASSUME KnowledgeInv, Knowledge!Next, NEW q \in Retrieval, query'[q].served, ~query[q].served
  PROVE  pointer = query[q].snapshot
<1>1. query \in [Retrieval -> Resolved]
  BY DEF KnowledgeInv, KnowledgeTypes
<1>2. ~UNCHANGED query
  OBVIOUS
<1>3. PICK p \in Retrieval : Knowledge!ResolveSnapshot(p) \/ Knowledge!Search(p)
  BY <1>2
     DEF Knowledge!Next, Knowledge!ChangeSource, Knowledge!AddCandidate, Knowledge!Materialize,
         Knowledge!Begin, Knowledge!RecordEvaluation, Knowledge!Approve, Knowledge!SaveTransition,
         Knowledge!OpenBarrier, Knowledge!Activate, Knowledge!RollBack, Knowledge!Tombstone,
         Knowledge!Refuse
<1>4. Knowledge!Search(q)
  <2>1. ASSUME Knowledge!ResolveSnapshot(p) PROVE FALSE
    <3>1. query'[q].served = query[q].served
      BY <1>1, <2>1 DEF Knowledge!ResolveSnapshot, Resolved
    <3> QED BY <3>1
  <2>2. p = q
    BY <1>1, <1>3, <2>1 DEF Knowledge!Search
  <2> QED BY <1>3, <2>1, <2>2
<1>5. Knowledge!Searchable(query[q].snapshot) /\ query[q].snapshot # Nil
  BY <1>1, <1>4 DEF Knowledge!Search
<1> QED BY <1>5 DEF KnowledgeInv, SnapshotInv, Knowledge!Searchable

\* A critical barrier is lifted by the activation of its own candidate only.
LEMMA BarrierStep ==
  ASSUME KnowledgeInv, Knowledge!Next, pointer.barrier = "syncing", pointer'.barrier = "clear"
  PROVE  pointer'.active = pointer.candidate
<1>0. pointer' # pointer
  OBVIOUS
<1>1. PICK o \in Actor : \/ Knowledge!OpenBarrier(o) \/ Knowledge!Activate(o)
                         \/ Knowledge!RollBack(o) \/ Knowledge!Tombstone(o)
  BY <1>0
     DEF Knowledge!Next, Knowledge!ChangeSource, Knowledge!AddCandidate, Knowledge!Materialize,
         Knowledge!Begin, Knowledge!RecordEvaluation, Knowledge!Approve, Knowledge!SaveTransition,
         Knowledge!Refuse, Knowledge!ResolveSnapshot, Knowledge!Search
<1>2. CASE Knowledge!Activate(o) \/ Knowledge!RollBack(o)
  <2>1. Takes(command[o].release) /\ pointer.candidate = command[o].release
    BY <1>2, ActivateTakes
  <2> QED BY <2>1 DEF Takes
<1>3. ASSUME Knowledge!OpenBarrier(o) PROVE FALSE
  <2>1. pointer.candidate \in Critical \ {Nil}
    BY DEF KnowledgeInv, BarrierInv
  <2>2. command[o].release = pointer.candidate
    BY <1>3, <2>1 DEF Knowledge!OpenBarrier
  <2>3. pointer'.barrier = "syncing"
    BY <1>3, <2>1, <2>2 DEF Knowledge!OpenBarrier, KnowledgeInv, KnowledgeTypes, Knowledge!Pointers
  <2> QED BY <2>3
<1>4. ASSUME Knowledge!Tombstone(o) PROVE FALSE
  <2>1. pointer' = pointer \/ pointer'.barrier = "blocked"
    BY <1>4 DEF Knowledge!Tombstone
  <2> QED BY <2>1
<1> QED BY <1>1, <1>2, <1>3, <1>4

-----------------------------------------------------------------------------
(* Product releases.                                                       *)

\* The rows of a market, one active at most, with the revisions their moves explain.
OneActive(market) ==
  \A r, q \in Item : market[r].state = "active" /\ market[q].state = "active" => r = q
ProductInv ==
  /\ product \in Product!Markets /\ eligible \subseteq Item
  /\ seen \in [Officer -> Product!Markets \cup {Nil}]
  /\ transaction \in [Officer -> Product!Commands \cup {Nil}]
  /\ OneActive(product) /\ Product!RevisionCountsMoves

\* The unique index admits one active release.
LEMMA IndexMeansOne ==
  ASSUME NEW market, Product!UniqueActive(market)
  PROVE  OneActive(market)
<1> DEFINE S == {r \in Item : market[r].state = "active"}
<1>1. IsFiniteSet(S) /\ Cardinality(S) \in Nat
  BY ReleasesAssumption, FS_Subset, FS_CardinalityType
<1>2. Cardinality(S) <= 1
  BY Counting, Zenon DEF Product!UniqueActive, Product!ActiveIn
<1> HIDE DEF S
<1>3. ASSUME NEW r \in S, NEW q \in S, r # q PROVE FALSE
  <2>1. IsFiniteSet({r}) /\ Cardinality({r}) = 1 /\ q \notin {r}
    BY <1>3, FS_Singleton
  <2>2. Cardinality({r} \cup {q}) = 2
    BY <2>1, FS_AddElement
  <2>3. {r} \cup {q} \subseteq S
    OBVIOUS
  <2>4. Cardinality({r} \cup {q}) <= Cardinality(S)
    BY <1>1, <2>3, FS_Subset
  <2> QED BY <1>1, <1>2, <2>2, <2>4
<1> QED BY <1>3 DEF OneActive, S

\* The active release of a market, if there is one.
LEMMA ActiveOf ==
  ASSUME NEW market, OneActive(market), NEW active,
         active = IF Product!ActiveIn(market) = {} THEN Nil
                  ELSE CHOOSE r \in Item : market[r].state = "active"
  PROVE  /\ \A r \in Item : market[r].state = "active" => active = r
         /\ (\A r \in Item : market[r].state # "active") => active = Nil
         /\ active # Nil => active \in Item /\ market[active].state = "active"
<1>1. CASE \A r \in Item : market[r].state # "active"
  BY <1>1 DEF Product!ActiveIn
<1>2. ASSUME NEW r \in Item, market[r].state = "active" PROVE active = r
  <2>1. active = CHOOSE q \in Item : market[q].state = "active"
    BY <1>2 DEF Product!ActiveIn
  <2>2. (CHOOSE q \in Item : market[q].state = "active") \in Item
        /\ market[CHOOSE q \in Item : market[q].state = "active"].state = "active"
    BY <1>2
  <2> QED BY <1>2, <2>1, <2>2 DEF OneActive
<1> QED BY <1>1, <1>2

\* So it is of the rows there are.
LEMMA ActiveOne ==
  ASSUME OneActive(product)
  PROVE  /\ \A r \in Item : product[r].state = "active" => ActiveProduct = r
         /\ (\A r \in Item : product[r].state # "active") => ActiveProduct = Nil
         /\ ActiveProduct # Nil => ActiveProduct \in Item /\ product[ActiveProduct].state = "active"
BY ActiveOf DEF ActiveProduct

\* The same of the rows a step leaves.
LEMMA ActiveNext ==
  ASSUME OneActive(product')
  PROVE  /\ \A r \in Item : product'[r].state = "active" => ActiveProduct' = r
         /\ (\A r \in Item : product'[r].state # "active") => ActiveProduct' = Nil
         /\ ActiveProduct' # Nil => ActiveProduct' \in Item /\ product'[ActiveProduct'].state = "active"
<1>1. ActiveProduct' = IF Product!ActiveIn(product') = {} THEN Nil
                       ELSE CHOOSE r \in Item : product'[r].state = "active"
  BY DEF ActiveProduct, Product!ActiveIn
<1> QED BY <1>1, ActiveOf

\* A transaction that commits moves its release, and the active one it read aside,
\* from the rows as they are.
Moved(row, state) == [state |-> state, revision |-> row.revision + 1]
Aside(t) == IF t.kind = "approve" THEN {} ELSE Product!ActiveIn(t.rows)
Ahead(t) == IF t.kind = "approve" THEN "approved" ELSE "active"
Moves(t) ==
  /\ product' \in Product!Markets
  /\ product'[t.release] = Moved(product[t.release], Ahead(t))
  /\ \A q \in Aside(t) \ {t.release} :
       product[q].state = "active" /\ product'[q] = Moved(product[q], "superseded")
  /\ \A q \in Item \ (Aside(t) \cup {t.release}) : product'[q] = product[q]
  /\ t.kind = "approve" => product[t.release].state = "draft"
  /\ t.kind = "activate" => product[t.release].state = "approved"
  /\ t.kind = "rollback" => product[t.release].state = "superseded"

\* A row that moves is a row, with its new state and the next revision.
LEMMA MovedRow ==
  ASSUME NEW row \in Product!Rows, NEW state \in Product!States
  PROVE  /\ Moved(row, state).state = state /\ Moved(row, state).revision = row.revision + 1
         /\ row.revision \in Nat
         /\ row.revision + 1 <= MaxMarket => Moved(row, state) \in Product!Rows
BY ReleasesAssumption DEF Moved, Product!Rows

\* What a transaction commits was decided on the rows as they are: whatever it writes it
\* found unchanged, and the index admits the result.
LEMMA CommitMoves ==
  ASSUME ProductInv, NEW o \in Officer, Product!Commit(o)
  PROVE  /\ transaction[o] \in Product!Commands /\ transaction[o].release \in Item
         /\ transaction[o].kind \in {"approve", "activate", "rollback"}
         /\ Moves(transaction[o]) /\ OneActive(product')
         /\ UNCHANGED <<eligible, seen>>
         /\ transaction' \in [Officer -> Product!Commands \cup {Nil}]
<1> DEFINE t == transaction[o]
<1>1. /\ Product!Admits(o, t)
      /\ \A r \in DOMAIN Product!Moved(t) : Product!Moved(t)[r].revision <= MaxMarket
      /\ Product!FirstUpdater(t) /\ Product!UniqueActive(Product!After(t))
      /\ product' = Product!After(t) /\ transaction' = [transaction EXCEPT ![o] = Nil]
      /\ t # Nil /\ UNCHANGED <<eligible, seen>>
  BY DEF Product!Commit
<1>2. t \in Product!Commands
  BY <1>1 DEF ProductInv
<1> HIDE DEF t
<1>3. /\ t.release \in Item /\ t.kind \in {"approve", "activate", "rollback"}
      /\ t.rows \in Product!Markets
  BY <1>2 DEF Product!Commands
<1>4. /\ DOMAIN Product!Moved(t) = {t.release} \cup Aside(t)
      /\ Product!Moved(t)[t.release] = Moved(t.rows[t.release], Ahead(t))
      /\ \A q \in Aside(t) \ {t.release} : Product!Moved(t)[q] = Moved(t.rows[q], "superseded")
      /\ Ahead(t) \in Product!States /\ "superseded" \in Product!States
  BY DEF Product!Moved, Aside, Ahead, Moved, Product!States
<1>5. \A q \in {t.release} \cup Aside(t) : product[q] = t.rows[q]
  BY <1>1, <1>4 DEF Product!FirstUpdater
<1>6. Aside(t) \subseteq Item /\ \A q \in Aside(t) : t.rows[q].state = "active"
  BY DEF Aside, Product!ActiveIn
<1>7. /\ \A q \in {t.release} \cup Aside(t) : product'[q] = Product!Moved(t)[q]
      /\ \A q \in Item \ (Aside(t) \cup {t.release}) : product'[q] = product[q]
  BY <1>1, <1>3, <1>4, <1>6 DEF Product!After
<1>8. product' \in Product!Markets
  <2>1. product \in [Item -> Product!Rows] /\ t.rows \in [Item -> Product!Rows]
    BY <1>3 DEF ProductInv, Product!Markets
  <2>2. ASSUME NEW q \in {t.release} \cup Aside(t) PROVE Product!Moved(t)[q] \in Product!Rows
    <3>1. q \in Item
      BY <1>3, <1>6, <2>2
    <3>2. t.rows[q] \in Product!Rows
      BY <2>1, <3>1
    <3>3. PICK state \in Product!States : Product!Moved(t)[q] = Moved(t.rows[q], state)
      BY <1>4, <2>2
    <3>4. Product!Moved(t)[q].revision <= MaxMarket
      BY <1>1, <1>4, <2>2
    <3> QED BY <3>2, <3>3, <3>4, MovedRow
  <2>3. product' = [q \in Item |-> product'[q]]
    BY <1>1 DEF Product!After
  <2>4. ASSUME NEW q \in Item PROVE product'[q] \in Product!Rows
    <3>1. CASE q \in Aside(t) \cup {t.release}
      BY <1>7, <2>2, <3>1
    <3>2. CASE q \notin Aside(t) \cup {t.release}
      BY <1>7, <2>1, <3>2
    <3> QED BY <3>1, <3>2
  <2> QED BY <2>3, <2>4 DEF Product!Markets
<1>9. Moves(t)
  <2>1. product'[t.release] = Moved(product[t.release], Ahead(t))
    BY <1>4, <1>5, <1>7
  <2>2. \A q \in Aside(t) \ {t.release} :
          product[q].state = "active" /\ product'[q] = Moved(product[q], "superseded")
    BY <1>4, <1>5, <1>6, <1>7
  <2>3. product[t.release] = t.rows[t.release]
    BY <1>5
  <2>4. /\ t.kind = "approve" => product[t.release].state = "draft"
        /\ t.kind = "activate" => product[t.release].state = "approved"
        /\ t.kind = "rollback" => product[t.release].state = "superseded"
    BY <1>1, <2>3 DEF Product!Admits
  <2> QED BY <1>7, <1>8, <2>1, <2>2, <2>4 DEF Moves
<1>10. OneActive(product')
  BY <1>1, IndexMeansOne
<1>11. transaction' \in [Officer -> Product!Commands \cup {Nil}]
  BY <1>1 DEF ProductInv
<1> QED BY <1>1, <1>2, <1>3, <1>9, <1>10, <1>11 DEF t

\* A release that moves gains the one revision of the move.
LEMMA MovesAreCounted ==
  ASSUME ProductInv, NEW t \in Product!Commands, Moves(t)
  PROVE  Product!RevisionCountsMoves'
<1> SUFFICES ASSUME NEW r \in Item
             PROVE  CASE product'[r].state = "draft"      -> product'[r].revision = 0
                      [] product'[r].state = "approved"   -> product'[r].revision = 1
                      [] product'[r].state = "active"     ->
                           product'[r].revision >= 2 /\ product'[r].revision % 2 = 0
                      [] product'[r].state = "superseded" ->
                           product'[r].revision >= 3 /\ product'[r].revision % 2 = 1
  BY DEF Product!RevisionCountsMoves
<1>0. product[r] \in Product!Rows
  BY DEF ProductInv, Product!Markets
<1>1. /\ product[r].state \in Product!States /\ product[r].revision \in Nat
      /\ product[r].state = "draft" => product[r].revision = 0
      /\ product[r].state = "approved" => product[r].revision = 1
      /\ product[r].state = "active" => product[r].revision >= 2 /\ product[r].revision % 2 = 0
      /\ product[r].state = "superseded" => product[r].revision >= 3 /\ product[r].revision % 2 = 1
  <2>1. product[r].state \in Product!States /\ product[r].revision \in Nat
    BY <1>0, ReleasesAssumption DEF Product!Rows
  <2> QED BY <2>1 DEF ProductInv, Product!RevisionCountsMoves, Product!States
<1>2. t.kind \in {"approve", "activate", "rollback"}
  BY DEF Product!Commands
<1>3. CASE r = t.release
  <2>1. product'[r] = Moved(product[r], Ahead(t)) /\ Ahead(t) \in Product!States
    BY <1>3 DEF Moves, Ahead, Product!States
  <2>2. product'[r].state = Ahead(t) /\ product'[r].revision = product[r].revision + 1
    BY <1>0, <2>1, MovedRow
  <2>3. CASE t.kind = "approve"
    <3>1. product[r].revision = 0 /\ product'[r].state = "approved"
      BY <1>1, <1>3, <2>2, <2>3 DEF Moves, Ahead
    <3> QED BY <2>2, <3>1
  <2>4. CASE t.kind = "activate"
    <3>1. product[r].revision = 1 /\ product'[r].state = "active"
      BY <1>1, <1>3, <2>2, <2>4 DEF Moves, Ahead
    <3> QED BY <2>2, <3>1
  <2>5. CASE t.kind = "rollback"
    <3>1. product[r].revision >= 3 /\ product[r].revision % 2 = 1 /\ product'[r].state = "active"
      BY <1>1, <1>3, <2>2, <2>5 DEF Moves, Ahead
    <3>2. (product[r].revision + 1) % 2 = 0
      BY <1>1, <3>1
    <3> QED BY <1>1, <2>2, <3>1, <3>2
  <2> QED BY <1>2, <2>3, <2>4, <2>5
<1>4. CASE r # t.release /\ r \in Aside(t)
  <2>1. product[r].state = "active" /\ product'[r] = Moved(product[r], "superseded")
    BY <1>4 DEF Moves
  <2>2. product'[r].state = "superseded" /\ product'[r].revision = product[r].revision + 1
    BY <1>0, <2>1, MovedRow DEF Product!States
  <2>3. (product[r].revision + 1) % 2 = 1
    BY <1>1, <2>1
  <2>4. product'[r].revision >= 3 /\ product'[r].revision % 2 = 1
    BY <1>1, <2>1, <2>2, <2>3
  <2> QED BY <2>2, <2>4
<1>5. CASE r # t.release /\ r \notin Aside(t)
  <2>1. product'[r] = product[r]
    BY <1>5 DEF Moves
  <2> QED BY <1>1, <2>1 DEF Product!States
<1> QED BY <1>3, <1>4, <1>5

\* What a committed transaction makes of the market's plane: an approval prepares the
\* release, an activation or a rollback publishes it.
Offered == {r \in Item : product[r].state # "draft"}
MarketStep == [ProductPlane!Next]_(ProductPlane!vars)

\* An approval prepares the release; an activation or a rollback publishes it, and it is
\* the active one afterwards.
LEMMA MarketMoves ==
  ASSUME ProductInv, NEW t \in Product!Commands, Moves(t), OneActive(product')
  PROVE  MarketStep /\ (t.kind # "approve" => ActiveProduct' = t.release)
<1> DEFINE r == t.release
<1>0. r \in Item /\ t.kind \in {"approve", "activate", "rollback"}
  BY DEF Product!Commands
<1>1. OneActive(product) /\ product[r] \in Product!Rows
  BY <1>0 DEF ProductInv, Product!Markets
<1>2. /\ ActiveProduct \in Item \cup {Nil}
      /\ \A q \in Item : product[q].state = "active" => ActiveProduct = q
      /\ (\A q \in Item : product[q].state # "active") => ActiveProduct = Nil
      /\ ActiveProduct # Nil => product[ActiveProduct].state = "active"
  BY <1>1, ActiveOne
<1>3. /\ \A q \in Item : product'[q].state = "active" => ActiveProduct' = q
      /\ (\A q \in Item : product'[q].state # "active") => ActiveProduct' = Nil
      /\ ActiveProduct' # Nil => ActiveProduct' \in Item /\ product'[ActiveProduct'].state = "active"
  BY ActiveNext
<1>4. product'[r].state = Ahead(t)
  BY <1>1, MovedRow DEF Moves, Ahead, Product!States
<1>5. ASSUME NEW q \in Aside(t) \ {r}
      PROVE  q \in Item /\ product[q].state = "active" /\ product'[q].state = "superseded"
  <2>1. q \in Item /\ "superseded" \in Product!States
    BY DEF Aside, Product!ActiveIn, Product!States
  <2>2. product[q] \in Product!Rows
    BY <2>1 DEF ProductInv, Product!Markets
  <2>3. product[q].state = "active" /\ product'[q] = Moved(product[q], "superseded")
    BY DEF Moves
  <2> QED BY <2>1, <2>2, <2>3, MovedRow
<1>6. \A q \in Item \ (Aside(t) \cup {r}) : product'[q] = product[q]
  BY DEF Moves
<1>7. CASE t.kind = "approve"
  <2>1. Aside(t) = {} /\ product[r].state = "draft" /\ product'[r].state = "approved"
    BY <1>4, <1>7 DEF Aside, Ahead, Moves
  <2>2. \A q \in Item : product'[q].state = "active" <=> product[q].state = "active"
    BY <1>0, <1>6, <2>1
  <2>3. ActiveProduct' = ActiveProduct
    BY <1>2, <1>3, <2>2
  <2>4. r \notin Offered /\ Offered' = Offered \cup {r}
    BY <1>0, <1>6, <2>1 DEF Offered
  <2>5. ProductPlane!Prepare(r)
    BY <2>3, <2>4 DEF ProductPlane!Prepare, Offered
  <2> QED BY <1>0, <1>7, <2>5 DEF MarketStep, ProductPlane!Next, ProductPlane!vars
<1>8. CASE t.kind # "approve"
  <2>1. /\ product[r].state \in {"approved", "superseded"} /\ product'[r].state = "active"
    BY <1>0, <1>4, <1>8 DEF Ahead, Moves
  <2>2. ActiveProduct' = r /\ ActiveProduct # r
    BY <1>0, <1>2, <1>3, <2>1, ReleasesAssumption
  <2>3. \A q \in Item : product'[q].state # "draft" <=> product[q].state # "draft"
    BY <1>0, <1>5, <1>6, <2>1
  <2>4. r \in Offered /\ Offered' = Offered
    BY <1>0, <2>1, <2>3 DEF Offered
  <2>5. ProductPlane!Publish(r)
    BY <2>2, <2>4 DEF ProductPlane!Publish, Offered
  <2> QED BY <1>0, <2>2, <2>5 DEF MarketStep, ProductPlane!Next, ProductPlane!vars
<1> QED BY <1>7, <1>8

\* Every step keeps the invariant and is a step of the plane.
LEMMA ProductStep ==
  ASSUME ProductInv, [Product!Next]_productVars
  PROVE  ProductInv' /\ MarketStep
<1>1. ASSUME product' = product, eligible' \subseteq Item,
             seen' \in [Officer -> Product!Markets \cup {Nil}],
             transaction' \in [Officer -> Product!Commands \cup {Nil}]
      PROVE  ProductInv' /\ MarketStep
  <2>1. ProductInv'
    BY <1>1 DEF ProductInv, OneActive, Product!RevisionCountsMoves
  <2>2. ActiveProduct' = ActiveProduct
    BY <1>1 DEF ActiveProduct, Product!ActiveIn
  <2> QED BY <1>1, <2>1, <2>2 DEF MarketStep, ProductPlane!vars
<1>2. CASE UNCHANGED productVars
  BY <1>1, <1>2 DEF productVars, ProductInv
<1>3. ASSUME NEW o \in Officer, Product!Look(o) PROVE ProductInv' /\ MarketStep
  BY <1>1, <1>3 DEF Product!Look, ProductInv
<1>4. ASSUME NEW o \in Officer, Product!Abort(o) PROVE ProductInv' /\ MarketStep
  BY <1>1, <1>4 DEF Product!Abort, ProductInv
<1>5. ASSUME NEW o \in Officer, NEW kind \in {"approve", "activate", "rollback"}, NEW r \in Item,
             Product!Begin(o, kind, r)
      PROVE  ProductInv' /\ MarketStep
  <2> DEFINE new == [kind |-> kind, release |-> r, asked |-> seen[o], rows |-> product,
                     eligible |-> r \in eligible]
  <2>1. seen[o] \in Product!Markets /\ product \in Product!Markets
    BY <1>5 DEF Product!Begin, ProductInv
  <2>2. new \in Product!Commands
    BY <1>5, <2>1 DEF Product!Commands
  <2>3. transaction' = [transaction EXCEPT ![o] = new] /\ UNCHANGED <<product, eligible, seen>>
    BY <1>5 DEF Product!Begin
  <2> HIDE DEF new
  <2> QED BY <1>1, <2>2, <2>3 DEF ProductInv
<1>6. ASSUME NEW r \in Item, Product!ChangeSources(r) PROVE ProductInv' /\ MarketStep
  <2>1. eligible' \subseteq Item /\ UNCHANGED <<product, seen, transaction>>
    BY <1>6 DEF Product!ChangeSources, ProductInv
  <2> QED BY <1>1, <2>1 DEF ProductInv
<1>7. ASSUME NEW o \in Officer, Product!Commit(o) PROVE ProductInv' /\ MarketStep
  <2> DEFINE t == transaction[o]
  <2>1. /\ t \in Product!Commands /\ Moves(t) /\ OneActive(product')
        /\ UNCHANGED <<eligible, seen>>
        /\ transaction' \in [Officer -> Product!Commands \cup {Nil}]
    BY <1>7, CommitMoves
  <2> HIDE DEF t
  <2>2. product' \in Product!Markets
    BY <2>1 DEF Moves
  <2>3. Product!RevisionCountsMoves'
    BY <2>1, MovesAreCounted
  <2>4. MarketStep
    BY <2>1, MarketMoves
  <2> QED BY <2>1, <2>2, <2>3, <2>4 DEF ProductInv
<1> QED BY <1>2, <1>3, <1>4, <1>5, <1>6, <1>7 DEF Product!Next, productVars

\* Initially every release is a draft and nobody has looked.
LEMMA ProductStart == Product!Init => ProductInv /\ ProductPlane!Init
<1> SUFFICES ASSUME Product!Init PROVE ProductInv /\ ProductPlane!Init
  OBVIOUS
<1> DEFINE row == [state |-> "draft", revision |-> 0]
<1>1. row \in Product!Rows /\ row.state = "draft" /\ row.revision = 0
  BY ReleasesAssumption DEF Product!Rows, Product!States
<1>2. product = [r \in Item |-> row] /\ eligible = Item
      /\ seen = [o \in Officer |-> Nil] /\ transaction = [o \in Officer |-> Nil]
  BY DEF Product!Init
<1> HIDE DEF row
<1>3. \A r \in Item : product[r].state = "draft" /\ product[r].revision = 0
  BY <1>1, <1>2
<1>4. ProductInv
  BY <1>1, <1>2, <1>3 DEF ProductInv, Product!Markets, OneActive, Product!RevisionCountsMoves
<1>5. ActiveProduct = Nil
  BY <1>3, <1>4, ActiveOne DEF ProductInv
<1> QED BY <1>3, <1>4, <1>5 DEF ProductPlane!Init

-----------------------------------------------------------------------------
(* What the release planes promise.                                        *)

\* The invariant of the knowledge plane: the pointer and the releases agree, each
\* version of the pointer has the event that wrote it, and what a retrieval resolved is
\* the pointer while its version stands.
THEOREM KnowledgeInvariance == Knowledge!Spec => []KnowledgeInv
<1>1. KnowledgeInv /\ [Knowledge!Next]_(Knowledge!vars) => KnowledgeInv'
  BY KnowledgeStep DEF KnowledgeKept, Knowledge!vars, knowledgeVars
<1>2. Knowledge!Init => KnowledgeInv
  BY KnowledgeStart
<1> QED BY <1>1, <1>2, PTL DEF Knowledge!Spec

\* Knowledge releases implement the abstract release: publishing replaces the
\* authoritative one in the same step, and a tombstoned release never returns.
THEOREM KnowledgeImplementsRelease == Knowledge!Spec => KnowledgePlane!Spec
<1>1. Knowledge!Init => KnowledgePlane!Init
  BY KnowledgeStart
<1>2. KnowledgeInv /\ [Knowledge!Next]_(Knowledge!vars)
        => [KnowledgePlane!Next]_(KnowledgePlane!vars)
  BY KnowledgeStep DEF KnowledgeKept, PlaneStep, Knowledge!vars, knowledgeVars
<1> QED BY <1>1, <1>2, KnowledgeInvariance, PTL DEF Knowledge!Spec, KnowledgePlane!Spec

\* A retrieval serves evidence only while the pointer is the one it resolved, field by
\* field, although its search compares the version, the generation and the barrier.
THEOREM EvidenceIsCurrent == Knowledge!Spec => Knowledge!EvidenceUnderOnePointer
<1>1. KnowledgeInv /\ [Knowledge!Next]_(Knowledge!vars) =>
        [\A q \in Retrieval : query'[q].served /\ ~query[q].served =>
           pointer = query[q].snapshot]_(Knowledge!vars)
  BY EvidenceStep
<1> QED BY <1>1, KnowledgeInvariance, PTL DEF Knowledge!Spec, Knowledge!EvidenceUnderOnePointer

\* While a critical candidate holds the barrier, only its own activation lifts it.
THEOREM BarriersAreKept == Knowledge!Spec => Knowledge!CriticalBarrierKept
<1>1. KnowledgeInv /\ [Knowledge!Next]_(Knowledge!vars) =>
        [pointer.barrier = "syncing" /\ pointer'.barrier = "clear" =>
           pointer'.active = pointer.candidate]_(Knowledge!vars)
  BY BarrierStep
<1> QED BY <1>1, KnowledgeInvariance, PTL DEF Knowledge!Spec, Knowledge!CriticalBarrierKept

\* The invariant of a market: one active release at most, and each release has the
\* revision that the moves it made explain.
THEOREM ProductInvariance == Product!Spec => []ProductInv
<1>1. ProductInv /\ [Product!Next]_(Product!vars) => ProductInv'
  BY ProductStep DEF Product!vars, productVars
<1>2. Product!Init => ProductInv
  BY ProductStart
<1> QED BY <1>1, <1>2, PTL DEF Product!Spec

\* The releases of a market implement the abstract release.
THEOREM ProductImplementsRelease == Product!Spec => ProductPlane!Spec
<1>1. Product!Init => ProductPlane!Init
  BY ProductStart
<1>2. ProductInv /\ [Product!Next]_(Product!vars)
        => [ProductPlane!Next]_(ProductPlane!vars)
  BY ProductStep DEF MarketStep, Product!vars, productVars
<1> QED BY <1>1, <1>2, ProductInvariance, PTL DEF Product!Spec, ProductPlane!Spec

\* A market that has an active release keeps exactly one, however the transactions of
\* its operators overlap.
THEOREM MarketsStayServed == Product!Spec => Product!MarketStaysServed
<1>1. ASSUME ProductInv, Product!Next, NEW a \in Item, product[a].state = "active"
      PROVE  Product!Cardinality(Product!ActiveIn(product')) = 1
  <2>1. ProductInv'
    BY <1>1, ProductStep
  <2>2. PICK b \in Item : product'[b].state = "active"
    <3>1. CASE product' = product
      BY <1>1, <3>1
    <3>2. CASE product' # product
      <4>1. PICK o \in Officer : Product!Commit(o)
        BY <1>1, <3>2
           DEF Product!Next, Product!Look, Product!Abort, Product!Begin, Product!ChangeSources
      <4> DEFINE t == transaction[o]
      <4>2. t \in Product!Commands /\ t.release \in Item /\ Moves(t)
        BY <1>1, <4>1, CommitMoves
      <4> HIDE DEF t
      <4>3. CASE t.kind = "approve"
        <5>1. Aside(t) = {} /\ product[t.release].state = "draft"
          BY <4>2, <4>3 DEF Aside, Moves
        <5>2. product'[a] = product[a]
          BY <1>1, <4>2, <5>1 DEF Moves
        <5> QED BY <1>1, <5>2
      <4>4. CASE t.kind # "approve"
        BY <4>2, <4>4 DEF Moves, Moved, Ahead
      <4> QED BY <4>3, <4>4
    <3> QED BY <3>1, <3>2
  <2>3. OneActive(product')
    BY <2>1 DEF ProductInv, OneActive
  <2>4. Product!ActiveIn(product') = {b}
    BY <2>2, <2>3 DEF Product!ActiveIn, OneActive
  <2>5. Cardinality({b}) = 1
    BY FS_Singleton
  <2> QED BY <2>4, <2>5, Counting
<1>2. ProductInv /\ [Product!Next]_(Product!vars) =>
        [Product!ActiveIn(product) # {} =>
           Product!Cardinality(Product!ActiveIn(product')) = 1]_(Product!vars)
  BY <1>1 DEF Product!ActiveIn
<1> QED BY <1>2, ProductInvariance, PTL DEF Product!Spec, Product!MarketStaysServed

-----------------------------------------------------------------------------
(* The ledger of cloud extractions.                                        *)

\* The rows of the ledger, under names of their own.
Claimed == [doc : Papers, fence : Nat]
ReconcilerSteps == {"off", "find", "ask", "observe", "extract", "write", "transient", "permanent"}
ReconcilerRow ==
  [step : ReconcilerSteps, batch : Seq(Claimed), seen : Ledger!OperationState \cup {Nil}]
DispatcherRow == [doc : Papers, step : {"reserve", "post", "record"}]
OperationRow == [starts : Nat, state : Ledger!OperationState]
ClaimRow == [fence : Nat, held : BOOLEAN, lapsed : BOOLEAN]
FailureRow == [attempt : Nat, disposition : {"none", "backoff", "due", "quarantined"}]
LedgerTypes ==
  /\ submission \in [Papers -> {"none", "reserved", "submitted"}]
  /\ operation \in [Papers -> OperationRow]
  /\ dispatcher \in [Actor -> DispatcherRow \cup {Nil}]
  /\ claim \in [Papers -> ClaimRow]
  /\ observed \in [Papers -> Ledger!OperationState]
  /\ extracted \subseteq Papers
  /\ failure \in [Papers -> FailureRow]

\* One dispatcher at a time is about to call the provider for a document, after it
\* reserved the row and before the document was ever started.
PostInv ==
  /\ \A x \in Actor : Ledger!AtStep(x, "post") =>
       submission[Ledger!Doc(x)] # "none" /\ operation[Ledger!Doc(x)].starts = 0
  /\ \A x, y \in Actor : Ledger!AtStep(x, "post") /\ Ledger!AtStep(y, "post")
                           /\ Ledger!Doc(x) = Ledger!Doc(y) => x = y
  /\ \A x \in Actor : Ledger!AtStep(x, "record") => submission[Ledger!Doc(x)] # "none"
  /\ \A d \in Papers : /\ operation[d].starts <= 1
                       /\ operation[d].starts = 0 <=> operation[d].state = "absent"
                       /\ operation[d].starts > 0 => submission[d] # "none"

\* Whoever holds a claim holds it of a document of which nothing is final yet.
EvidenceInv ==
  /\ \A d \in Papers : observed[d] \in Ledger!Terminal => operation[d].state = observed[d]
  /\ \A d \in extracted : observed[d] = "succeeded" /\ failure[d].disposition # "quarantined"
  /\ \A d \in Papers : claim[d].held =>
       /\ d \notin extracted /\ observed[d] # "failed"
       /\ failure[d].disposition \notin {"backoff", "quarantined"}
  /\ \A d \in Papers : d \in extracted \/ observed[d] = "failed" =>
       failure[d].disposition # "backoff"

\* What a reconciler does next fits what is known of the document it is at.
ReconcilerFits(row, run, known) ==
  /\ row \in ReconcilerRow
  /\ row.step # "off" => row.batch # <<>>
  /\ row.step = "observe" =>
       /\ row.seen \in Ledger!OperationState
       /\ row.seen \in Ledger!Terminal => run[Head(row.batch).doc].state = row.seen
  /\ row.step \in {"extract", "write"} => known[Head(row.batch).doc] = "succeeded"
BatchInv ==
  /\ \A r \in Actor : ReconcilerFits(reconciler[r], operation, observed)
  /\ reconciler = [r \in Actor |-> reconciler[r]]
LedgerInv == LedgerTypes /\ PostInv /\ EvidenceInv /\ BatchInv

\* What is final stays.
Stands ==
  \A d \in Papers :
    /\ d \in extracted \/ Ledger!Quarantined(d) \/ observed[d] = "failed" =>
         failure'[d] = failure[d] /\ ((d \in extracted) <=> (d \in extracted'))
    /\ observed[d] \in Ledger!Terminal => observed'[d] = observed[d]
\* What a step must do.
LedgerKept == LedgerInv' /\ Stands

\* The document a reconciler is at.
LEMMA MinePaper ==
  ASSUME NEW r \in Actor, LedgerInv, reconciler[r].step # "off"
  PROVE  /\ Ledger!Mine(r) \in Papers /\ Ledger!Mine(r) = Head(reconciler[r].batch).doc
         /\ reconciler[r] \in ReconcilerRow /\ reconciler[r].batch # <<>>
         /\ reconciler[r].batch \in Seq(Claimed)
<1>1. ReconcilerFits(reconciler[r], operation, observed)
  BY DEF LedgerInv, BatchInv
<1>2. /\ reconciler[r] \in ReconcilerRow /\ reconciler[r].batch # <<>>
      /\ reconciler[r].batch \in Seq(Claimed)
  BY <1>1 DEF ReconcilerFits, ReconcilerRow
<1>3. Head(reconciler[r].batch) \in Claimed
  BY <1>2, HeadTailProperties
<1>4. Head(reconciler[r].batch).doc \in Papers
  BY <1>3 DEF Claimed
<1> QED BY <1>2, <1>4 DEF Ledger!Mine

\* What fits keeps fitting while operations and observations only come to their end.
LEMMA FitsStays ==
  ASSUME NEW row, NEW run, NEW known, NEW run2, NEW known2, ReconcilerFits(row, run, known),
         \A d \in Papers : run[d].state \in Ledger!Terminal => run2[d].state = run[d].state,
         \A d \in Papers : known[d] = "succeeded" => known2[d] = "succeeded"
  PROVE  ReconcilerFits(row, run2, known2)
<1>1. CASE row.step = "off"
  BY <1>1 DEF ReconcilerFits
<1>2. CASE row.step # "off"
  <2>1. row.batch \in Seq(Claimed) /\ row.batch # <<>>
    BY <1>2 DEF ReconcilerFits, ReconcilerRow
  <2>2. Head(row.batch) \in Claimed
    BY <2>1, HeadTailProperties
  <2>3. Head(row.batch).doc \in Papers
    BY <2>2 DEF Claimed
  <2> QED BY <2>1, <2>3 DEF ReconcilerFits
<1> QED BY <1>1, <1>2

\* The row of a reconciler that goes to a step with the document it is at.
LEMMA GoneTo ==
  ASSUME NEW r \in Actor, LedgerInv, reconciler[r].step # "off",
         NEW step \in ReconcilerSteps \ {"off"}, Ledger!Goto(r, step),
         step # "observe", step \in {"extract", "write"} => observed'[Ledger!Mine(r)] = "succeeded"
  PROVE  \E row : /\ reconciler' = [reconciler EXCEPT ![r] = row]
                  /\ ReconcilerFits(row, operation', observed')
<1> DEFINE row == [reconciler[r] EXCEPT !.step = step]
<1>1. /\ reconciler[r] \in ReconcilerRow /\ reconciler[r].batch # <<>>
      /\ Ledger!Mine(r) = Head(reconciler[r].batch).doc
  BY MinePaper
<1>2. row \in ReconcilerRow /\ row.step = step /\ row.batch = reconciler[r].batch
  BY <1>1 DEF ReconcilerRow
<1>3. reconciler' = [reconciler EXCEPT ![r] = row]
  BY DEF Ledger!Goto
<1> HIDE DEF row
<1>4. ReconcilerFits(row, operation', observed')
  BY <1>1, <1>2 DEF ReconcilerFits
<1> QED BY <1>3, <1>4

\* The row of a reconciler that goes on with its batch.
LEMMA WentOn ==
  ASSUME NEW r \in Actor, LedgerInv, reconciler[r].step # "off", Ledger!NextDocument(r)
  PROVE  \E row : /\ reconciler' = [reconciler EXCEPT ![r] = row]
                  /\ ReconcilerFits(row, operation', observed')
<1> DEFINE batch == reconciler[r].batch
           next == [step |-> "find", batch |-> Tail(batch), seen |-> Nil]
           row == IF Len(batch) = 1 THEN Ledger!Off ELSE next
<1>1. batch \in Seq(Claimed) /\ batch # <<>>
  BY MinePaper
<1>2. Tail(batch) \in Seq(Claimed) /\ Len(Tail(batch)) = Len(batch) - 1 /\ Len(batch) \in Nat
      /\ Len(batch) > 0
  BY <1>1, HeadTailProperties, EmptySeq, LenProperties
<1>3. reconciler' = [reconciler EXCEPT ![r] = row]
  BY DEF Ledger!NextDocument
<1> HIDE DEF batch
<1>4. CASE Len(batch) = 1
  <2>1. row = Ledger!Off /\ Ledger!Off \in ReconcilerRow /\ Ledger!Off.step = "off"
    BY <1>4 DEF Ledger!Off, ReconcilerRow, ReconcilerSteps
  <2> QED BY <1>3, <2>1 DEF ReconcilerFits
<1>5. CASE Len(batch) # 1
  <2>1. Tail(batch) # <<>>
    <3> DEFINE rest == Tail(batch)
    <3>1. rest \in Seq(Claimed) /\ Len(rest) = Len(batch) - 1 /\ Len(batch) \in Nat
      BY <1>2
    <3> HIDE DEF rest
    <3>2. Len(rest) # 0
      BY <1>5, <3>1
    <3>3. rest # <<>>
      BY <3>1, <3>2, EmptySeq
    <3> QED BY <3>3 DEF rest
  <2>2. row = next /\ next \in ReconcilerRow /\ next.step = "find" /\ next.batch = Tail(batch)
    BY <1>2, <1>5 DEF ReconcilerRow, ReconcilerSteps
  <2> HIDE DEF next
  <2> QED BY <1>3, <2>1, <2>2 DEF ReconcilerFits
<1> QED BY <1>4, <1>5

\* The row of a reconciler that ends.
LEMMA DocumentEnded ==
  ASSUME NEW r \in Actor
  PROVE  ReconcilerFits(Ledger!Off, operation', observed')
<1>1. Ledger!Off \in ReconcilerRow /\ Ledger!Off.step = "off"
  BY DEF Ledger!Off, ReconcilerRow, ReconcilerSteps
<1> QED BY <1>1 DEF ReconcilerFits

\* A step of one reconciler that leaves the evidence sound keeps the invariant.
LEMMA ReconcilerKeeps ==
  ASSUME LedgerInv, NEW r \in Actor, UNCHANGED <<submission, dispatcher, operation>>,
         \E row : /\ reconciler' = [reconciler EXCEPT ![r] = row]
                  /\ ReconcilerFits(row, operation', observed'),
         claim' \in [Papers -> ClaimRow], observed' \in [Papers -> Ledger!OperationState],
         extracted' \subseteq Papers, failure' \in [Papers -> FailureRow],
         EvidenceInv', Stands
  PROVE  LedgerKept
<1>1. LedgerTypes'
  BY DEF LedgerInv, LedgerTypes
<1>2. PostInv'
  BY DEF LedgerInv, PostInv, Ledger!AtStep, Ledger!Doc
<1>3. BatchInv'
  <2>1. PICK row : reconciler' = [reconciler EXCEPT ![r] = row] /\ ReconcilerFits(row, operation', observed')
    OBVIOUS
  <2>2. ASSUME NEW q \in Actor PROVE ReconcilerFits(reconciler[q], operation', observed')
    <3>1. ReconcilerFits(reconciler[q], operation, observed)
      BY DEF LedgerInv, BatchInv
    <3>2. \A d \in Papers : observed[d] = "succeeded" => observed'[d] = "succeeded"
      BY DEF Stands, Ledger!Terminal
    <3> QED BY <3>1, <3>2, FitsStays
  <2>3. \A q \in Actor : reconciler'[q] = IF q = r THEN row ELSE reconciler[q]
    BY <2>1 DEF LedgerInv, BatchInv
  <2>4. reconciler' = [q \in Actor |-> reconciler'[q]]
    BY <2>1 DEF LedgerInv, BatchInv
  <2> QED BY <2>1, <2>2, <2>3, <2>4 DEF BatchInv
<1> QED BY <1>1, <1>2, <1>3 DEF LedgerKept, LedgerInv

\* A reconciler that writes nothing.
LEMMA LooksKeep ==
  ASSUME LedgerInv, NEW r \in Actor,
         UNCHANGED <<submission, dispatcher, operation, claim, observed, extracted, failure>>,
         \E row : /\ reconciler' = [reconciler EXCEPT ![r] = row]
                  /\ ReconcilerFits(row, operation', observed')
  PROVE  LedgerKept
<1>1. EvidenceInv' /\ Stands
  BY DEF LedgerInv, EvidenceInv, Stands
<1>2. /\ claim' \in [Papers -> ClaimRow] /\ observed' \in [Papers -> Ledger!OperationState]
      /\ extracted' \subseteq Papers /\ failure' \in [Papers -> FailureRow]
  BY DEF LedgerInv, LedgerTypes
<1> QED BY <1>1, <1>2, ReconcilerKeeps

\* A claim that is given back.
LEMMA Released ==
  ASSUME LedgerTypes, NEW r \in Actor, Ledger!Mine(r) \in Papers, Ledger!Release(r)
  PROVE  /\ claim' \in [Papers -> ClaimRow] /\ ~claim'[Ledger!Mine(r)].held
         /\ \A d \in Papers \ {Ledger!Mine(r)} : claim'[d] = claim[d]
<1> DEFINE m == Ledger!Mine(r)
           row == [claim[m] EXCEPT !.held = FALSE]
<1>1. row \in ClaimRow /\ row.held = FALSE
  BY DEF LedgerTypes, ClaimRow
<1>2. claim' = [claim EXCEPT ![m] = row]
  BY DEF Ledger!Release
<1> HIDE DEF row, m
<1>3. m \in Papers
  BY DEF m
<1>4. /\ claim' \in [Papers -> ClaimRow] /\ claim'[m] = row
      /\ \A d \in Papers \ {m} : claim'[d] = claim[d]
  BY <1>1, <1>2, <1>3 DEF LedgerTypes
<1> QED BY <1>1, <1>4 DEF m

LEMMA FindTerminalKeeps ==
  ASSUME LedgerInv, NEW r \in Actor, Ledger!FindTerminal(r)
  PROVE  LedgerKept
<1>1. reconciler[r].step # "off" /\ UNCHANGED <<submission, dispatcher, operation, claim, observed, extracted, failure>>
  BY DEF Ledger!FindTerminal, Ledger!At, Ledger!ledger
<1>2. \/ Ledger!Goto(r, "extract") /\ observed[Ledger!Mine(r)] = "succeeded"
      \/ Ledger!NextDocument(r) \/ Ledger!Goto(r, "ask")
  BY DEF Ledger!FindTerminal
<1>3. {"extract", "ask"} \subseteq ReconcilerSteps \ {"off"}
  BY DEF ReconcilerSteps
<1>4. \E row : /\ reconciler' = [reconciler EXCEPT ![r] = row]
               /\ ReconcilerFits(row, operation', observed')
  <2>1. CASE Ledger!Goto(r, "extract") /\ observed[Ledger!Mine(r)] = "succeeded"
    BY <1>1, <1>3, <2>1, GoneTo
  <2>2. CASE Ledger!NextDocument(r)
    BY <1>1, <2>2, WentOn
  <2>3. CASE Ledger!Goto(r, "ask")
    BY <1>1, <1>3, <2>3, GoneTo
  <2> QED BY <1>2, <2>1, <2>2, <2>3
<1> QED BY <1>1, <1>4, LooksKeep

LEMMA AskKeeps ==
  ASSUME LedgerInv, NEW r \in Actor, Ledger!Ask(r)
  PROVE  LedgerKept
<1>1. reconciler[r].step # "off" /\ UNCHANGED <<submission, dispatcher, operation, claim, observed, extracted, failure>>
  BY DEF Ledger!Ask, Ledger!At, Ledger!ledger
<1>2. {"transient", "permanent"} \subseteq ReconcilerSteps \ {"off"}
  BY DEF ReconcilerSteps
<1>3. CASE Ledger!Goto(r, "transient") \/ Ledger!Goto(r, "permanent")
  BY <1>1, <1>2, <1>3, GoneTo, LooksKeep
<1>4. CASE reconciler' = [reconciler EXCEPT ![r].step = "observe",
                                           ![r].seen = operation[Ledger!Mine(r)].state]
  <2> DEFINE found == operation[Ledger!Mine(r)].state
             asked == [reconciler[r] EXCEPT !.step = "observe"]
             row == [asked EXCEPT !.seen = found]
  <2>1. /\ reconciler[r] \in ReconcilerRow /\ reconciler[r].batch # <<>>
        /\ Ledger!Mine(r) = Head(reconciler[r].batch).doc /\ Ledger!Mine(r) \in Papers
    BY <1>1, MinePaper
  <2>2. found \in Ledger!OperationState
    BY <2>1 DEF LedgerInv, LedgerTypes, OperationRow
  <2>3. row \in ReconcilerRow /\ row.step = "observe" /\ row.seen = found
        /\ row.batch = reconciler[r].batch
    BY <2>1, <2>2 DEF ReconcilerRow, ReconcilerSteps
  <2>4. reconciler' = [reconciler EXCEPT ![r] = row]
    BY <1>4 DEF LedgerInv, BatchInv
  <2> HIDE DEF row
  <2>5. ReconcilerFits(row, operation', observed')
    BY <1>1, <2>1, <2>2, <2>3 DEF ReconcilerFits
  <2> QED BY <1>1, <2>4, <2>5, LooksKeep
<1> QED BY <1>3, <1>4 DEF Ledger!Ask

LEMMA ReadKeeps ==
  ASSUME LedgerInv, NEW r \in Actor, Ledger!Read(r)
  PROVE  LedgerKept
<1>1. reconciler[r].step = "extract" /\ UNCHANGED <<submission, dispatcher, operation, claim, observed, extracted, failure>>
  BY DEF Ledger!Read, Ledger!At, Ledger!ledger
<1>2. observed[Ledger!Mine(r)] = "succeeded"
  BY <1>1, MinePaper DEF LedgerInv, BatchInv, ReconcilerFits
<1>3. {"write", "transient", "permanent"} \subseteq ReconcilerSteps \ {"off"}
  BY DEF ReconcilerSteps
<1>4. CASE Ledger!NextDocument(r)
  BY <1>1, <1>4, WentOn, LooksKeep
<1>5. CASE Ledger!Goto(r, "write") \/ Ledger!Goto(r, "transient") \/ Ledger!Goto(r, "permanent")
  BY <1>1, <1>2, <1>3, <1>5, GoneTo, LooksKeep
<1> QED BY <1>4, <1>5 DEF Ledger!Read, Ledger!FetchFailures, Ledger!ParseOutcomes

LEMMA CrashKeeps ==
  ASSUME LedgerInv, NEW r \in Actor, Ledger!ReconcilerCrash(r)
  PROVE  LedgerKept
<1>1. reconciler' = [reconciler EXCEPT ![r] = Ledger!Off]
      /\ UNCHANGED <<submission, dispatcher, operation, claim, observed, extracted, failure>>
  BY DEF Ledger!ReconcilerCrash, Ledger!ledger
<1> QED BY <1>1, DocumentEnded, LooksKeep

\* A write that lost its claim, or whose lease is over, writes nothing.
LEMMA LostKeeps ==
  ASSUME LedgerInv, NEW r \in Actor, reconciler[r].step # "off",
         Ledger!Goto(r, "permanent") \/ Ledger!Goto(r, "transient"),
         UNCHANGED <<submission, dispatcher, operation, claim, observed, extracted, failure>>
  PROVE  LedgerKept
<1>1. {"transient", "permanent"} \subseteq ReconcilerSteps \ {"off"}
  BY DEF ReconcilerSteps
<1> QED BY <1>1, GoneTo, LooksKeep

\* The operation's end is recorded under the claim, and the claim is given back unless
\* there is an extraction to record.
LEMMA ObserveKeeps ==
  ASSUME LedgerInv, NEW r \in Actor, Ledger!Observe(r)
  PROVE  LedgerKept
<1> DEFINE d == Ledger!Mine(r)
           found == reconciler[r].seen
<1>1. /\ reconciler[r].step = "observe" /\ d \in Papers
      /\ found \in Ledger!OperationState
      /\ found \in Ledger!Terminal => operation[d].state = found
      /\ UNCHANGED <<submission, dispatcher, operation, failure>>
  <2>1. reconciler[r].step = "observe" /\ UNCHANGED <<submission, dispatcher, operation, failure>>
    BY DEF Ledger!Observe, Ledger!At, Ledger!ledger
  <2> QED BY <2>1, MinePaper DEF LedgerInv, BatchInv, ReconcilerFits
<1>2. {"extract", "permanent"} \subseteq ReconcilerSteps \ {"off"}
  BY DEF ReconcilerSteps
<1>3. CASE observed[d] \in Ledger!Terminal
  <2>1. UNCHANGED <<claim, observed, extracted>>
    BY <1>3 DEF Ledger!Observe
  <2>2. \/ Ledger!Goto(r, "permanent") \/ Ledger!NextDocument(r)
        \/ Ledger!Goto(r, "extract") /\ observed[d] = "succeeded"
    BY <1>3 DEF Ledger!Observe
  <2>3. \E row : /\ reconciler' = [reconciler EXCEPT ![r] = row]
                 /\ ReconcilerFits(row, operation', observed')
    <3>1. CASE Ledger!Goto(r, "permanent")
      BY <1>1, <1>2, <3>1, GoneTo
    <3>2. CASE Ledger!NextDocument(r)
      BY <1>1, <3>2, WentOn
    <3>3. CASE Ledger!Goto(r, "extract") /\ observed[d] = "succeeded"
      BY <1>1, <1>2, <2>1, <3>3, GoneTo
    <3> QED BY <2>2, <3>1, <3>2, <3>3
  <2> QED BY <1>1, <2>1, <2>3, LooksKeep
<1>4. CASE observed[d] \notin Ledger!Terminal
  <2>0. Ledger!Guarded(r, /\ observed' = [observed EXCEPT ![d] = found]
                          /\ UNCHANGED extracted
                          /\ IF found = "succeeded" THEN Ledger!Goto(r, "extract") /\ UNCHANGED claim
                             ELSE Ledger!Release(r) /\ Ledger!NextDocument(r))
    BY <1>4 DEF Ledger!Observe
  <2>1. CASE ~Ledger!Owned(r) \/ claim[d].lapsed
    <3>1. Ledger!Goto(r, "permanent") \/ Ledger!Goto(r, "transient")
      BY <2>0, <2>1 DEF Ledger!Guarded
    <3>2. UNCHANGED <<claim, observed, extracted>>
      BY <2>0, <2>1 DEF Ledger!Guarded
    <3> QED BY <1>1, <3>1, <3>2, LostKeeps
  <2>2. CASE Ledger!Owned(r) /\ ~claim[d].lapsed
    <3>1. /\ observed' = [observed EXCEPT ![d] = found] /\ extracted' = extracted
          /\ \/ found = "succeeded" /\ Ledger!Goto(r, "extract") /\ UNCHANGED claim
             \/ found # "succeeded" /\ Ledger!Release(r) /\ Ledger!NextDocument(r)
      BY <2>0, <2>2 DEF Ledger!Guarded
    <3>2. claim[d].held
      BY <2>2 DEF Ledger!Owned
    <3>3. d \notin extracted /\ failure[d].disposition \notin {"backoff", "quarantined"}
          /\ observed[d] # "failed"
      BY <1>1, <3>2 DEF LedgerInv, EvidenceInv
    <3>4. /\ observed' \in [Papers -> Ledger!OperationState] /\ observed'[d] = found
          /\ \A e \in Papers \ {d} : observed'[e] = observed[e]
      BY <1>1, <3>1 DEF LedgerInv, LedgerTypes
    <3>5. /\ claim' \in [Papers -> ClaimRow]
          /\ found # "succeeded" => ~claim'[d].held
          /\ \A e \in Papers \ {d} : claim'[e] = claim[e]
      BY <1>1, <3>1, Released DEF LedgerInv, LedgerTypes
    <3>6. \E row : /\ reconciler' = [reconciler EXCEPT ![r] = row]
                   /\ ReconcilerFits(row, operation', observed')
      <4>1. CASE found = "succeeded" /\ Ledger!Goto(r, "extract")
        BY <1>1, <1>2, <3>4, <4>1, GoneTo
      <4>2. CASE Ledger!NextDocument(r)
        BY <1>1, <4>2, WentOn
      <4> QED BY <3>1, <4>1, <4>2
    <3> HIDE DEF d, found
    <3>7. Stands
      BY <1>1, <1>4, <3>1, <3>4 DEF Stands
    <3>8. EvidenceInv'
      <4>1. \A e \in Papers : observed'[e] \in Ledger!Terminal => operation'[e].state = observed'[e]
        BY <1>1, <3>4 DEF LedgerInv, EvidenceInv
      <4>2. \A e \in extracted' : observed'[e] = "succeeded" /\ failure'[e].disposition # "quarantined"
        BY <1>1, <3>1, <3>3, <3>4 DEF LedgerInv, LedgerTypes, EvidenceInv
      <4>3. \A e \in Papers : claim'[e].held =>
              /\ e \notin extracted' /\ observed'[e] # "failed"
              /\ failure'[e].disposition \notin {"backoff", "quarantined"}
        BY <1>1, <3>1, <3>3, <3>4, <3>5 DEF LedgerInv, EvidenceInv
      <4>4. \A e \in Papers : e \in extracted' \/ observed'[e] = "failed" =>
              failure'[e].disposition # "backoff"
        BY <1>1, <3>1, <3>3, <3>4 DEF LedgerInv, EvidenceInv
      <4> QED BY <4>1, <4>2, <4>3, <4>4 DEF EvidenceInv
    <3>9. extracted' \subseteq Papers /\ failure' \in [Papers -> FailureRow]
      BY <1>1, <3>1 DEF LedgerInv, LedgerTypes
    <3> QED BY <1>1, <3>4, <3>5, <3>6, <3>7, <3>8, <3>9, ReconcilerKeeps
  <2> QED BY <2>1, <2>2
<1> QED BY <1>3, <1>4

\* The evidence is recorded under the claim, which is given back.
LEMMA WriteEvidenceKeeps ==
  ASSUME LedgerInv, NEW r \in Actor, Ledger!Write(r)
  PROVE  LedgerKept
<1> DEFINE d == Ledger!Mine(r)
<1>1. /\ reconciler[r].step = "write" /\ d \in Papers /\ observed[d] = "succeeded"
      /\ UNCHANGED <<submission, dispatcher, operation, failure>>
  <2>1. reconciler[r].step = "write" /\ UNCHANGED <<submission, dispatcher, operation, failure>>
    BY DEF Ledger!Write, Ledger!At, Ledger!ledger
  <2> QED BY <2>1, MinePaper DEF LedgerInv, BatchInv, ReconcilerFits
<1>2. CASE d \in extracted
  <2>1. Ledger!NextDocument(r) /\ UNCHANGED <<claim, observed, extracted>>
    BY <1>2 DEF Ledger!Write
  <2> QED BY <1>1, <2>1, WentOn, LooksKeep
<1>3. CASE d \notin extracted
  <2>0. Ledger!Guarded(r, /\ Ledger!EvidenceAdmitted(Ledger!Mine(r))
                          /\ extracted' = extracted \cup {Ledger!Mine(r)}
                          /\ Ledger!Release(r) /\ Ledger!NextDocument(r) /\ UNCHANGED observed)
    BY <1>3 DEF Ledger!Write
  <2>1. CASE ~Ledger!Owned(r) \/ claim[d].lapsed
    <3>1. Ledger!Goto(r, "permanent") \/ Ledger!Goto(r, "transient")
      BY <2>0, <2>1 DEF Ledger!Guarded
    <3>2. UNCHANGED <<claim, observed, extracted>>
      BY <2>0, <2>1 DEF Ledger!Guarded
    <3> QED BY <1>1, <3>1, <3>2, LostKeeps
  <2>2. CASE Ledger!Owned(r) /\ ~claim[d].lapsed
    <3>1. /\ extracted' = extracted \cup {d} /\ Ledger!Release(r) /\ Ledger!NextDocument(r)
          /\ observed' = observed
      BY <2>0, <2>2 DEF Ledger!Guarded
    <3>2. claim[d].held
      BY <2>2 DEF Ledger!Owned
    <3>3. failure[d].disposition \notin {"backoff", "quarantined"}
      BY <1>1, <3>2 DEF LedgerInv, EvidenceInv
    <3>4. /\ claim' \in [Papers -> ClaimRow] /\ ~claim'[d].held
          /\ \A e \in Papers \ {d} : claim'[e] = claim[e]
      BY <1>1, <3>1, Released DEF LedgerInv
    <3>5. \E row : /\ reconciler' = [reconciler EXCEPT ![r] = row]
                   /\ ReconcilerFits(row, operation', observed')
      BY <1>1, <3>1, WentOn
    <3> HIDE DEF d
    <3>6. Stands
      BY <1>1, <1>3, <3>1, <3>3 DEF Stands, Ledger!Quarantined
    <3>7. EvidenceInv'
      BY <1>1, <3>1, <3>3, <3>4 DEF LedgerInv, EvidenceInv
    <3>8. /\ extracted' \subseteq Papers /\ failure' \in [Papers -> FailureRow]
          /\ observed' \in [Papers -> Ledger!OperationState]
      BY <1>1, <3>1 DEF LedgerInv, LedgerTypes
    <3> QED BY <1>1, <3>4, <3>5, <3>6, <3>7, <3>8, ReconcilerKeeps
  <2> QED BY <2>1, <2>2
<1> QED BY <1>2, <1>3

\* A failure is recorded under the claim, of a document of which nothing is final yet.
LEMMA RecordFailureKeeps ==
  ASSUME LedgerInv, NEW r \in Actor, Ledger!RecordFailure(r)
  PROVE  LedgerKept
<1> DEFINE d == Ledger!Mine(r)
           Recorded == Ledger!Owned(r) /\ ~Ledger!Quarantined(d) /\ d \notin extracted
<1>1. /\ reconciler[r].step # "off" /\ d \in Papers
      /\ UNCHANGED <<submission, dispatcher, operation, observed, extracted>>
  <2>1. /\ reconciler[r].step # "off"
        /\ UNCHANGED <<submission, dispatcher, operation, observed, extracted>>
    BY DEF Ledger!RecordFailure, Ledger!At, Ledger!ledger
  <2> QED BY <2>1, MinePaper
<1>2. CASE ~Recorded
  <2>1. reconciler' = [reconciler EXCEPT ![r] = Ledger!Off] /\ UNCHANGED <<claim, failure>>
    BY <1>2 DEF Ledger!RecordFailure
  <2> QED BY <1>1, <2>1, DocumentEnded, LooksKeep
<1>3. CASE Recorded
  <2>1. PICK disposition \in {"backoff", "quarantined"} :
          /\ failure' = [failure EXCEPT ![d] = [attempt |-> failure[d].attempt + 1,
                                                disposition |-> disposition]]
          /\ Ledger!Release(r) /\ Ledger!NextDocument(r)
    BY <1>3 DEF Ledger!RecordFailure
  <2>2. claim[d].held
    BY <1>3 DEF Ledger!Owned
  <2>3. d \notin extracted /\ observed[d] # "failed" /\ ~Ledger!Quarantined(d)
    BY <1>1, <1>3, <2>2 DEF LedgerInv, EvidenceInv
  <2>4. /\ claim' \in [Papers -> ClaimRow] /\ ~claim'[d].held
        /\ \A e \in Papers \ {d} : claim'[e] = claim[e]
    BY <1>1, <2>1, Released DEF LedgerInv
  <2>5. \E row : /\ reconciler' = [reconciler EXCEPT ![r] = row]
                 /\ ReconcilerFits(row, operation', observed')
    BY <1>1, <2>1, WentOn
  <2> HIDE DEF d
  <2>6. /\ failure' \in [Papers -> FailureRow]
        /\ \A e \in Papers \ {d} : failure'[e] = failure[e]
    <3>1. [attempt |-> failure[d].attempt + 1, disposition |-> disposition] \in FailureRow
      BY <1>1, <2>1 DEF LedgerInv, LedgerTypes, FailureRow
    <3> QED BY <1>1, <2>1, <3>1 DEF LedgerInv, LedgerTypes
  <2>7. Stands
    BY <1>1, <2>3, <2>6 DEF Stands
  <2>8. EvidenceInv'
    BY <1>1, <2>3, <2>4, <2>6 DEF LedgerInv, LedgerTypes, EvidenceInv
  <2>9. extracted' \subseteq Papers /\ observed' \in [Papers -> Ledger!OperationState]
    BY <1>1 DEF LedgerInv, LedgerTypes
  <2> QED BY <1>1, <2>4, <2>5, <2>6, <2>7, <2>8, <2>9, ReconcilerKeeps
<1> QED BY <1>2, <1>3

\* The ledger counts as this module does, and takes the smaller of two numbers.
LEMMA LedgerCounts ==
  /\ \A S : Ledger!Cardinality(S) = Cardinality(S)
  /\ \A m, n \in Nat : Ledger!Min({m, n}) \in {m, n}
<1>1. \A S : Ledger!Cardinality(S) = Cardinality(S)
  BY DEF Cardinality, Ledger!Cardinality
<1>2. ASSUME NEW m \in Nat, NEW n \in Nat PROVE Ledger!Min({m, n}) \in {m, n}
  <2>1. \E x \in {m, n} : \A y \in {m, n} : x <= y
    <3>1. CASE m <= n
      BY <3>1
    <3>2. CASE ~(m <= n)
      BY <3>2
    <3> QED BY <3>1, <3>2
  <2>2. (CHOOSE x \in {m, n} : \A y \in {m, n} : x <= y) \in {m, n}
    BY <2>1
  <2> QED BY <2>2 DEF Ledger!Min
<1> QED BY <1>1, <1>2

\* Only documents of which nothing is final are claimed.
LEMMA ListKeeps ==
  ASSUME LedgerInv, NEW r \in Actor, Ledger!List(r)
  PROVE  LedgerKept
<1> DEFINE due == {d \in Papers : Ledger!Pending(d)}
           size == Ledger!Min({2, Ledger!Cardinality(due)})
<1>1. /\ due # {} /\ UNCHANGED <<submission, dispatcher, operation, observed, extracted, failure>>
  BY DEF Ledger!List, Ledger!ledger
<1>2. size \in Nat /\ size # 0
  <2>1. IsFiniteSet(Papers)
    BY ReleasesAssumption, FS_AddElement DEF Papers
  <2>2. IsFiniteSet(due)
    BY <2>1, FS_Subset
  <2>3. Cardinality(due) \in Nat /\ Cardinality(due) # 0
    BY <1>1, <2>2, FS_CardinalityType, FS_EmptySet
  <2> HIDE DEF due
  <2> QED BY <2>3, LedgerCounts
<1>3. PICK order \in [1..size -> due] :
        /\ claim' = [d \in Papers |->
             IF \E i \in 1..size : order[i] = d
             THEN [fence |-> claim[d].fence + 1, held |-> TRUE, lapsed |-> FALSE]
             ELSE claim[d]]
        /\ reconciler' = [reconciler EXCEPT ![r] =
             [step |-> "find", seen |-> Nil,
              batch |-> [i \in 1..size |-> [doc |-> order[i],
                                            fence |-> claim[order[i]].fence + 1]]]]
  BY DEF Ledger!List
<1> DEFINE batch == [i \in 1..size |-> [doc |-> order[i], fence |-> claim[order[i]].fence + 1]]
           row == [step |-> "find", seen |-> Nil, batch |-> batch]
<1>4. \A d \in due : /\ d \in Papers /\ d \notin extracted /\ observed[d] # "failed"
                     /\ failure[d].disposition \notin {"backoff", "quarantined"}
  <2>1. ASSUME NEW d \in due PROVE d \notin extracted
    <3>1. d \in extracted => observed[d] = "succeeded"
      BY DEF LedgerInv, EvidenceInv
    <3> QED BY <3>1 DEF Ledger!Pending
  <2> QED BY <2>1 DEF Ledger!Pending
<1> HIDE DEF due, size
<1>5. \A d \in Papers : claim[d] \in ClaimRow /\ claim[d].fence + 1 \in Nat
  BY DEF LedgerInv, LedgerTypes, ClaimRow
<1>6. batch \in Seq(Claimed) /\ batch # <<>>
  <2>1. \A i \in 1..size : [doc |-> order[i], fence |-> claim[order[i]].fence + 1] \in Claimed
    BY <1>3, <1>4, <1>5 DEF Claimed
  <2>2. batch \in [1..size -> Claimed]
    BY <2>1
  <2>3. batch \in Seq(Claimed)
    BY <1>2, <2>2, IsASeq
  <2>4. Len(batch) = size
    BY <1>2, <2>3, LenProperties
  <2> HIDE DEF batch
  <2> QED BY <1>2, <2>3, <2>4, EmptySeq
<1>7. \E new : reconciler' = [reconciler EXCEPT ![r] = new] /\ ReconcilerFits(new, operation', observed')
  <2>1. reconciler' = [reconciler EXCEPT ![r] = row]
    BY <1>3
  <2> HIDE DEF batch
  <2>2. row \in ReconcilerRow /\ row.step = "find" /\ row.batch = batch
    BY <1>6 DEF ReconcilerRow, ReconcilerSteps
  <2> HIDE DEF row
  <2> QED BY <1>6, <2>1, <2>2 DEF ReconcilerFits
<1>8. \A d \in Papers : claim'[d] \in ClaimRow
  <2>1. ASSUME NEW d \in Papers PROVE claim'[d] \in ClaimRow
    <3>1. [fence |-> claim[d].fence + 1, held |-> TRUE, lapsed |-> FALSE] \in ClaimRow
      BY <1>5 DEF ClaimRow
    <3>2. claim'[d] \in {claim[d], [fence |-> claim[d].fence + 1, held |-> TRUE, lapsed |-> FALSE]}
      BY <1>3
    <3> QED BY <1>5, <3>1, <3>2
  <2> QED BY <2>1
<1>9. \A d \in Papers : d \in due \/ claim'[d] = claim[d]
  BY <1>3
<1>10. claim' \in [Papers -> ClaimRow]
  BY <1>3, <1>8
<1>11. Stands
  BY <1>1 DEF Stands
<1>12. EvidenceInv'
  BY <1>1, <1>4, <1>9 DEF LedgerInv, EvidenceInv
<1>13. /\ extracted' \subseteq Papers /\ failure' \in [Papers -> FailureRow]
       /\ observed' \in [Papers -> Ledger!OperationState]
  BY <1>1 DEF LedgerInv, LedgerTypes
<1> QED BY <1>1, <1>7, <1>10, <1>11, <1>12, <1>13, ReconcilerKeeps

-----------------------------------------------------------------------------

\* A step of a dispatcher or of the provider, which leaves what is final.
LEMMA ProviderKeeps ==
  ASSUME LedgerInv, UNCHANGED <<claim, observed, extracted, failure, reconciler>>,
         submission' \in [Papers -> {"none", "reserved", "submitted"}],
         operation' \in [Papers -> OperationRow],
         dispatcher' \in [Actor -> DispatcherRow \cup {Nil}],
         \A d \in Papers : operation[d].state \in Ledger!Terminal =>
           operation'[d].state = operation[d].state,
         PostInv'
  PROVE  LedgerKept
<1>1. LedgerTypes' /\ Stands
  BY DEF LedgerInv, LedgerTypes, Stands
<1>2. EvidenceInv'
  BY DEF LedgerInv, EvidenceInv
<1>3. ASSUME NEW r \in Actor PROVE ReconcilerFits(reconciler[r], operation', observed')
  BY FitsStays DEF LedgerInv, BatchInv
<1>4. BatchInv'
  BY <1>3 DEF LedgerInv, BatchInv
<1> QED BY <1>1, <1>2, <1>4 DEF LedgerKept, LedgerInv

\* A dispatcher that ends.
LEMMA EndDocumentKeeps ==
  ASSUME LedgerInv, NEW x \in Actor, Ledger!End(x),
         UNCHANGED <<submission, operation, claim, observed, extracted, failure, reconciler>>
  PROVE  LedgerKept
<1>1. /\ dispatcher' \in [Actor -> DispatcherRow \cup {Nil}] /\ dispatcher'[x] = Nil
      /\ \A y \in Actor \ {x} : dispatcher'[y] = dispatcher[y]
  BY DEF Ledger!End, LedgerInv, LedgerTypes
<1>2. PostInv'
  BY <1>1 DEF LedgerInv, PostInv, Ledger!AtStep, Ledger!Doc
<1>3. /\ submission' \in [Papers -> {"none", "reserved", "submitted"}]
      /\ operation' \in [Papers -> OperationRow]
  BY DEF LedgerInv, LedgerTypes
<1> QED BY <1>1, <1>2, <1>3, ProviderKeeps

\* The row of a dispatcher that goes on with its document.
LEMMA Continued ==
  ASSUME LedgerTypes, NEW x \in Actor, NEW step \in {"reserve", "post", "record"},
         dispatcher[x] # Nil, Ledger!Continue(x, step)
  PROVE  /\ dispatcher' \in [Actor -> DispatcherRow \cup {Nil}]
         /\ dispatcher'[x].doc = dispatcher[x].doc /\ dispatcher'[x].step = step
         /\ dispatcher[x] \in DispatcherRow
         /\ \A y \in Actor \ {x} : dispatcher'[y] = dispatcher[y]
<1> DEFINE row == [dispatcher[x] EXCEPT !.step = step]
<1>1. dispatcher[x] \in DispatcherRow
  BY DEF LedgerTypes
<1>2. row \in DispatcherRow /\ row.doc = dispatcher[x].doc /\ row.step = step
  BY <1>1 DEF DispatcherRow
<1>3. dispatcher' = [dispatcher EXCEPT ![x] = row]
  BY DEF Ledger!Continue
<1> HIDE DEF row
<1> QED BY <1>1, <1>2, <1>3 DEF LedgerTypes

LEMMA FindKeeps ==
  ASSUME LedgerInv, NEW x \in Actor, NEW d \in Papers, Ledger!Find(x, d)
  PROVE  LedgerKept
<1> DEFINE row == [doc |-> d, step |-> "reserve"]
<1>1. row \in DispatcherRow /\ row.step = "reserve"
  BY DEF DispatcherRow
<1>2. dispatcher' = [dispatcher EXCEPT ![x] = row]
      /\ UNCHANGED <<submission, operation, claim, observed, extracted, failure, reconciler>>
  BY DEF Ledger!Find, Ledger!evidence
<1> HIDE DEF row
<1>3. /\ dispatcher' \in [Actor -> DispatcherRow \cup {Nil}] /\ dispatcher'[x] = row
      /\ \A y \in Actor \ {x} : dispatcher'[y] = dispatcher[y]
  BY <1>1, <1>2 DEF LedgerInv, LedgerTypes
<1>4. PostInv'
  BY <1>1, <1>2, <1>3 DEF LedgerInv, PostInv, Ledger!AtStep, Ledger!Doc
<1>5. /\ submission' \in [Papers -> {"none", "reserved", "submitted"}]
      /\ operation' \in [Papers -> OperationRow]
  BY <1>2 DEF LedgerInv, LedgerTypes
<1> QED BY <1>2, <1>3, <1>4, <1>5, ProviderKeeps

\* Who reserves a row is the only one to call the provider for its document, which was
\* never started.
LEMMA ReserveKeeps ==
  ASSUME LedgerInv, NEW x \in Actor, Ledger!Reserve(x)
  PROVE  LedgerKept
<1>1. /\ dispatcher[x] # Nil /\ dispatcher[x].step = "reserve"
      /\ UNCHANGED <<operation, claim, observed, extracted, failure, reconciler>>
  BY DEF Ledger!Reserve, Ledger!AtStep, Ledger!evidence
<1>2. CASE Ledger!End(x) /\ UNCHANGED submission
  BY <1>1, <1>2, EndDocumentKeeps
<1>3. CASE ~(Ledger!End(x) /\ UNCHANGED submission)
  <2> DEFINE d == dispatcher[x].doc
  <2>1. /\ submission[d] = "none" /\ submission' = [submission EXCEPT ![d] = "reserved"]
        /\ Ledger!Continue(x, "post")
    BY <1>3 DEF Ledger!Reserve, Ledger!Doc
  <2>2. /\ dispatcher' \in [Actor -> DispatcherRow \cup {Nil}]
        /\ dispatcher'[x].doc = d /\ dispatcher'[x].step = "post" /\ d \in Papers
        /\ \A y \in Actor \ {x} : dispatcher'[y] = dispatcher[y]
    BY <1>1, <2>1, Continued DEF LedgerInv, DispatcherRow
  <2> HIDE DEF d
  <2>3. /\ submission' \in [Papers -> {"none", "reserved", "submitted"}]
        /\ submission'[d] = "reserved" /\ \A e \in Papers \ {d} : submission'[e] = submission[e]
    BY <2>1, <2>2 DEF LedgerInv, LedgerTypes
  <2>4. operation[d].starts = 0
    <3>1. operation[d].starts \in Nat
      BY <2>2 DEF LedgerInv, LedgerTypes, OperationRow
    <3> QED BY <2>1, <2>2, <3>1 DEF LedgerInv, PostInv
  <2>5. PostInv'
    <3>1. \A y \in Actor \ {x} : Ledger!AtStep(y, "post") => Ledger!Doc(y) # d
      BY <2>1 DEF LedgerInv, PostInv
    <3>2. ASSUME NEW y \in Actor, Ledger!AtStep(y, "post")'
          PROVE  submission'[Ledger!Doc(y)'] # "none" /\ operation'[Ledger!Doc(y)'].starts = 0
      <4>1. CASE y = x
        BY <1>1, <2>2, <2>3, <2>4, <4>1 DEF Ledger!Doc
      <4>2. CASE y # x
        <5>1. Ledger!AtStep(y, "post") /\ Ledger!Doc(y)' = Ledger!Doc(y) /\ dispatcher[y] \in DispatcherRow
          BY <2>2, <3>2, <4>2 DEF Ledger!AtStep, Ledger!Doc, LedgerInv, LedgerTypes
        <5>2. Ledger!Doc(y) \in Papers
          BY <5>1 DEF Ledger!Doc, DispatcherRow
        <5> QED BY <1>1, <2>3, <5>1, <5>2 DEF LedgerInv, PostInv
      <4> QED BY <4>1, <4>2
    <3>3. ASSUME NEW y \in Actor, NEW z \in Actor, Ledger!AtStep(y, "post")',
                 Ledger!AtStep(z, "post")', Ledger!Doc(y)' = Ledger!Doc(z)'
          PROVE  y = z
      BY <2>2, <3>1, <3>3 DEF LedgerInv, PostInv, Ledger!AtStep, Ledger!Doc
    <3>4. ASSUME NEW y \in Actor, Ledger!AtStep(y, "record")'
          PROVE  submission'[Ledger!Doc(y)'] # "none"
      <4>1. y # x
        BY <2>2, <3>4 DEF Ledger!AtStep
      <4>2. Ledger!AtStep(y, "record") /\ Ledger!Doc(y)' = Ledger!Doc(y) /\ dispatcher[y] \in DispatcherRow
        BY <2>2, <3>4, <4>1 DEF Ledger!AtStep, Ledger!Doc, LedgerInv, LedgerTypes
      <4>3. Ledger!Doc(y) \in Papers
        BY <4>2 DEF Ledger!Doc, DispatcherRow
      <4> QED BY <2>3, <4>2, <4>3 DEF LedgerInv, PostInv
    <3>5. \A e \in Papers : /\ operation'[e].starts <= 1
                            /\ operation'[e].starts = 0 <=> operation'[e].state = "absent"
                            /\ operation'[e].starts > 0 => submission'[e] # "none"
      BY <1>1, <2>3 DEF LedgerInv, PostInv
    <3> QED BY <3>2, <3>3, <3>4, <3>5 DEF PostInv
  <2>6. operation' \in [Papers -> OperationRow]
    BY <1>1 DEF LedgerInv, LedgerTypes
  <2> QED BY <1>1, <2>2, <2>3, <2>5, <2>6, ProviderKeeps
<1> QED BY <1>2, <1>3

\* The one call for a document starts it the first time.
LEMMA PostKeeps ==
  ASSUME LedgerInv, NEW x \in Actor, Ledger!Post(x)
  PROVE  LedgerKept
<1>1. /\ dispatcher[x] # Nil /\ dispatcher[x].step = "post"
      /\ UNCHANGED <<submission, claim, observed, extracted, failure, reconciler>>
  BY DEF Ledger!Post, Ledger!AtStep, Ledger!evidence
<1>2. CASE UNCHANGED operation /\ Ledger!End(x)
  BY <1>1, <1>2, EndDocumentKeeps
<1>3. CASE Ledger!Start(Ledger!Doc(x)) /\ (Ledger!Continue(x, "record") \/ Ledger!End(x))
  <2> DEFINE d == dispatcher[x].doc
             row == [starts |-> operation[d].starts + 1, state |-> "running"]
  <2>1. d \in Papers /\ operation[d] \in OperationRow
    BY <1>1 DEF LedgerInv, LedgerTypes, DispatcherRow
  <2>2. operation[d].starts = 0 /\ submission[d] # "none"
    BY <1>1 DEF LedgerInv, PostInv, Ledger!AtStep, Ledger!Doc
  <2>3. row \in OperationRow /\ row.starts = 1 /\ row.state = "running"
    BY <2>1, <2>2 DEF OperationRow, Ledger!OperationState
  <2>4. operation' = [operation EXCEPT ![d] = row]
    BY <1>3 DEF Ledger!Start, Ledger!Doc
  <2>5. /\ dispatcher' \in [Actor -> DispatcherRow \cup {Nil}]
        /\ dispatcher'[x] # Nil => dispatcher'[x].doc = d /\ dispatcher'[x].step = "record"
        /\ \A y \in Actor \ {x} : dispatcher'[y] = dispatcher[y]
    <3>1. CASE Ledger!Continue(x, "record")
      BY <1>1, <3>1, Continued DEF LedgerInv
    <3>2. CASE Ledger!End(x)
      BY <3>2 DEF Ledger!End, LedgerInv, LedgerTypes
    <3> QED BY <1>3, <3>1, <3>2
  <2>6. \A y \in Actor \ {x} : Ledger!AtStep(y, "post") => Ledger!Doc(y) # d
    BY <1>1 DEF LedgerInv, PostInv, Ledger!AtStep, Ledger!Doc
  <2> HIDE DEF d, row
  <2>7. /\ operation' \in [Papers -> OperationRow] /\ operation'[d] = row
        /\ \A e \in Papers \ {d} : operation'[e] = operation[e]
    BY <2>1, <2>3, <2>4 DEF LedgerInv, LedgerTypes
  <2>8. PostInv'
    <3>1. ASSUME NEW y \in Actor, Ledger!AtStep(y, "post")'
          PROVE  submission'[Ledger!Doc(y)'] # "none" /\ operation'[Ledger!Doc(y)'].starts = 0
      <4>1. y # x /\ Ledger!AtStep(y, "post") /\ Ledger!Doc(y)' = Ledger!Doc(y)
            /\ dispatcher[y] \in DispatcherRow
        BY <2>5, <3>1 DEF Ledger!AtStep, Ledger!Doc, LedgerInv, LedgerTypes
      <4>2. Ledger!Doc(y) \in Papers /\ Ledger!Doc(y) # d
        BY <2>6, <4>1 DEF Ledger!Doc, DispatcherRow
      <4> QED BY <1>1, <2>7, <4>1, <4>2 DEF LedgerInv, PostInv
    <3>2. ASSUME NEW y \in Actor, NEW z \in Actor, Ledger!AtStep(y, "post")',
                 Ledger!AtStep(z, "post")', Ledger!Doc(y)' = Ledger!Doc(z)'
          PROVE  y = z
      BY <2>5, <3>2 DEF LedgerInv, PostInv, Ledger!AtStep, Ledger!Doc
    <3>3. ASSUME NEW y \in Actor, Ledger!AtStep(y, "record")'
          PROVE  submission'[Ledger!Doc(y)'] # "none"
      BY <1>1, <2>2, <2>5, <3>3 DEF LedgerInv, PostInv, Ledger!AtStep, Ledger!Doc
    <3>4. \A e \in Papers : /\ operation'[e].starts <= 1
                            /\ operation'[e].starts = 0 <=> operation'[e].state = "absent"
                            /\ operation'[e].starts > 0 => submission'[e] # "none"
      BY <1>1, <2>2, <2>3, <2>7 DEF LedgerInv, PostInv
    <3> QED BY <3>1, <3>2, <3>3, <3>4 DEF PostInv
  <2>9. \A e \in Papers : operation[e].state \in Ledger!Terminal =>
          operation'[e].state = operation[e].state
    BY <2>1, <2>2, <2>7 DEF LedgerInv, PostInv, Ledger!Terminal
  <2>10. submission' \in [Papers -> {"none", "reserved", "submitted"}]
    BY <1>1 DEF LedgerInv, LedgerTypes
  <2> QED BY <1>1, <2>5, <2>7, <2>8, <2>9, <2>10, ProviderKeeps
<1> QED BY <1>2, <1>3 DEF Ledger!Post

LEMMA RecordKeeps ==
  ASSUME LedgerInv, NEW x \in Actor, Ledger!Record(x)
  PROVE  LedgerKept
<1> DEFINE d == dispatcher[x].doc
<1>1. /\ dispatcher[x] # Nil /\ Ledger!End(x)
      /\ submission' = [submission EXCEPT ![d] = "submitted"]
      /\ UNCHANGED <<operation, claim, observed, extracted, failure, reconciler>>
  BY DEF Ledger!Record, Ledger!AtStep, Ledger!Doc, Ledger!evidence
<1> HIDE DEF d
<1>2. /\ submission' \in [Papers -> {"none", "reserved", "submitted"}]
      /\ \A e \in Papers : submission'[e] \in {submission[e], "submitted"}
  BY <1>1 DEF LedgerInv, LedgerTypes
<1>3. /\ dispatcher' \in [Actor -> DispatcherRow \cup {Nil}] /\ dispatcher'[x] = Nil
      /\ \A y \in Actor \ {x} : dispatcher'[y] = dispatcher[y]
  BY <1>1 DEF Ledger!End, LedgerInv, LedgerTypes
<1>4. PostInv'
  <2>1. \A e \in Papers : submission[e] # "none" => submission'[e] # "none"
    BY <1>2
  <2>2. \A y \in Actor : dispatcher'[y] # Nil => /\ dispatcher'[y] = dispatcher[y]
                                                 /\ dispatcher[y].doc \in Papers
    BY <1>3 DEF LedgerInv, LedgerTypes, DispatcherRow
  <2> QED BY <1>1, <2>1, <2>2 DEF LedgerInv, PostInv, Ledger!AtStep, Ledger!Doc
<1>5. operation' \in [Papers -> OperationRow]
  BY <1>1 DEF LedgerInv, LedgerTypes
<1> QED BY <1>1, <1>2, <1>3, <1>4, <1>5, ProviderKeeps

LEMMA CompleteKeeps ==
  ASSUME LedgerInv, Ledger!Complete
  PROVE  LedgerKept
<1>1. PICK d \in Papers, state \in Ledger!Terminal :
        operation[d].state = "running" /\ operation' = [operation EXCEPT ![d].state = state]
  BY DEF Ledger!Complete
<1> DEFINE row == [operation[d] EXCEPT !.state = state]
<1>2. operation[d] \in OperationRow
  BY DEF LedgerInv, LedgerTypes
<1>3. row \in OperationRow /\ row.state = state /\ row.starts = operation[d].starts
  BY <1>1, <1>2 DEF OperationRow, Ledger!Terminal, Ledger!OperationState
<1>4. operation' = [operation EXCEPT ![d] = row]
  BY <1>1
<1> HIDE DEF row
<1>5. /\ operation' \in [Papers -> OperationRow] /\ operation'[d] = row
      /\ \A e \in Papers \ {d} : operation'[e] = operation[e]
  BY <1>1, <1>3, <1>4 DEF LedgerInv, LedgerTypes
<1>6. UNCHANGED <<submission, dispatcher, claim, observed, extracted, failure, reconciler>>
  BY DEF Ledger!Complete, Ledger!ledger, Ledger!evidence
<1>7. \A e \in Papers : /\ operation'[e].starts = operation[e].starts
                        /\ operation'[e].state = "absent" <=> operation[e].state = "absent"
                        /\ operation[e].state \in Ledger!Terminal =>
                             operation'[e].state = operation[e].state
  BY <1>1, <1>3, <1>5 DEF Ledger!Terminal
<1>8. PostInv'
  <2>1. \A y \in Actor : dispatcher[y] # Nil => dispatcher[y].doc \in Papers
    BY DEF LedgerInv, LedgerTypes, DispatcherRow
  <2> QED BY <1>6, <1>7, <2>1 DEF LedgerInv, PostInv, Ledger!AtStep, Ledger!Doc
<1>9. /\ submission' \in [Papers -> {"none", "reserved", "submitted"}]
      /\ dispatcher' \in [Actor -> DispatcherRow \cup {Nil}]
  BY <1>6 DEF LedgerInv, LedgerTypes
<1> QED BY <1>5, <1>6, <1>7, <1>8, <1>9, ProviderKeeps

\* Time passes for a claim, or for a failure that waits.
LEMMA TimeKeeps ==
  ASSUME LedgerInv, Ledger!LapseClaim \/ Ledger!RetryDue
  PROVE  LedgerKept
<1>1. UNCHANGED <<submission, dispatcher, operation, observed, extracted, reconciler>>
  BY DEF Ledger!LapseClaim, Ledger!RetryDue, Ledger!ledger
<1>2. PostInv' /\ BatchInv'
  BY <1>1 DEF LedgerInv, PostInv, BatchInv, Ledger!AtStep, Ledger!Doc
<1>3. /\ claim' \in [Papers -> ClaimRow] /\ failure' \in [Papers -> FailureRow]
      /\ \A d \in Papers : claim'[d].held = claim[d].held
      /\ \A d \in Papers : \/ failure'[d] = failure[d]
                           \/ failure[d].disposition = "backoff" /\ failure'[d].disposition = "due"
  <2>1. CASE Ledger!LapseClaim
    <3>1. PICK d \in Papers : claim' = [claim EXCEPT ![d].lapsed = TRUE] /\ failure' = failure
      BY <2>1 DEF Ledger!LapseClaim
    <3> DEFINE row == [claim[d] EXCEPT !.lapsed = TRUE]
    <3>2. row \in ClaimRow /\ row.held = claim[d].held
      BY DEF LedgerInv, LedgerTypes, ClaimRow
    <3>3. claim' = [claim EXCEPT ![d] = row]
      BY <3>1
    <3> HIDE DEF row
    <3> QED BY <3>1, <3>2, <3>3 DEF LedgerInv, LedgerTypes
  <2>2. CASE Ledger!RetryDue
    <3>1. PICK d \in Papers : /\ failure[d].disposition = "backoff"
                              /\ failure' = [failure EXCEPT ![d].disposition = "due"]
                              /\ claim' = claim
      BY <2>2 DEF Ledger!RetryDue
    <3> DEFINE row == [failure[d] EXCEPT !.disposition = "due"]
    <3>2. row \in FailureRow /\ row.disposition = "due"
      BY DEF LedgerInv, LedgerTypes, FailureRow
    <3>3. failure' = [failure EXCEPT ![d] = row]
      BY <3>1
    <3> HIDE DEF row
    <3> QED BY <3>1, <3>2, <3>3 DEF LedgerInv, LedgerTypes
  <2> QED BY <2>1, <2>2
<1>4. \A d \in Papers : d \in extracted \/ Ledger!Quarantined(d) \/ observed[d] = "failed" =>
        failure'[d] = failure[d]
  BY <1>3 DEF LedgerInv, EvidenceInv, Ledger!Quarantined
<1>5. Stands
  BY <1>1, <1>4 DEF Stands
<1>6. EvidenceInv'
  <2>1. \A d \in Papers : failure'[d].disposition \in {"backoff", "quarantined"} => failure'[d] = failure[d]
    BY <1>3
  <2> QED BY <1>1, <1>3, <2>1 DEF LedgerInv, LedgerTypes, EvidenceInv
<1>7. LedgerTypes'
  BY <1>1, <1>3 DEF LedgerInv, LedgerTypes
<1> QED BY <1>2, <1>5, <1>6, <1>7 DEF LedgerKept, LedgerInv

\* Every step of the ledger keeps the invariant, and what is final.
LEMMA LedgerStep == LedgerInv /\ [Ledger!Next]_ledgerVars => LedgerKept
<1> SUFFICES ASSUME LedgerInv, [Ledger!Next]_ledgerVars PROVE LedgerKept
  OBVIOUS
<1>1. CASE UNCHANGED ledgerVars
  <2>1. UNCHANGED <<submission, operation, dispatcher, claim, observed, extracted, failure, reconciler>>
    BY <1>1 DEF ledgerVars
  <2>2. LedgerTypes' /\ PostInv' /\ EvidenceInv' /\ BatchInv'
    BY <2>1 DEF LedgerInv, LedgerTypes, PostInv, EvidenceInv, BatchInv, Ledger!AtStep, Ledger!Doc
  <2> QED BY <2>1, <2>2 DEF LedgerKept, LedgerInv, Stands
<1>2. ASSUME NEW x \in Actor,
             \/ \E d \in Papers : Ledger!Find(x, d)
             \/ Ledger!Reserve(x) \/ Ledger!Post(x) \/ Ledger!Record(x) \/ Ledger!DispatcherCrash(x)
      PROVE  LedgerKept
  <2>1. ASSUME Ledger!DispatcherCrash(x) PROVE LedgerKept
    BY <2>1, EndDocumentKeeps DEF Ledger!DispatcherCrash, Ledger!evidence
  <2> QED BY <1>2, <2>1, FindKeeps, ReserveKeeps, PostKeeps, RecordKeeps
<1>3. ASSUME NEW r \in Actor,
             \/ Ledger!List(r) \/ Ledger!FindTerminal(r) \/ Ledger!Ask(r) \/ Ledger!Observe(r)
             \/ Ledger!Read(r) \/ Ledger!Write(r) \/ Ledger!RecordFailure(r) \/ Ledger!ReconcilerCrash(r)
      PROVE  LedgerKept
  BY <1>3, ListKeeps, FindTerminalKeeps, AskKeeps, ObserveKeeps, ReadKeeps, WriteEvidenceKeeps,
     RecordFailureKeeps, CrashKeeps
<1>4. CASE Ledger!Complete \/ Ledger!LapseClaim \/ Ledger!RetryDue
  BY <1>4, CompleteKeeps, TimeKeeps
<1> QED BY <1>1, <1>2, <1>3, <1>4 DEF Ledger!Next

\* Initially nothing was reserved, started or claimed.
LEMMA LedgerStart == Ledger!Init => LedgerInv
<1> SUFFICES ASSUME Ledger!Init PROVE LedgerInv
  OBVIOUS
<1> DEFINE op == [starts |-> 0, state |-> "absent"]
           cl == [fence |-> 0, held |-> FALSE, lapsed |-> FALSE]
           fl == [attempt |-> 0, disposition |-> "none"]
<1>1. /\ op \in OperationRow /\ op.starts = 0 /\ op.state = "absent"
      /\ cl \in ClaimRow /\ cl.held = FALSE /\ fl \in FailureRow
      /\ Ledger!Off \in ReconcilerRow /\ Ledger!Off.step = "off"
      /\ "absent" \in Ledger!OperationState
  BY DEF OperationRow, ClaimRow, FailureRow, Ledger!OperationState, Ledger!Off, ReconcilerRow, ReconcilerSteps
<1>2. /\ submission = [d \in Papers |-> "none"] /\ extracted = {}
      /\ operation = [d \in Papers |-> op] /\ dispatcher = [x \in Actor |-> Nil]
      /\ claim = [d \in Papers |-> cl] /\ observed = [d \in Papers |-> "absent"]
      /\ failure = [d \in Papers |-> fl] /\ reconciler = [r \in Actor |-> Ledger!Off]
  BY DEF Ledger!Init
<1> HIDE DEF op, cl, fl
<1>3. LedgerTypes
  BY <1>1, <1>2 DEF LedgerTypes
<1>4. PostInv
  BY <1>1, <1>2 DEF PostInv, Ledger!AtStep
<1>5. EvidenceInv
  BY <1>1, <1>2 DEF EvidenceInv, Ledger!Terminal
<1>6. BatchInv
  BY <1>1, <1>2 DEF BatchInv, ReconcilerFits
<1> QED BY <1>3, <1>4, <1>5, <1>6 DEF LedgerInv

-----------------------------------------------------------------------------
(* The bounds of the ledger: one day's pages, the failures of a document,  *)
(* the documents of a batch.  What is counted is a set of units.           *)

\* What is counted of each document.
LEMMA UnitsAre ==
  ASSUME NEW f, NEW S, NEW u
  PROVE  u \in Ledger!UnitsOf(f, S) <=> \E d \in S : \E n \in 1..f[d] : u = <<d, n>>
BY DEF Ledger!UnitsOf

LEMMA PapersFinite == IsFiniteSet(Papers)
BY ReleasesAssumption, FS_AddElement DEF Papers

\* The product of two finite sets.
LEMMA Products ==
  ASSUME NEW S, IsFiniteSet(S), NEW T, IsFiniteSet(T)
  PROVE  IsFiniteSet(S \X T) /\ Cardinality(S \X T) = Cardinality(S) * Cardinality(T)
BY FS_Product

LEMMA UnitsFinite ==
  ASSUME NEW f \in [Papers -> Nat], NEW S \in SUBSET Papers
  PROVE  /\ IsFiniteSet(Ledger!UnitsOf(f, S))
         /\ Cardinality(Ledger!UnitsOf(f, S)) \in Nat
<1> DEFINE Of(d) == {d} \X (1..f[d])
           images == {Of(d) : d \in S}
           map == [d \in S |-> Of(d)]
<1>1. IsFiniteSet(S)
  BY PapersFinite, FS_Subset
<1>2. map \in Surjection(S, images)
  BY DEF Surjection
<1>3. IsFiniteSet(images)
  BY <1>1, <1>2, FS_Surjection
<1>4. \A T \in images : IsFiniteSet(T)
  <2>1. ASSUME NEW d \in S PROVE IsFiniteSet(Of(d))
    <3>0. f[d] \in Int /\ 1 \in Int
      OBVIOUS
    <3>1. IsFiniteSet({d}) /\ IsFiniteSet(1..f[d])
      BY <3>0, FS_Singleton, FS_Interval
    <3> QED BY <3>1, Products
  <2> QED BY <2>1, Zenon
<1>5. Ledger!UnitsOf(f, S) = UNION images
  BY DEF Ledger!UnitsOf
<1> HIDE DEF images
<1>6. IsFiniteSet(UNION images)
  BY <1>3, <1>4, FS_UNION
<1> QED BY <1>5, <1>6, FS_CardinalityType

\* The smaller of two numbers is neither's excess.
LEMMA LedgerMin == \A m, n \in Nat : Ledger!Min({m, n}) <= m
<1> SUFFICES ASSUME NEW m \in Nat, NEW n \in Nat PROVE Ledger!Min({m, n}) <= m
  OBVIOUS
<1>1. \E x \in {m, n} : \A y \in {m, n} : x <= y
  <2>1. CASE m <= n
    BY <2>1
  <2>2. CASE ~(m <= n)
    BY <2>2
  <2> QED BY <2>1, <2>2
<1>2. \A y \in {m, n} : (CHOOSE x \in {m, n} : \A z \in {m, n} : x <= z) <= y
  BY <1>1
<1> QED BY <1>2 DEF Ledger!Min

\* One document's units are as many as it has.
LEMMA UnitsOfOne ==
  ASSUME NEW d, NEW n \in Nat
  PROVE  IsFiniteSet({d} \X (1..n)) /\ Cardinality({d} \X (1..n)) = n
<1>1. IsFiniteSet({d}) /\ Cardinality({d}) = 1
  BY FS_Singleton
<1>2. IsFiniteSet(1..n) /\ Cardinality(1..n) = n
  BY FS_Interval
<1>3. /\ IsFiniteSet({d} \X (1..n))
      /\ Cardinality({d} \X (1..n)) = Cardinality({d}) * Cardinality(1..n)
  BY <1>1, <1>2, Products, Zenon
<1> QED BY <1>1, <1>2, <1>3

\* No document has more units than all together.
LEMMA UnitsBoundEach ==
  ASSUME NEW f \in [Papers -> Nat], NEW d \in Papers
  PROVE  f[d] <= Cardinality(Ledger!UnitsOf(f, Papers))
<1>1. {d} \X (1..f[d]) \subseteq Ledger!UnitsOf(f, Papers)
  BY DEF Ledger!UnitsOf
<1>2. IsFiniteSet(Ledger!UnitsOf(f, Papers))
  BY UnitsFinite
<1>3. Cardinality({d} \X (1..f[d])) <= Cardinality(Ledger!UnitsOf(f, Papers))
  BY <1>1, <1>2, FS_Subset
<1> QED BY <1>3, UnitsOfOne

LEMMA UnitsGrow ==
  ASSUME NEW f \in [Papers -> Nat], NEW S \in SUBSET Papers, NEW T \in SUBSET S
  PROVE  Cardinality(Ledger!UnitsOf(f, T)) <= Cardinality(Ledger!UnitsOf(f, S))
<1>1. Ledger!UnitsOf(f, T) \subseteq Ledger!UnitsOf(f, S)
  BY DEF Ledger!UnitsOf
<1>2. IsFiniteSet(Ledger!UnitsOf(f, S))
  BY UnitsFinite
<1> QED BY <1>1, <1>2, FS_Subset

\* A document more has its units more.
LEMMA OneDocumentMore ==
  ASSUME NEW f \in [Papers -> Nat], NEW S \in SUBSET Papers, NEW d \in Papers
  PROVE  Cardinality(Ledger!UnitsOf(f, S \cup {d})) <= Cardinality(Ledger!UnitsOf(f, S)) + f[d]
<1> DEFINE old == Ledger!UnitsOf(f, S)
           own == {d} \X (1..f[d])
<1>1. IsFiniteSet(old) /\ Cardinality(old) \in Nat
  BY UnitsFinite
<1>2. IsFiniteSet(own) /\ Cardinality(own) = f[d] /\ f[d] \in Nat
  BY UnitsOfOne
<1>3. Ledger!UnitsOf(f, S \cup {d}) = old \cup own
  BY DEF Ledger!UnitsOf
<1> HIDE DEF old, own
<1>4. Cardinality(old \cup own) = Cardinality(old) + Cardinality(own) - Cardinality(old \cap own)
  BY <1>1, <1>2, FS_Union
<1>5. Cardinality(old \cap own) \in Nat
  BY <1>1, FS_Intersection, FS_CardinalityType
<1>6. Cardinality(old \cup own) <= Cardinality(old) + f[d]
  BY <1>1, <1>2, <1>4, <1>5
<1> QED BY <1>3, <1>6 DEF old

\* One unit more of some documents.
LEMMA OneUnitMore ==
  ASSUME NEW f \in [Papers -> Nat], NEW g \in [Papers -> Nat], NEW T \in SUBSET Papers,
         \A d \in Papers : g[d] = IF d \in T THEN f[d] + 1 ELSE f[d]
  PROVE  Cardinality(Ledger!UnitsOf(g, Papers)) <= Cardinality(T) + Cardinality(Ledger!UnitsOf(f, Papers))
<1> DEFINE old == Ledger!UnitsOf(f, Papers)
           more == {<<d, g[d]>> : d \in T}
           map == [d \in T |-> <<d, g[d]>>]
<1>1. IsFiniteSet(old) /\ Cardinality(old) \in Nat
  BY UnitsFinite
<1>2. IsFiniteSet(T) /\ Cardinality(T) \in Nat
  BY PapersFinite, FS_Subset, FS_CardinalityType
<1>3. map \in Surjection(T, more)
  BY DEF Surjection
<1>4. IsFiniteSet(more) /\ Cardinality(more) <= Cardinality(T) /\ Cardinality(more) \in Nat
  BY <1>2, <1>3, FS_Surjection, FS_CardinalityType
<1>5. Ledger!UnitsOf(g, Papers) \subseteq old \cup more
  <2>1. ASSUME NEW u \in Ledger!UnitsOf(g, Papers) PROVE u \in old \cup more
    <3>0. PICK d \in Papers : \E n \in 1..g[d] : u = <<d, n>>
      BY <2>1, UnitsAre
    <3>1. PICK n \in 1..g[d] : u = <<d, n>>
      BY <3>0
    <3>2. CASE n \in 1..f[d]
      BY <3>1, <3>2, UnitsAre
    <3>3. CASE n \notin 1..f[d]
      <4>1. d \in T /\ n = g[d]
        BY <3>1, <3>3
      <4> QED BY <3>1, <4>1
    <3> QED BY <3>2, <3>3
  <2> QED BY <2>1
<1> HIDE DEF old, more
<1>6. /\ IsFiniteSet(old \cup more)
      /\ Cardinality(old \cup more) = Cardinality(old) + Cardinality(more) - Cardinality(old \cap more)
  BY <1>1, <1>4, FS_Union
<1>7. Cardinality(old \cap more) \in Nat
  BY <1>1, FS_Intersection, FS_CardinalityType
<1>8. Cardinality(Ledger!UnitsOf(g, Papers)) <= Cardinality(old \cup more)
  BY <1>5, <1>6, FS_Subset
<1>9. Cardinality(Ledger!UnitsOf(g, Papers)) \in Nat
  BY UnitsFinite
<1> QED BY <1>1, <1>2, <1>4, <1>6, <1>7, <1>8, <1>9 DEF old

\* What is bounded: the fences of all claims together, the failures of a document that may
\* fail again, the pages that are reserved, and a batch, which only a reconciler at work has.
Fences == [d \in Papers |-> claim[d].fence]
ReservedPapers == {d \in Papers : submission[d] # "none"}
FailuresBound ==
  \A d \in Papers : /\ failure[d].attempt <= MaxFailures
                    /\ ~Ledger!Quarantined(d) => failure[d].attempt < MaxFailures
BatchBound(row) == Len(row.batch) <= 2 /\ (row.step = "off" => row.batch = <<>>)
LedgerBounds ==
  /\ Cardinality(Ledger!UnitsOf(Fences, Papers)) <= MaxClaims
  /\ Cardinality(Ledger!UnitsOf(Pages, ReservedPapers)) <= 2
  /\ FailuresBound
  /\ \A r \in Actor : BatchBound(reconciler[r])

LEMMA PagesCounted == Pages \in [Papers -> Nat]
BY DEF Pages

LEMMA FencesCounted == LedgerTypes => Fences \in [Papers -> Nat]
BY DEF LedgerTypes, ClaimRow, Fences

\* Giving a claim back, and the lapse of its lease, leave its fence.
LEMMA ReleasedFence ==
  ASSUME LedgerTypes, NEW r \in Actor, Ledger!Mine(r) \in Papers, Ledger!Release(r)
  PROVE  \A d \in Papers : claim'[d].fence = claim[d].fence
<1> DEFINE m == Ledger!Mine(r)
           row == [claim[m] EXCEPT !.held = FALSE]
<1>1. row.fence = claim[m].fence
  BY DEF LedgerTypes, ClaimRow
<1>2. claim' = [claim EXCEPT ![m] = row]
  BY DEF Ledger!Release
<1> HIDE DEF row
<1> QED BY <1>1, <1>2 DEF LedgerTypes

\* Only a reconciler that lists documents raises fences.
LEMMA FencesStay ==
  ASSUME LedgerInv, Ledger!Next, \A r \in Actor : ~Ledger!List(r)
  PROVE  Fences' = Fences
<1> SUFFICES \A d \in Papers : claim'[d].fence = claim[d].fence
  BY DEF Fences
<1>1. CASE UNCHANGED claim
  BY <1>1
<1>2. ASSUME NEW r \in Actor, reconciler[r].step # "off", Ledger!Release(r)
      PROVE  \A d \in Papers : claim'[d].fence = claim[d].fence
  BY <1>2, MinePaper, ReleasedFence DEF LedgerInv
<1>3. ASSUME NEW x \in Actor, NEW d \in Papers,
             Ledger!Find(x, d) \/ Ledger!Reserve(x) \/ Ledger!Post(x) \/ Ledger!Record(x)
               \/ Ledger!DispatcherCrash(x)
      PROVE  UNCHANGED claim
  BY <1>3 DEF Ledger!Find, Ledger!Reserve, Ledger!Post, Ledger!Record, Ledger!DispatcherCrash,
     Ledger!evidence
<1>4. ASSUME NEW r \in Actor,
             Ledger!FindTerminal(r) \/ Ledger!Ask(r) \/ Ledger!Read(r) \/ Ledger!ReconcilerCrash(r)
      PROVE  UNCHANGED claim
  BY <1>4 DEF Ledger!FindTerminal, Ledger!Ask, Ledger!Read, Ledger!ReconcilerCrash
<1>5. ASSUME NEW r \in Actor, Ledger!Observe(r)
      PROVE  reconciler[r].step # "off" /\ (UNCHANGED claim \/ Ledger!Release(r))
  BY <1>5 DEF Ledger!Observe, Ledger!Guarded, Ledger!At
<1>6. ASSUME NEW r \in Actor, Ledger!Write(r)
      PROVE  reconciler[r].step # "off" /\ (UNCHANGED claim \/ Ledger!Release(r))
  BY <1>6 DEF Ledger!Write, Ledger!Guarded, Ledger!At
<1>7. ASSUME NEW r \in Actor, Ledger!RecordFailure(r)
      PROVE  reconciler[r].step # "off" /\ (UNCHANGED claim \/ Ledger!Release(r))
  BY <1>7 DEF Ledger!RecordFailure, Ledger!At
<1>8. CASE Ledger!Complete \/ Ledger!RetryDue
  BY <1>8, <1>1 DEF Ledger!Complete, Ledger!RetryDue, Ledger!evidence
<1>9. CASE Ledger!LapseClaim
  <2>1. PICK d \in Papers : claim' = [claim EXCEPT ![d].lapsed = TRUE]
    BY <1>9 DEF Ledger!LapseClaim
  <2> DEFINE row == [claim[d] EXCEPT !.lapsed = TRUE]
  <2>2. row.fence = claim[d].fence
    BY DEF LedgerInv, LedgerTypes, ClaimRow
  <2>3. claim' = [claim EXCEPT ![d] = row]
    BY <2>1
  <2> HIDE DEF row
  <2> QED BY <2>2, <2>3 DEF LedgerInv, LedgerTypes
<1>10. CASE \E x \in Actor : (\E d \in Papers : Ledger!Find(x, d)) \/ Ledger!Reserve(x)
               \/ Ledger!Post(x) \/ Ledger!Record(x) \/ Ledger!DispatcherCrash(x)
  <2>1. "long" \in Papers
    BY DEF Papers
  <2> QED BY <1>1, <1>3, <1>10, <2>1
<1>11. CASE \E r \in Actor : \/ Ledger!FindTerminal(r) \/ Ledger!Ask(r) \/ Ledger!Observe(r)
                             \/ Ledger!Read(r) \/ Ledger!Write(r) \/ Ledger!RecordFailure(r)
                             \/ Ledger!ReconcilerCrash(r)
  BY <1>1, <1>2, <1>4, <1>5, <1>6, <1>7, <1>11
<1> QED BY <1>8, <1>9, <1>10, <1>11 DEF Ledger!Next

\* A batch is claimed whole, within the bound.
LEMMA ListBounded ==
  ASSUME LedgerInv, NEW r \in Actor, Ledger!List(r)
  PROVE  /\ Cardinality(Ledger!UnitsOf(Fences', Papers)) <= MaxClaims
         /\ \E row : reconciler' = [reconciler EXCEPT ![r] = row] /\ BatchBound(row)
<1> DEFINE due == {d \in Papers : Ledger!Pending(d)}
           size == Ledger!Min({2, Ledger!Cardinality(due)})
<1>1. size \in Nat /\ size <= 2
  <2>1. IsFiniteSet(due)
    BY PapersFinite, FS_Subset
  <2>2. Cardinality(due) \in Nat
    BY <2>1, FS_CardinalityType
  <2> HIDE DEF due
  <2> QED BY <2>2, LedgerCounts, LedgerMin
<1>2. size + Cardinality(Ledger!UnitsOf(Fences, Papers)) <= MaxClaims
  BY LedgerCounts DEF Ledger!List, Fences
<1>3. PICK order \in [1..size -> due] :
        /\ claim' = [d \in Papers |->
             IF \E i \in 1..size : order[i] = d
             THEN [fence |-> claim[d].fence + 1, held |-> TRUE, lapsed |-> FALSE]
             ELSE claim[d]]
        /\ reconciler' = [reconciler EXCEPT ![r] =
             [step |-> "find", seen |-> Nil,
              batch |-> [i \in 1..size |-> [doc |-> order[i],
                                            fence |-> claim[order[i]].fence + 1]]]]
  BY DEF Ledger!List
<1> DEFINE T == {order[i] : i \in 1..size}
<1>4. T \in SUBSET Papers
  OBVIOUS
<1> HIDE DEF due, size
<1>5. Cardinality(T) <= size /\ Cardinality(T) \in Nat
  <2>1. order \in Surjection(1..size, T)
    BY DEF Surjection
  <2>2. ExistsSurjection(1..size, T)
    BY <2>1 DEF ExistsSurjection
  <2>3. IsFiniteSet(T)
    BY <1>4, PapersFinite, FS_Subset
  <2> QED BY <1>1, <2>2, <2>3, FS_SurjCardinalityBound, FS_CardinalityType
<1>6. Fences \in [Papers -> Nat]
  BY FencesCounted DEF LedgerInv
<1>7. /\ Fences' \in [Papers -> Nat]
      /\ \A d \in Papers : Fences'[d] = IF d \in T THEN Fences[d] + 1 ELSE Fences[d]
  <2>1. \A d \in Papers : claim'[d].fence = IF d \in T THEN claim[d].fence + 1 ELSE claim[d].fence
    BY <1>3
  <2>2. \A d \in Papers : claim[d].fence \in Nat
    BY DEF LedgerInv, LedgerTypes, ClaimRow
  <2> QED BY <2>1, <2>2 DEF Fences
<1> HIDE DEF T
<1>8. Cardinality(Ledger!UnitsOf(Fences', Papers))
        <= Cardinality(T) + Cardinality(Ledger!UnitsOf(Fences, Papers))
  BY <1>4, <1>6, <1>7, OneUnitMore
<1>9. /\ Cardinality(Ledger!UnitsOf(Fences', Papers)) \in Nat
      /\ Cardinality(Ledger!UnitsOf(Fences, Papers)) \in Nat
  BY <1>6, <1>7, UnitsFinite
<1>10. Cardinality(Ledger!UnitsOf(Fences', Papers)) <= MaxClaims
  BY <1>1, <1>2, <1>5, <1>8, <1>9, ReleasesAssumption
<1> DEFINE batch == [i \in 1..size |-> [doc |-> order[i], fence |-> claim[order[i]].fence + 1]]
           row == [step |-> "find", seen |-> Nil, batch |-> batch]
<1>11. BatchBound(row)
  <2>1. DOMAIN batch = 1..size /\ row.batch = batch /\ row.step = "find"
    OBVIOUS
  <2>2. batch \in Seq({batch[i] : i \in 1..size})
    BY <1>1, IsASeq
  <2>3. Len(batch) = size
    BY <1>1, <2>2, LenProperties
  <2> HIDE DEF batch, row
  <2> QED BY <1>1, <2>1, <2>3 DEF BatchBound
<1> QED BY <1>3, <1>10, <1>11

\* Only documents that may fail again fail again, and at the bound they do not.
LEMMA FailuresBounded ==
  ASSUME LedgerInv, LedgerBounds, Ledger!Next
  PROVE  FailuresBound'
<1>1. CASE UNCHANGED failure
  BY <1>1 DEF LedgerBounds, FailuresBound, Ledger!Quarantined
<1>2. CASE Ledger!RetryDue
  <2>1. PICK d \in Papers : /\ failure[d].disposition = "backoff"
                            /\ failure' = [failure EXCEPT ![d].disposition = "due"]
    BY <1>2 DEF Ledger!RetryDue
  <2> DEFINE row == [failure[d] EXCEPT !.disposition = "due"]
  <2>2. row.attempt = failure[d].attempt /\ row.disposition = "due"
    BY DEF LedgerInv, LedgerTypes, FailureRow
  <2>3. failure' = [failure EXCEPT ![d] = row]
    BY <2>1
  <2> HIDE DEF row
  <2> QED BY <2>1, <2>2, <2>3 DEF LedgerInv, LedgerTypes, LedgerBounds, FailuresBound, Ledger!Quarantined
<1>3. ASSUME NEW r \in Actor, Ledger!RecordFailure(r)
      PROVE  FailuresBound'
  <2> DEFINE d == Ledger!Mine(r)
             disposition == IF Ledger!At(r, "transient") /\ failure[d].attempt + 1 < MaxFailures
                            THEN "backoff" ELSE "quarantined"
             row == [attempt |-> failure[d].attempt + 1, disposition |-> disposition]
  <2>1. \/ UNCHANGED failure
        \/ failure' = [failure EXCEPT ![d] = row] /\ ~Ledger!Quarantined(d)
    BY <1>3 DEF Ledger!RecordFailure
  <2>2. d \in Papers
    BY <1>3, MinePaper DEF Ledger!RecordFailure, Ledger!At
  <2>3. failure[d].attempt \in Nat /\ MaxFailures \in Nat
    BY <2>2, ReleasesAssumption DEF LedgerInv, LedgerTypes, FailureRow
  <2>4. row.attempt = failure[d].attempt + 1
        /\ (row.disposition = "quarantined" \/ row.attempt < MaxFailures)
    OBVIOUS
  <2> HIDE DEF row, d
  <2>5. CASE failure' = [failure EXCEPT ![d] = row] /\ ~Ledger!Quarantined(d)
    <3>1. failure[d].attempt < MaxFailures
      BY <2>2, <2>5 DEF LedgerBounds, FailuresBound
    <3>2. row.attempt <= MaxFailures
      BY <2>3, <2>4, <3>1
    <3>3. /\ failure'[d] = row
          /\ \A e \in Papers \ {d} : failure'[e] = failure[e]
      BY <2>2, <2>5 DEF LedgerInv, LedgerTypes
    <3> QED BY <2>4, <3>2, <3>3 DEF LedgerBounds, FailuresBound, Ledger!Quarantined
  <2> QED BY <1>1, <2>1, <2>5
<1>4. ASSUME NEW x \in Actor, NEW d \in Papers,
             Ledger!Find(x, d) \/ Ledger!Reserve(x) \/ Ledger!Post(x) \/ Ledger!Record(x)
               \/ Ledger!DispatcherCrash(x)
      PROVE  UNCHANGED failure
  BY <1>4 DEF Ledger!Find, Ledger!Reserve, Ledger!Post, Ledger!Record, Ledger!DispatcherCrash,
     Ledger!evidence
<1>5. ASSUME NEW r \in Actor,
             Ledger!List(r) \/ Ledger!FindTerminal(r) \/ Ledger!Ask(r) \/ Ledger!Observe(r)
               \/ Ledger!Read(r) \/ Ledger!Write(r) \/ Ledger!ReconcilerCrash(r)
      PROVE  UNCHANGED failure
  BY <1>5 DEF Ledger!List, Ledger!FindTerminal, Ledger!Ask, Ledger!Observe, Ledger!Read,
     Ledger!Write, Ledger!ReconcilerCrash
<1>6. CASE Ledger!Complete \/ Ledger!LapseClaim
  BY <1>6, <1>1 DEF Ledger!Complete, Ledger!LapseClaim, Ledger!evidence
<1>7. CASE \E x \in Actor : (\E d \in Papers : Ledger!Find(x, d)) \/ Ledger!Reserve(x)
              \/ Ledger!Post(x) \/ Ledger!Record(x) \/ Ledger!DispatcherCrash(x)
  <2>1. "long" \in Papers
    BY DEF Papers
  <2> QED BY <1>1, <1>4, <1>7, <2>1
<1>8. CASE \E r \in Actor : \/ Ledger!List(r) \/ Ledger!FindTerminal(r) \/ Ledger!Ask(r)
                            \/ Ledger!Observe(r) \/ Ledger!Read(r) \/ Ledger!Write(r)
                            \/ Ledger!RecordFailure(r) \/ Ledger!ReconcilerCrash(r)
  BY <1>1, <1>3, <1>5, <1>8
<1> QED BY <1>2, <1>6, <1>7, <1>8 DEF Ledger!Next

\* A reconciler keeps its batch, goes on with the rest of it, or ends.
LEMMA BatchGoesOn ==
  ASSUME LedgerInv, LedgerBounds, NEW r \in Actor, reconciler[r].step # "off",
         \/ \E step \in ReconcilerSteps \ {"off"} : Ledger!Goto(r, step)
         \/ Ledger!NextDocument(r)
         \/ reconciler' = [reconciler EXCEPT ![r] = Ledger!Off]
  PROVE  \E row : reconciler' = [reconciler EXCEPT ![r] = row] /\ BatchBound(row)
<1> DEFINE batch == reconciler[r].batch
<1>1. /\ reconciler[r] \in ReconcilerRow /\ batch # <<>> /\ batch \in Seq(Claimed)
  BY MinePaper
<1>2. Len(batch) <= 2
  BY DEF LedgerBounds, BatchBound
<1>3. BatchBound(Ledger!Off)
  BY DEF BatchBound, Ledger!Off
<1>4. ASSUME NEW step \in ReconcilerSteps \ {"off"}, Ledger!Goto(r, step)
      PROVE  \E row : reconciler' = [reconciler EXCEPT ![r] = row] /\ BatchBound(row)
  <2> DEFINE row == [reconciler[r] EXCEPT !.step = step]
  <2>1. row.step = step /\ row.batch = batch
    BY <1>1 DEF ReconcilerRow
  <2>2. reconciler' = [reconciler EXCEPT ![r] = row]
    BY <1>4 DEF Ledger!Goto
  <2> HIDE DEF row
  <2> QED BY <1>2, <2>1, <2>2 DEF BatchBound
<1>5. CASE Ledger!NextDocument(r)
  <2> DEFINE next == [step |-> "find", batch |-> Tail(batch), seen |-> Nil]
             row == IF Len(batch) = 1 THEN Ledger!Off ELSE next
  <2>1. reconciler' = [reconciler EXCEPT ![r] = row]
    BY <1>5 DEF Ledger!NextDocument
  <2>2. Len(Tail(batch)) = Len(batch) - 1 /\ Len(batch) \in Nat
    BY <1>1, HeadTailProperties, EmptySeq, LenProperties
  <2>3. next.step = "find" /\ next.batch = Tail(batch)
    OBVIOUS
  <2> HIDE DEF batch, next
  <2>4. BatchBound(next)
    BY <1>2, <2>2, <2>3 DEF BatchBound
  <2> QED BY <1>3, <2>1, <2>4
<1> QED BY <1>3, <1>4, <1>5

LEMMA BatchesBounded ==
  ASSUME LedgerInv, LedgerBounds, Ledger!Next
  PROVE  \A r \in Actor : BatchBound(reconciler'[r])
<1>1. ASSUME NEW r \in Actor, \E row : reconciler' = [reconciler EXCEPT ![r] = row] /\ BatchBound(row)
      PROVE  \A q \in Actor : BatchBound(reconciler'[q])
  <2>1. PICK row : reconciler' = [reconciler EXCEPT ![r] = row] /\ BatchBound(row)
    BY <1>1
  <2> QED BY <2>1 DEF LedgerInv, BatchInv, LedgerBounds
<1>2. CASE UNCHANGED reconciler
  BY <1>2 DEF LedgerBounds
<1>3. ASSUME NEW x \in Actor, NEW d \in Papers,
             Ledger!Find(x, d) \/ Ledger!Reserve(x) \/ Ledger!Post(x) \/ Ledger!Record(x)
               \/ Ledger!DispatcherCrash(x)
      PROVE  UNCHANGED reconciler
  BY <1>3 DEF Ledger!Find, Ledger!Reserve, Ledger!Post, Ledger!Record, Ledger!DispatcherCrash,
     Ledger!evidence
<1>4. ASSUME NEW r \in Actor,
             Ledger!FindTerminal(r) \/ Ledger!Observe(r) \/ Ledger!Read(r) \/ Ledger!Write(r)
               \/ Ledger!RecordFailure(r) \/ Ledger!ReconcilerCrash(r)
      PROVE  /\ reconciler[r].step # "off"
             /\ \/ \E step \in ReconcilerSteps \ {"off"} : Ledger!Goto(r, step)
                \/ Ledger!NextDocument(r)
                \/ reconciler' = [reconciler EXCEPT ![r] = Ledger!Off]
  <2>1. {"find", "ask", "observe", "extract", "write", "transient", "permanent"}
          \subseteq ReconcilerSteps \ {"off"}
    BY DEF ReconcilerSteps
  <2>2. CASE Ledger!FindTerminal(r)
    BY <2>1, <2>2 DEF Ledger!FindTerminal, Ledger!At
  <2>3. CASE Ledger!Observe(r)
    BY <2>1, <2>3 DEF Ledger!Observe, Ledger!At, Ledger!Guarded
  <2>4. CASE Ledger!Read(r)
    BY <2>1, <2>4 DEF Ledger!Read, Ledger!At, Ledger!FetchFailures, Ledger!ParseOutcomes
  <2>5. CASE Ledger!Write(r)
    BY <2>1, <2>5 DEF Ledger!Write, Ledger!At, Ledger!Guarded
  <2>6. CASE Ledger!RecordFailure(r)
    BY <2>6 DEF Ledger!RecordFailure, Ledger!At
  <2>7. CASE Ledger!ReconcilerCrash(r)
    BY <2>7 DEF Ledger!ReconcilerCrash, Ledger!At
  <2> QED BY <1>4, <2>2, <2>3, <2>4, <2>5, <2>6, <2>7
<1>5. ASSUME NEW r \in Actor, Ledger!Ask(r)
      PROVE  \E row : reconciler' = [reconciler EXCEPT ![r] = row] /\ BatchBound(row)
  <2>1. reconciler[r].step # "off"
    BY <1>5 DEF Ledger!Ask, Ledger!At
  <2>2. CASE Ledger!Goto(r, "transient") \/ Ledger!Goto(r, "permanent")
    <3>1. {"transient", "permanent"} \subseteq ReconcilerSteps \ {"off"}
      BY DEF ReconcilerSteps
    <3> QED BY <2>1, <2>2, <3>1, BatchGoesOn
  <2>3. CASE reconciler' = [reconciler EXCEPT ![r].step = "observe",
                                              ![r].seen = operation[Ledger!Mine(r)].state]
    <3> DEFINE asked == [reconciler[r] EXCEPT !.step = "observe"]
               row == [asked EXCEPT !.seen = operation[Ledger!Mine(r)].state]
    <3>1. reconciler[r] \in ReconcilerRow
      BY <2>1, MinePaper
    <3>2. row.step = "observe" /\ row.batch = reconciler[r].batch
      BY <3>1 DEF ReconcilerRow
    <3>3. reconciler' = [reconciler EXCEPT ![r] = row]
      BY <2>3 DEF LedgerInv, BatchInv
    <3> HIDE DEF row
    <3> QED BY <3>2, <3>3 DEF LedgerBounds, BatchBound
  <2> QED BY <1>5, <2>2, <2>3 DEF Ledger!Ask
<1>6. CASE Ledger!Complete \/ Ledger!LapseClaim \/ Ledger!RetryDue
  BY <1>2, <1>6 DEF Ledger!Complete, Ledger!LapseClaim, Ledger!RetryDue, Ledger!evidence
<1>7. CASE \E x \in Actor : (\E d \in Papers : Ledger!Find(x, d)) \/ Ledger!Reserve(x)
              \/ Ledger!Post(x) \/ Ledger!Record(x) \/ Ledger!DispatcherCrash(x)
  <2>1. "long" \in Papers
    BY DEF Papers
  <2> QED BY <1>2, <1>3, <1>7, <2>1
<1>8. CASE \E r \in Actor : \/ Ledger!List(r) \/ Ledger!FindTerminal(r) \/ Ledger!Ask(r)
                            \/ Ledger!Observe(r) \/ Ledger!Read(r) \/ Ledger!Write(r)
                            \/ Ledger!RecordFailure(r) \/ Ledger!ReconcilerCrash(r)
  BY <1>1, <1>4, <1>5, <1>8, ListBounded, BatchGoesOn
<1> QED BY <1>6, <1>7, <1>8 DEF Ledger!Next

\* A document is reserved only within the day's pages.
LEMMA PagesBounded ==
  ASSUME LedgerInv, LedgerBounds, Ledger!Next
  PROVE  Cardinality(Ledger!UnitsOf(Pages, ReservedPapers')) <= 2
<1>1. CASE ReservedPapers' = ReservedPapers
  BY <1>1 DEF LedgerBounds
<1>2. CASE UNCHANGED submission
  BY <1>1, <1>2 DEF ReservedPapers
<1>3. ASSUME NEW x \in Actor, Ledger!Reserve(x)
      PROVE  Cardinality(Ledger!UnitsOf(Pages, ReservedPapers')) <= 2
  <2> DEFINE d == Ledger!Doc(x)
  <2>1. CASE UNCHANGED submission
    BY <1>2, <2>1
  <2>2. CASE ~UNCHANGED submission
    <3>1. /\ submission[d] = "none" /\ ~(Ledger!PagesReserved + Pages[d] > 2)
          /\ submission' = [submission EXCEPT ![d] = "reserved"]
      BY <1>3, <2>2 DEF Ledger!Reserve
    <3>2. d \in Papers
      BY <1>3 DEF Ledger!Reserve, Ledger!AtStep, Ledger!Doc, LedgerInv, LedgerTypes, DispatcherRow
    <3>3. Ledger!PagesReserved = Cardinality(Ledger!UnitsOf(Pages, ReservedPapers))
      BY LedgerCounts DEF Ledger!PagesReserved, ReservedPapers
    <3> HIDE DEF d
    <3>4. ReservedPapers' = ReservedPapers \cup {d}
      BY <3>1, <3>2 DEF ReservedPapers, LedgerInv, LedgerTypes
    <3>5. ReservedPapers \in SUBSET Papers /\ ReservedPapers \cup {d} \in SUBSET Papers
      BY <3>2 DEF ReservedPapers
    <3>6. Cardinality(Ledger!UnitsOf(Pages, ReservedPapers \cup {d}))
            <= Cardinality(Ledger!UnitsOf(Pages, ReservedPapers)) + Pages[d]
      BY <3>2, <3>5, PagesCounted, OneDocumentMore
    <3>7. /\ Cardinality(Ledger!UnitsOf(Pages, ReservedPapers \cup {d})) \in Nat
          /\ Cardinality(Ledger!UnitsOf(Pages, ReservedPapers)) \in Nat /\ Pages[d] \in Nat
      BY <3>2, <3>5, PagesCounted, UnitsFinite
    <3> QED BY <3>1, <3>3, <3>4, <3>6, <3>7
  <2> QED BY <2>1, <2>2
<1>4. ASSUME NEW x \in Actor, Ledger!Record(x)
      PROVE  ReservedPapers' = ReservedPapers
  <2> DEFINE d == Ledger!Doc(x)
  <2>1. submission' = [submission EXCEPT ![d] = "submitted"] /\ submission[d] # "none" /\ d \in Papers
    BY <1>4 DEF Ledger!Record, Ledger!AtStep, Ledger!Doc, LedgerInv, LedgerTypes, DispatcherRow, PostInv
  <2> HIDE DEF d
  <2> QED BY <2>1 DEF ReservedPapers, LedgerInv, LedgerTypes
<1>5. ASSUME NEW x \in Actor, NEW d \in Papers,
             Ledger!Find(x, d) \/ Ledger!Post(x) \/ Ledger!DispatcherCrash(x)
      PROVE  UNCHANGED submission
  BY <1>5 DEF Ledger!Find, Ledger!Post, Ledger!DispatcherCrash
<1>6. ASSUME NEW r \in Actor,
             Ledger!List(r) \/ Ledger!FindTerminal(r) \/ Ledger!Ask(r) \/ Ledger!Observe(r)
               \/ Ledger!Read(r) \/ Ledger!Write(r) \/ Ledger!RecordFailure(r) \/ Ledger!ReconcilerCrash(r)
      PROVE  UNCHANGED submission
  BY <1>6 DEF Ledger!List, Ledger!FindTerminal, Ledger!Ask, Ledger!Observe, Ledger!Read,
     Ledger!Write, Ledger!RecordFailure, Ledger!ReconcilerCrash, Ledger!ledger
<1>7. CASE Ledger!Complete \/ Ledger!LapseClaim \/ Ledger!RetryDue
  BY <1>2, <1>7 DEF Ledger!Complete, Ledger!LapseClaim, Ledger!RetryDue, Ledger!ledger
<1>8. CASE \E x \in Actor : (\E d \in Papers : Ledger!Find(x, d)) \/ Ledger!Reserve(x)
              \/ Ledger!Post(x) \/ Ledger!Record(x) \/ Ledger!DispatcherCrash(x)
  <2>1. "long" \in Papers
    BY DEF Papers
  <2> QED BY <1>1, <1>2, <1>3, <1>4, <1>5, <1>8, <2>1
<1>9. CASE \E r \in Actor : \/ Ledger!List(r) \/ Ledger!FindTerminal(r) \/ Ledger!Ask(r)
                            \/ Ledger!Observe(r) \/ Ledger!Read(r) \/ Ledger!Write(r)
                            \/ Ledger!RecordFailure(r) \/ Ledger!ReconcilerCrash(r)
  BY <1>2, <1>6, <1>9
<1> QED BY <1>7, <1>8, <1>9 DEF Ledger!Next

LEMMA BoundsStep == LedgerInv /\ LedgerBounds /\ [Ledger!Next]_ledgerVars => LedgerBounds'
<1> SUFFICES ASSUME LedgerInv, LedgerBounds, [Ledger!Next]_ledgerVars PROVE LedgerBounds'
  OBVIOUS
<1>1. CASE UNCHANGED ledgerVars
  <2>1. UNCHANGED <<submission, claim, failure, reconciler>>
    BY <1>1 DEF ledgerVars
  <2>2. UNCHANGED <<Fences, ReservedPapers>> /\ (FailuresBound <=> FailuresBound')
    BY <2>1 DEF Fences, ReservedPapers, FailuresBound, Ledger!Quarantined
  <2> QED BY <2>1, <2>2 DEF LedgerBounds
<1>2. CASE Ledger!Next
  <2>1. Cardinality(Ledger!UnitsOf(Fences', Papers)) <= MaxClaims
    <3>1. CASE \E r \in Actor : Ledger!List(r)
      BY <3>1, ListBounded
    <3>2. CASE \A r \in Actor : ~Ledger!List(r)
      <4>1. Fences' = Fences
        BY <1>2, <3>2, FencesStay
      <4> QED BY <4>1 DEF LedgerBounds
    <3> QED BY <3>1, <3>2
  <2> QED BY <1>2, <2>1, FailuresBounded, BatchesBounded, PagesBounded DEF LedgerBounds
<1> QED BY <1>1, <1>2

LEMMA BoundsStart == Ledger!Init => LedgerBounds
<1> SUFFICES ASSUME Ledger!Init PROVE LedgerBounds
  OBVIOUS
<1> DEFINE cl == [fence |-> 0, held |-> FALSE, lapsed |-> FALSE]
           fl == [attempt |-> 0, disposition |-> "none"]
<1>1. /\ submission = [d \in Papers |-> "none"] /\ claim = [d \in Papers |-> cl]
      /\ failure = [d \in Papers |-> fl] /\ reconciler = [r \in Actor |-> Ledger!Off]
  BY DEF Ledger!Init
<1>2. Ledger!UnitsOf(Fences, Papers) = {}
  <2>1. \A d \in Papers : Fences[d] = 0
    BY <1>1 DEF Fences
  <2>2. \A u : u \notin Ledger!UnitsOf(Fences, Papers)
    BY <2>1, UnitsAre
  <2> QED BY <2>2
<1>3. Ledger!UnitsOf(Pages, ReservedPapers) = {}
  <2>1. ReservedPapers = {}
    BY <1>1 DEF ReservedPapers
  <2>2. \A u : u \notin Ledger!UnitsOf(Pages, {})
    BY UnitsAre
  <2> QED BY <2>1, <2>2
<1>4. FailuresBound
  BY <1>1, ReleasesAssumption DEF FailuresBound, Ledger!Quarantined
<1>5. \A r \in Actor : BatchBound(reconciler[r])
  BY <1>1 DEF BatchBound, Ledger!Off
<1> QED BY <1>2, <1>3, <1>4, <1>5, FS_EmptySet, ReleasesAssumption DEF LedgerBounds

\* The rows have their types.
LEMMA LedgerTyped == LedgerInv /\ LedgerBounds => Ledger!TypeOK
<1> SUFFICES ASSUME LedgerInv, LedgerBounds PROVE Ledger!TypeOK
  OBVIOUS
<1>1. claim \in [Papers -> [fence : 0..MaxClaims, held : BOOLEAN, lapsed : BOOLEAN]]
  <2>1. ASSUME NEW d \in Papers
        PROVE  claim[d] \in [fence : 0..MaxClaims, held : BOOLEAN, lapsed : BOOLEAN]
    <3>1. claim[d] \in ClaimRow
      BY DEF LedgerInv, LedgerTypes
    <3>2. Fences[d] = claim[d].fence /\ Fences \in [Papers -> Nat]
      BY FencesCounted DEF LedgerInv, Fences
    <3>3. Fences[d] <= Cardinality(Ledger!UnitsOf(Fences, Papers))
      BY <3>2, UnitsBoundEach
    <3>4. Cardinality(Ledger!UnitsOf(Fences, Papers)) \in Nat
      BY <3>2, UnitsFinite
    <3>5. claim[d].fence \in 0..MaxClaims
      BY <3>1, <3>2, <3>3, <3>4, ReleasesAssumption DEF LedgerBounds, ClaimRow
    <3> QED BY <3>1, <3>5 DEF ClaimRow
  <2> QED BY <2>1 DEF LedgerInv, LedgerTypes
<1>2. failure \in [Papers -> [attempt : 0..MaxFailures,
                              disposition : {"none", "backoff", "due", "quarantined"}]]
  <2>1. ASSUME NEW d \in Papers
        PROVE  failure[d] \in [attempt : 0..MaxFailures,
                               disposition : {"none", "backoff", "due", "quarantined"}]
    <3>1. failure[d] \in FailureRow /\ failure[d].attempt <= MaxFailures
      BY DEF LedgerInv, LedgerTypes, LedgerBounds, FailuresBound
    <3> QED BY <3>1, ReleasesAssumption DEF FailureRow
  <2> QED BY <2>1 DEF LedgerInv, LedgerTypes
<1>3. \A r \in Actor : /\ Len(reconciler[r].batch) <= 2
                       /\ (reconciler[r].batch = <<>>) = (reconciler[r].step = "off")
  BY DEF LedgerBounds, BatchBound, LedgerInv, BatchInv, ReconcilerFits
<1> QED BY <1>1, <1>2, <1>3 DEF Ledger!TypeOK, LedgerInv, LedgerTypes, OperationRow, DispatcherRow

\* What was started was reserved.
LEMMA LedgerSound == LedgerInv /\ LedgerBounds => Ledger!SubmittedOnce /\ Ledger!EvidenceIsSound
<1> SUFFICES ASSUME LedgerInv, LedgerBounds PROVE Ledger!SubmittedOnce /\ Ledger!EvidenceIsSound
  OBVIOUS
<1> DEFINE started == {d \in Papers : operation[d].starts > 0}
<1>1. started \in SUBSET ReservedPapers
  BY DEF LedgerInv, PostInv, ReservedPapers
<1>2. ReservedPapers \in SUBSET Papers /\ started \in SUBSET Papers
  BY DEF ReservedPapers
<1> HIDE DEF started
<1>3. Cardinality(Ledger!UnitsOf(Pages, started)) <= Cardinality(Ledger!UnitsOf(Pages, ReservedPapers))
  BY <1>1, <1>2, PagesCounted, UnitsGrow
<1>4. /\ Cardinality(Ledger!UnitsOf(Pages, started)) \in Nat
      /\ Cardinality(Ledger!UnitsOf(Pages, ReservedPapers)) \in Nat
  BY <1>2, PagesCounted, UnitsFinite
<1>5. Ledger!Cardinality(Ledger!UnitsOf(Pages, started)) <= 2
  BY <1>3, <1>4, LedgerCounts DEF LedgerBounds
<1>6. \A d \in Papers : operation[d].starts <= 1
  BY DEF LedgerInv, PostInv
<1>7. Ledger!SubmittedOnce
  BY <1>5, <1>6 DEF Ledger!SubmittedOnce, started
<1>8. Ledger!EvidenceIsSound
  BY DEF LedgerInv, EvidenceInv, Ledger!EvidenceIsSound, Ledger!Quarantined
<1> QED BY <1>7, <1>8

-----------------------------------------------------------------------------

\* The invariant of the ledger.
THEOREM LedgerInvariance == Ledger!Spec => []LedgerInv
<1>1. LedgerInv /\ [Ledger!Next]_(Ledger!vars) => LedgerInv'
  BY LedgerStep DEF LedgerKept, Ledger!vars, ledgerVars
<1> QED BY <1>1, LedgerStart, PTL DEF Ledger!Spec

\* The provider runs each document at most once and within the day's pages, and the
\* ledger has evidence only of what the provider did.
THEOREM LedgerIsBounded == Ledger!Spec => [](LedgerInv /\ LedgerBounds)
<1>1. LedgerBounds /\ LedgerInv /\ [Ledger!Next]_(Ledger!vars) => LedgerBounds'
  BY BoundsStep DEF Ledger!vars, ledgerVars
<1> QED BY <1>1, BoundsStart, LedgerInvariance, PTL DEF Ledger!Spec

\* The provider runs a document at most once, however often its message is delivered
\* and whoever crashes.
StartedOnce == \A d \in Papers : operation[d].starts <= 1
THEOREM DocumentsStartOnce == Ledger!Spec => []StartedOnce
<1>1. LedgerInv => StartedOnce
  BY DEF LedgerInv, PostInv, StartedOnce
<1> QED BY <1>1, LedgerInvariance, PTL

\* Evidence exists only of an operation that succeeded.
THEOREM EvidenceSound == Ledger!Spec => []Ledger!EvidenceIsSound
<1>1. LedgerInv => Ledger!EvidenceIsSound
  BY DEF LedgerInv, EvidenceInv, Ledger!EvidenceIsSound, Ledger!Quarantined
<1> QED BY <1>1, LedgerInvariance, PTL

\* What a reconciler recorded as final stays.
THEOREM FinalRecordsStay == Ledger!Spec => Ledger!FinalStays
<1>1. LedgerInv /\ [Ledger!Next]_(Ledger!vars) =>
        [\A d \in Papers :
           /\ d \in extracted \/ Ledger!Quarantined(d) \/ observed[d] = "failed" =>
                failure'[d] = failure[d] /\ ((d \in extracted) <=> (d \in extracted'))
           /\ observed[d] \in Ledger!Terminal => observed'[d] = observed[d]]_(Ledger!vars)
  BY LedgerStep DEF LedgerKept, Stands, Ledger!vars, ledgerVars
<1> QED BY <1>1, LedgerInvariance, PTL DEF Ledger!Spec, Ledger!FinalStays

-----------------------------------------------------------------------------
(* The intake of datasets.                                                 *)

\* What a process is about, as a row with exactly its fields.
Errand(j) ==
  j = [at |-> j.at, copy |-> j.copy, expected |-> j.expected, scan |-> j.scan, pin |-> j.pin,
       path |-> j.path, valid |-> j.valid, entries |-> j.entries]
Uploads == 1..MaxUploads
LiveObject == [generation : Uploads, meta : Nat, label : Item \cup {Nil}]
Bodies == [Item -> [Uploads -> Item \cup {Nil}]]

\* The generations of an object are used in their order, each once.
InOrder(c, k) == \A g \in Uploads : body[c][g] # Nil <=> g <= k
GenerationsInv ==
  /\ body \in Bodies /\ object \in [Item -> LiveObject \cup {Nil}] /\ stray \in Nat
  /\ \A c \in Item : \E k \in 0..MaxUploads : InOrder(c, k)

\* What a result names is there.
ResultsInv ==
  /\ \A f \in fetched : /\ f.stored.name \in Item /\ f.stored.generation \in Uploads
                        /\ f.evidence.of \in Item
  /\ Intake!QuarantineHolds /\ Intake!LocalIntakeHolds

\* What a process found when it got to the step it is at.
ErrandFits(j) ==
  /\ Errand(j)
  /\ j.at \in {"initiate", "put", "check"} => j.copy \in Item
  /\ j.at = "read" => j.pin.name \in Item /\ j.pin.generation \in Uploads
  /\ j.at = "replay" => \E f \in fetched : f.stored = j.pin
ErrandsInv ==
  /\ intake = [p \in Actor |-> intake[p]]
  /\ \A p \in Actor : ErrandFits(intake[p])
IntakeInv == GenerationsInv /\ ResultsInv /\ ErrandsInv

\* What a step must do.
IntakeKept == IntakeInv' /\ Intake!CreateOnly

LEMMA IntakeCounting ==
  ASSUME NEW S PROVE Intake!Cardinality(S) = Cardinality(S)
BY DEF Cardinality, Intake!Cardinality

\* The generation an upload takes is the first that nothing was uploaded to.
LEMMA NextIsFree ==
  ASSUME GenerationsInv, NEW c \in Item, NEW k \in 0..MaxUploads, InOrder(c, k)
  PROVE  Intake!NextGeneration(c) = k + 1
<1>1. MaxUploads \in Nat
  BY ReleasesAssumption
<1>2. Intake!Used(c) = 1..k
  BY <1>1 DEF Intake!Used, Intake!Generation, InOrder, Uploads
<1>3. Cardinality(1..k) = k
  BY <1>1, FS_Interval
<1> QED BY <1>2, <1>3, IntakeCounting DEF Intake!NextGeneration

\* What an upload does.
LEMMA UploadAdds ==
  ASSUME GenerationsInv, NEW c \in Item, NEW content \in Item, NEW label \in Item \cup {Nil},
         Intake!Upload(c, content, label)
  PROVE  /\ body' \in Bodies /\ \A d \in Item : \E k \in 0..MaxUploads : InOrder(d, k)'
         /\ \A d \in Item, g \in Uploads : body[d][g] # Nil => body'[d][g] = body[d][g]
         /\ object' \in [Item -> LiveObject \cup {Nil}]
         /\ \A d \in Item \ {c} : object'[d] = object[d]
         /\ Intake!NextGeneration(c) \in Uploads
<1>1. MaxUploads \in Nat /\ Nil \notin Item
  BY ReleasesAssumption
<1>2. PICK k \in 0..MaxUploads : InOrder(c, k)
  BY DEF GenerationsInv
<1>3. PICK n : n = Intake!NextGeneration(c)
  OBVIOUS
<1>4. n = k + 1 /\ n \in Uploads
  BY <1>2, <1>3, NextIsFree DEF Intake!Upload, Intake!Generation, Uploads
<1>5. PICK row : row = [body[c] EXCEPT ![n] = content]
  OBVIOUS
<1>6. body' = [body EXCEPT ![c] = row]
  BY <1>3, <1>5 DEF Intake!Upload
<1>7. /\ body[c] \in [Uploads -> Item \cup {Nil}] /\ row \in [Uploads -> Item \cup {Nil}]
      /\ row[n] = content /\ \A g \in Uploads \ {n} : row[g] = body[c][g]
  BY <1>4, <1>5 DEF GenerationsInv, Bodies
<1>8. body' \in Bodies /\ body'[c] = row /\ \A d \in Item \ {c} : body'[d] = body[d]
  BY <1>6, <1>7 DEF GenerationsInv, Bodies
<1>9. \A d \in Item, g \in Uploads : body[d][g] # Nil => body'[d][g] = body[d][g]
  BY <1>1, <1>2, <1>4, <1>7, <1>8 DEF InOrder, Uploads
<1>10. ASSUME NEW d \in Item PROVE \E h \in 0..MaxUploads : InOrder(d, h)'
  <2>1. CASE d = c
    <3>1. k + 1 \in 0..MaxUploads
      BY <1>1, <1>4 DEF Uploads
    <3>2. ASSUME NEW g \in Uploads PROVE row[g] # Nil <=> g <= k + 1
      <4>1. g \in Nat /\ k \in Nat
        BY <1>1 DEF Uploads
      <4>2. CASE g = n
        BY <1>1, <1>4, <1>7, <4>1, <4>2
      <4>3. CASE g # n
        <5>1. row[g] = body[c][g] /\ (body[c][g] # Nil <=> g <= k)
          BY <1>2, <1>7, <4>3 DEF InOrder
        <5> QED BY <1>4, <4>1, <4>3, <5>1
      <4> QED BY <4>2, <4>3
    <3>3. \A g \in Uploads : body'[d][g] # Nil <=> g <= k + 1
      BY <1>8, <2>1, <3>2
    <3> QED BY <3>1, <3>3 DEF InOrder
  <2>2. CASE d # c
    BY <1>8, <2>2 DEF GenerationsInv, InOrder
  <2> QED BY <2>1, <2>2
<1>11. PICK live : live = [generation |-> n, meta |-> 1, label |-> label]
  OBVIOUS
<1>12. live \in LiveObject /\ object' = [object EXCEPT ![c] = live]
  BY <1>3, <1>4, <1>11 DEF LiveObject, Intake!Upload
<1>13. /\ object' \in [Item -> LiveObject \cup {Nil}]
       /\ \A d \in Item \ {c} : object'[d] = object[d]
  BY <1>12 DEF GenerationsInv
<1> QED BY <1>3, <1>4, <1>8, <1>9, <1>10, <1>13

\* One field of a process's row after another.
LEMMA ErrandAt ==
  ASSUME NEW j, Errand(j), NEW x, NEW k, k = [j EXCEPT !.at = x]
  PROVE  Errand(k) /\ k.at = x /\ k.copy = j.copy /\ k.pin = j.pin
BY DEF Errand
LEMMA ErrandCopy ==
  ASSUME NEW j, Errand(j), NEW x, NEW k, k = [j EXCEPT !.copy = x]
  PROVE  Errand(k) /\ k.at = j.at /\ k.copy = x /\ k.pin = j.pin
BY DEF Errand
LEMMA ErrandExpected ==
  ASSUME NEW j, Errand(j), NEW x, NEW k, k = [j EXCEPT !.expected = x]
  PROVE  Errand(k) /\ k.at = j.at /\ k.copy = j.copy /\ k.pin = j.pin
BY DEF Errand
LEMMA ErrandScan ==
  ASSUME NEW j, Errand(j), NEW x, NEW k, k = [j EXCEPT !.scan = x]
  PROVE  Errand(k) /\ k.at = j.at /\ k.copy = j.copy /\ k.pin = j.pin
BY DEF Errand
LEMMA ErrandPin ==
  ASSUME NEW j, Errand(j), NEW x, NEW k, k = [j EXCEPT !.pin = x]
  PROVE  Errand(k) /\ k.at = j.at /\ k.copy = j.copy /\ k.pin = x
BY DEF Errand
LEMMA ErrandPath ==
  ASSUME NEW j, Errand(j), NEW x, NEW k, k = [j EXCEPT !.path = x]
  PROVE  Errand(k) /\ k.at = j.at /\ k.copy = j.copy /\ k.pin = j.pin
BY DEF Errand
LEMMA ErrandValid ==
  ASSUME NEW j, Errand(j), NEW x, NEW k, k = [j EXCEPT !.valid = x]
  PROVE  Errand(k) /\ k.at = j.at /\ k.copy = j.copy /\ k.pin = j.pin
BY DEF Errand
LEMMA ErrandEntries ==
  ASSUME NEW j, Errand(j), NEW x, NEW k, k = [j EXCEPT !.entries = x]
  PROVE  Errand(k) /\ k.at = j.at /\ k.copy = j.copy /\ k.pin = j.pin
BY DEF Errand
LEMMA ErrandEnds ==
  Errand(Intake!Idle) /\ Intake!Idle.at = "idle" /\ ErrandFits(Intake!Idle)
BY DEF ErrandFits, Errand, Intake!Idle

\* Uploading and its results apart, a step moves only what a process is about.
LEMMA ErrandKeeps ==
  ASSUME IntakeInv, NEW p \in Actor, NEW j, intake' = [intake EXCEPT ![p] = j], ErrandFits(j),
         UNCHANGED <<body, object, stray, fetched, replayed, reported, unpacked>>
  PROVE  IntakeKept
<1>1. \A q \in Actor : intake'[q] = IF q = p THEN j ELSE intake[q]
  BY DEF IntakeInv, ErrandsInv
<1>2. GenerationsInv' /\ ResultsInv' /\ Intake!CreateOnly
  BY DEF IntakeInv, GenerationsInv, InOrder, ResultsInv, Intake!QuarantineHolds,
         Intake!LocalIntakeHolds, Intake!CreateOnly
<1>3. ErrandsInv'
  <2>1. intake' = [q \in Actor |-> intake'[q]]
    BY DEF IntakeInv, ErrandsInv
  <2>2. \A q \in Actor : ErrandFits(intake'[q])
    BY <1>1 DEF IntakeInv, ErrandsInv
  <2> QED BY <2>1, <2>2 DEF ErrandsInv, ErrandFits
<1> QED BY <1>2, <1>3 DEF IntakeKept, IntakeInv

LEMMA EndKeepsIntake ==
  ASSUME IntakeInv, NEW p \in Actor, Intake!End(p),
         UNCHANGED <<body, object, stray, fetched, replayed, reported, unpacked>>
  PROVE  IntakeKept
<1>1. PICK j : j = Intake!Idle
  OBVIOUS
<1>2. intake' = [intake EXCEPT ![p] = j] /\ ErrandFits(j)
  BY <1>1, ErrandEnds DEF Intake!End, Intake!Set
<1> QED BY <1>2, ErrandKeeps

LEMMA MyErrand ==
  ASSUME IntakeInv, NEW p \in Actor
  PROVE  Errand(intake[p]) /\ ErrandFits(intake[p])
BY DEF IntakeInv, ErrandsInv, ErrandFits

LEMMA GoesToErrand ==
  ASSUME IntakeInv, NEW p \in Actor, NEW at, Intake!Goto(p, at)
  PROVE  \E j : /\ intake' = [intake EXCEPT ![p] = j] /\ Errand(j) /\ j.at = at
                /\ j.copy = intake[p].copy /\ j.pin = intake[p].pin
<1>1. PICK j : j = [intake[p] EXCEPT !.at = at]
  OBVIOUS
<1>2. intake' = [intake EXCEPT ![p] = j]
  BY <1>1 DEF Intake!Goto
<1>3. Errand(j) /\ j.at = at /\ j.copy = intake[p].copy /\ j.pin = intake[p].pin
  BY <1>1, MyErrand, ErrandAt
<1> QED BY <1>2, <1>3

LEMMA FetchKeeps ==
  ASSUME IntakeInv, NEW p \in Actor, Intake!Fetch(p)
  PROVE  IntakeKept
<1>1. UNCHANGED <<body, object, stray, fetched, replayed, reported, unpacked>>
  BY DEF Intake!Fetch, Intake!cloud, Intake!results
<1>2. PICK upstream \in Item \cup {Nil}, c \in Item :
        Intake!Set(p, [Intake!Idle EXCEPT !.at = "initiate", !.expected = upstream, !.copy = c,
                                          !.scan = Intake!Scanned(c)])
  BY DEF Intake!Fetch
<1>3. PICK scan : scan = Intake!Scanned(c)
  OBVIOUS
<1>4. PICK one : one = [Intake!Idle EXCEPT !.at = "initiate"]
  OBVIOUS
<1>5. PICK two : two = [one EXCEPT !.expected = upstream]
  OBVIOUS
<1>6. PICK three : three = [two EXCEPT !.copy = c]
  OBVIOUS
<1>7. PICK j : j = [three EXCEPT !.scan = scan]
  OBVIOUS
<1>8. intake' = [intake EXCEPT ![p] = j]
  BY <1>2, <1>3, <1>4, <1>5, <1>6, <1>7 DEF Intake!Set
<1>9. Errand(one) /\ one.at = "initiate"
  BY <1>4, ErrandEnds, ErrandAt
<1>10. Errand(two) /\ two.at = "initiate"
  BY <1>5, <1>9, ErrandExpected
<1>11. Errand(three) /\ three.at = "initiate" /\ three.copy = c
  BY <1>6, <1>10, ErrandCopy
<1>12. Errand(j) /\ j.at = "initiate" /\ j.copy = c
  BY <1>7, <1>11, ErrandScan
<1>13. ErrandFits(j)
  BY <1>12 DEF ErrandFits
<1> QED BY <1>1, <1>8, <1>13, ErrandKeeps

LEMMA InitiateKeeps ==
  ASSUME IntakeInv, NEW p \in Actor, Intake!Initiate(p)
  PROVE  IntakeKept
<1>1. /\ UNCHANGED <<body, object, stray, fetched, replayed, reported, unpacked>>
      /\ intake[p].at = "initiate"
      /\ Intake!Goto(p, "put") \/ Intake!Goto(p, "check")
  BY DEF Intake!Initiate, Intake!At, Intake!cloud, Intake!results
<1>2. PICK j : /\ intake' = [intake EXCEPT ![p] = j] /\ Errand(j) /\ j.at \in {"put", "check"}
               /\ j.copy = intake[p].copy
  BY <1>1, GoesToErrand
<1>3. ErrandFits(j)
  BY <1>1, <1>2, MyErrand DEF ErrandFits
<1> QED BY <1>1, <1>2, <1>3, ErrandKeeps

LEMMA CheckKeeps ==
  ASSUME IntakeInv, NEW p \in Actor, Intake!Check(p)
  PROVE  IntakeKept
<1> DEFINE i == intake[p]
           c == i.copy
<1>1. /\ UNCHANGED <<body, object, stray, fetched, replayed, reported, unpacked>>
      /\ i.at = "check"
  BY DEF Intake!Check, Intake!At, Intake!cloud, Intake!results
<1>2. Errand(i) /\ c \in Item
  BY <1>1, MyErrand DEF ErrandFits
<1>3. CASE Intake!End(p)
  BY <1>1, <1>3, EndKeepsIntake
<1>4. CASE /\ object[c] # Nil
           /\ Intake!Set(p, [i EXCEPT !.at = "read", !.pin =
                [name |-> c, generation |-> object[c].generation, meta |-> object[c].meta]])
  <2>1. PICK pin : pin = [name |-> c, generation |-> object[c].generation, meta |-> object[c].meta]
    OBVIOUS
  <2>2. pin.name \in Item /\ pin.generation \in Uploads
    BY <1>2, <1>4, <2>1 DEF IntakeInv, GenerationsInv, LiveObject
  <2>3. PICK one : one = [i EXCEPT !.at = "read"]
    OBVIOUS
  <2>4. PICK j : j = [one EXCEPT !.pin = pin]
    OBVIOUS
  <2>5. intake' = [intake EXCEPT ![p] = j]
    BY <1>4, <2>1, <2>3, <2>4 DEF Intake!Set
  <2>6. Errand(one) /\ one.at = "read"
    BY <1>2, <2>3, ErrandAt
  <2>7. Errand(j) /\ j.at = "read" /\ j.pin = pin
    BY <2>4, <2>6, ErrandPin
  <2>8. ErrandFits(j)
    BY <2>2, <2>7 DEF ErrandFits
  <2> QED BY <1>1, <2>5, <2>8, ErrandKeeps
<1> QED BY <1>3, <1>4 DEF Intake!Check, Intake!Identified

LEMMA ReplayKeeps ==
  ASSUME IntakeInv, NEW p \in Actor, Intake!Replay(p)
  PROVE  IntakeKept
<1>1. UNCHANGED <<body, object, stray, fetched, replayed, reported, unpacked>>
  BY DEF Intake!Replay, Intake!cloud, Intake!results
<1>2. PICK f \in fetched : Intake!Set(p, [Intake!Idle EXCEPT !.at = "replay", !.pin = f.stored])
  BY DEF Intake!Replay
<1>3. PICK one : one = [Intake!Idle EXCEPT !.at = "replay"]
  OBVIOUS
<1>4. PICK j : j = [one EXCEPT !.pin = f.stored]
  OBVIOUS
<1>5. intake' = [intake EXCEPT ![p] = j]
  BY <1>2, <1>3, <1>4 DEF Intake!Set
<1>6. Errand(one) /\ one.at = "replay"
  BY <1>3, ErrandEnds, ErrandAt
<1>7. Errand(j) /\ j.at = "replay" /\ j.pin = f.stored
  BY <1>4, <1>6, ErrandPin
<1>8. ErrandFits(j)
  BY <1>7 DEF ErrandFits
<1> QED BY <1>1, <1>5, <1>8, ErrandKeeps

\* Steps outside the fetch need no more than that the row is one.
LEMMA LocalErrand ==
  ASSUME NEW j, Errand(j), j.at \notin {"initiate", "put", "check", "read", "replay"}
  PROVE  ErrandFits(j)
BY DEF ErrandFits

LEMMA IndexKeeps ==
  ASSUME IntakeInv, NEW p \in Actor, Intake!Index(p)
  PROVE  IntakeKept
<1>1. UNCHANGED <<body, object, stray, fetched, replayed, reported, unpacked>>
  BY DEF Intake!Index, Intake!cloud, Intake!results
<1>2. \E c, path : Intake!Set(p, [Intake!Idle EXCEPT !.at = "structure", !.expected = c,
                                                     !.path = path])
  BY DEF Intake!Index
<1>11. PICK c, path : Intake!Set(p, [Intake!Idle EXCEPT !.at = "structure", !.expected = c,
                                                       !.path = path])
  BY <1>2
<1>3. PICK one : one = [Intake!Idle EXCEPT !.at = "structure"]
  OBVIOUS
<1>4. PICK two : two = [one EXCEPT !.expected = c]
  OBVIOUS
<1>5. PICK j : j = [two EXCEPT !.path = path]
  OBVIOUS
<1>6. intake' = [intake EXCEPT ![p] = j]
  BY <1>11, <1>3, <1>4, <1>5 DEF Intake!Set
<1>7. Errand(one) /\ one.at = "structure"
  BY <1>3, ErrandEnds, ErrandAt
<1>8. Errand(two) /\ two.at = "structure"
  BY <1>4, <1>7, ErrandExpected
<1>9. Errand(j) /\ j.at = "structure"
  BY <1>5, <1>8, ErrandPath
<1>10. ErrandFits(j)
  BY <1>9, LocalErrand
<1> QED BY <1>1, <1>6, <1>10, ErrandKeeps

LEMMA ScanStructureKeeps ==
  ASSUME IntakeInv, NEW p \in Actor, Intake!ScanStructure(p)
  PROVE  IntakeKept
<1> DEFINE valid_ == file[intake[p].path] \notin {}
           one == [intake[p] EXCEPT !.at = "digest"]
           row == [one EXCEPT !.valid = valid_]
<1>1. UNCHANGED <<body, object, stray, fetched, replayed, reported, unpacked>>
  BY DEF Intake!ScanStructure, Intake!cloud, Intake!results
<1>2. intake' = [intake EXCEPT ![p] = row]
  BY DEF Intake!ScanStructure, Intake!Set
<1> HIDE DEF valid_
<1>3. Errand(one) /\ one.at = "digest"
  BY MyErrand, ErrandAt
<1> HIDE DEF one
<1>4. Errand(row) /\ row.at = "digest"
  BY <1>3, ErrandValid
<1> HIDE DEF row
<1>5. PICK j : j = row
  OBVIOUS
<1>6. ErrandFits(j)
  BY <1>4, <1>5, LocalErrand
<1> QED BY <1>1, <1>2, <1>5, <1>6, ErrandKeeps

LEMMA ScanDigestKeeps ==
  ASSUME IntakeInv, NEW p \in Actor, Intake!ScanDigest(p)
  PROVE  IntakeKept
<1>1. UNCHANGED <<body, object, stray, fetched, replayed, reported, unpacked>>
  BY DEF Intake!ScanDigest, Intake!cloud, Intake!results
<1>2. PICK scan : scan = Intake!Scanned(file[intake[p].path])
  OBVIOUS
<1>3. PICK one : one = [intake[p] EXCEPT !.at = "copy"]
  OBVIOUS
<1>4. PICK j : j = [one EXCEPT !.scan = scan]
  OBVIOUS
<1>5. intake' = [intake EXCEPT ![p] = j]
  BY <1>2, <1>3, <1>4 DEF Intake!ScanDigest, Intake!Set
<1>6. Errand(one) /\ one.at = "copy"
  BY <1>3, MyErrand, ErrandAt
<1>7. Errand(j) /\ j.at = "copy"
  BY <1>4, <1>6, ErrandScan
<1>8. ErrandFits(j)
  BY <1>7, LocalErrand
<1> QED BY <1>1, <1>5, <1>8, ErrandKeeps

LEMMA CopyKeeps ==
  ASSUME IntakeInv, NEW p \in Actor, Intake!CopyFile(p)
  PROVE  IntakeKept
<1>1. UNCHANGED <<body, object, stray, fetched, replayed, reported, unpacked>>
  BY DEF Intake!CopyFile, Intake!cloud, Intake!results
<1>2. PICK copy : copy = file[intake[p].path]
  OBVIOUS
<1>3. PICK one : one = [intake[p] EXCEPT !.at = "look"]
  OBVIOUS
<1>4. PICK j : j = [one EXCEPT !.copy = copy]
  OBVIOUS
<1>5. intake' = [intake EXCEPT ![p] = j]
  BY <1>2, <1>3, <1>4 DEF Intake!CopyFile, Intake!Set
<1>6. Errand(one) /\ one.at = "look"
  BY <1>3, MyErrand, ErrandAt
<1>7. Errand(j) /\ j.at = "look"
  BY <1>4, <1>6, ErrandCopy
<1>8. ErrandFits(j)
  BY <1>7, LocalErrand
<1> QED BY <1>1, <1>5, <1>8, ErrandKeeps

LEMMA LookKeeps ==
  ASSUME IntakeInv, NEW p \in Actor, Intake!Look(p) \/ Intake!Replace(p)
  PROVE  IntakeKept
<1>1. UNCHANGED <<body, object, stray, fetched, replayed, reported, unpacked>>
  BY DEF Intake!Look, Intake!Replace, Intake!cloud, Intake!results
<1>2. Intake!Goto(p, "replace") \/ Intake!Goto(p, "compare") \/ Intake!End(p)
  BY DEF Intake!Look, Intake!Replace
<1>3. CASE Intake!End(p)
  BY <1>1, <1>3, EndKeepsIntake
<1>4. CASE Intake!Goto(p, "replace") \/ Intake!Goto(p, "compare")
  <2>1. PICK j : /\ intake' = [intake EXCEPT ![p] = j] /\ Errand(j)
                 /\ j.at \in {"replace", "compare"}
    BY <1>4, GoesToErrand
  <2>2. ErrandFits(j)
    BY <2>1, LocalErrand
  <2> QED BY <1>1, <2>1, <2>2, ErrandKeeps
<1> QED BY <1>2, <1>3, <1>4

LEMMA OpenArchiveKeeps ==
  ASSUME IntakeInv, NEW p \in Actor, Intake!OpenArchive(p)
  PROVE  IntakeKept
<1>1. UNCHANGED <<body, object, stray, fetched, replayed, reported, unpacked>>
  BY DEF Intake!OpenArchive, Intake!cloud, Intake!results
<1>2. PICK a : Intake!Set(p, [Intake!Idle EXCEPT !.at = "extract", !.expected = a])
  BY DEF Intake!OpenArchive
<1>3. PICK one : one = [Intake!Idle EXCEPT !.at = "extract"]
  OBVIOUS
<1>4. PICK j : j = [one EXCEPT !.expected = a]
  OBVIOUS
<1>5. intake' = [intake EXCEPT ![p] = j]
  BY <1>2, <1>3, <1>4 DEF Intake!Set
<1>6. Errand(one) /\ one.at = "extract"
  BY <1>3, ErrandEnds, ErrandAt
<1>7. Errand(j) /\ j.at = "extract"
  BY <1>4, <1>6, ErrandExpected
<1>8. ErrandFits(j)
  BY <1>7, LocalErrand
<1> QED BY <1>1, <1>5, <1>8, ErrandKeeps

LEMMA ExtractEntryKeeps ==
  ASSUME IntakeInv, NEW p \in Actor, Intake!ExtractEntry(p)
  PROVE  IntakeKept
<1>1. UNCHANGED <<body, object, stray, fetched, replayed, reported, unpacked>>
      /\ intake[p].at = "extract"
  BY DEF Intake!ExtractEntry, Intake!At, Intake!cloud, Intake!results
<1>2. PICK e : intake' = [intake EXCEPT ![p].entries = intake[p].entries \cup {e}]
  BY DEF Intake!ExtractEntry
<1>3. PICK entries : entries = intake[p].entries \cup {e}
  OBVIOUS
<1>4. PICK j : j = [intake[p] EXCEPT !.entries = entries]
  OBVIOUS
<1>5. intake' = [intake EXCEPT ![p] = j]
  BY <1>2, <1>3, <1>4
<1>6. Errand(j) /\ j.at = "extract"
  BY <1>1, <1>4, MyErrand, ErrandEntries
<1>7. ErrandFits(j)
  BY <1>6, LocalErrand
<1> QED BY <1>1, <1>5, <1>7, ErrandKeeps

\* What a step that writes has to show.
LEMMA WriteFileKeeps ==
  ASSUME IntakeInv, NEW p \in Actor, NEW j, intake' = [intake EXCEPT ![p] = j], ErrandFits(j),
         fetched \subseteq fetched', GenerationsInv', ResultsInv', Intake!CreateOnly
  PROVE  IntakeKept
<1>1. \A q \in Actor : intake'[q] = IF q = p THEN j ELSE intake[q]
  BY DEF IntakeInv, ErrandsInv
<1>2. ErrandsInv'
  <2>1. intake' = [q \in Actor |-> intake'[q]]
    BY DEF IntakeInv, ErrandsInv
  <2>2. \A q \in Actor : ErrandFits(intake'[q])
    BY <1>1 DEF IntakeInv, ErrandsInv
  <2>3. \A k : ErrandFits(k) => ErrandFits(k)'
    BY DEF ErrandFits, Errand
  <2>4. ASSUME NEW q \in Actor PROVE ErrandFits(intake[q])'
    <3>1. PICK k : k = intake'[q]
      OBVIOUS
    <3>2. ErrandFits(k)'
      BY <2>2, <2>3, <3>1
    <3> QED BY <3>1, <3>2 DEF ErrandFits
  <2> QED BY <2>1, <2>4 DEF ErrandsInv
<1> QED BY <1>2 DEF IntakeKept, IntakeInv

LEMMA PublishKeeps ==
  ASSUME IntakeInv, NEW p \in Actor, Intake!Publish(p)
  PROVE  IntakeKept
<1>1. /\ UNCHANGED <<body, object, stray, fetched, replayed, reported>>
      /\ Intake!End(p)
      /\ unpacked' # Nil => unpacked'.entries = Archives[unpacked'.archive]
  BY DEF Intake!Publish, Intake!cloud, Intake!results, IntakeInv, ResultsInv, Intake!LocalIntakeHolds
<1>2. PICK j : j = Intake!Idle
  OBVIOUS
<1>3. intake' = [intake EXCEPT ![p] = j] /\ ErrandFits(j)
  BY <1>1, <1>2, ErrandEnds DEF Intake!End, Intake!Set
<1>4. GenerationsInv' /\ Intake!CreateOnly
  BY <1>1 DEF IntakeInv, GenerationsInv, InOrder, Intake!CreateOnly
<1>5. ResultsInv'
  BY <1>1 DEF IntakeInv, ResultsInv, Intake!QuarantineHolds, Intake!LocalIntakeHolds
<1> QED BY <1>1, <1>3, <1>4, <1>5, WriteFileKeeps

LEMMA ReportKeeps ==
  ASSUME IntakeInv, NEW p \in Actor, Intake!Report(p)
  PROVE  IntakeKept
<1>1. /\ UNCHANGED <<body, object, stray, fetched, replayed, unpacked>>
      /\ Intake!End(p)
      /\ \A r \in reported' : r.scanned = r.expected /\ r.stored = r.expected
  BY DEF Intake!Report, Intake!cloud, IntakeInv, ResultsInv, Intake!LocalIntakeHolds, Intake!Committed
<1>2. PICK j : j = Intake!Idle
  OBVIOUS
<1>3. intake' = [intake EXCEPT ![p] = j] /\ ErrandFits(j)
  BY <1>1, <1>2, ErrandEnds DEF Intake!End, Intake!Set
<1>4. GenerationsInv' /\ Intake!CreateOnly
  BY <1>1 DEF IntakeInv, GenerationsInv, InOrder, Intake!CreateOnly
<1>5. ResultsInv'
  BY <1>1 DEF IntakeInv, ResultsInv, Intake!QuarantineHolds, Intake!LocalIntakeHolds
<1> QED BY <1>1, <1>3, <1>4, <1>5, WriteFileKeeps

\* A fetch is accepted with the content it was scanned as.
LEMMA AcceptKeeps ==
  ASSUME IntakeInv, NEW p \in Actor, Intake!Accept(p)
  PROVE  IntakeKept
<1> DEFINE i == intake[p]
           new == [stored |-> i.pin, evidence |-> i.scan, upstream |-> i.expected]
<1>1. /\ UNCHANGED <<body, object, stray, replayed, reported, unpacked>>
      /\ Intake!End(p) /\ i.at = "read"
  BY DEF Intake!Accept, Intake!At, Intake!cloud
<1>2. i.pin.name \in Item /\ i.pin.generation \in Uploads
  BY <1>1, MyErrand DEF ErrandFits
<1>3. CASE fetched' = fetched
  BY <1>1, <1>3, EndKeepsIntake
<1>4. CASE /\ fetched' = fetched \cup {new}
           /\ Intake!ReadsBack(i.pin) /\ i.pin.name = i.scan.of /\ i.expected \in {Nil, i.pin.name}
  <2>1. /\ new.stored.name \in Item /\ new.stored.generation \in Uploads /\ new.evidence.of \in Item
        /\ body[new.stored.name][new.stored.generation] = new.evidence.of
        /\ new.upstream \in {Nil, new.evidence.of}
    BY <1>2, <1>4 DEF Intake!ReadsBack
  <2> HIDE DEF new
  <2>2. PICK j : j = Intake!Idle
    OBVIOUS
  <2>3. intake' = [intake EXCEPT ![p] = j] /\ ErrandFits(j)
    BY <1>1, <2>2, ErrandEnds DEF Intake!End, Intake!Set
  <2>4. GenerationsInv' /\ Intake!CreateOnly
    BY <1>1 DEF IntakeInv, GenerationsInv, InOrder, Intake!CreateOnly
  <2>5. ResultsInv'
    BY <1>1, <1>4, <2>1 DEF IntakeInv, ResultsInv, Intake!QuarantineHolds, Intake!LocalIntakeHolds
  <2> QED BY <1>4, <2>3, <2>4, <2>5, WriteFileKeeps
<1> QED BY <1>3, <1>4 DEF Intake!Accept

\* What is read again is what was fetched.
LEMMA ReplayReadKeeps ==
  ASSUME IntakeInv, NEW p \in Actor, Intake!ReplayRead(p)
  PROVE  IntakeKept
<1> DEFINE i == intake[p]
           new == [stored |-> i.pin, bytes |-> body[i.pin.name][i.pin.generation]]
<1>1. /\ UNCHANGED <<body, object, stray, fetched, reported, unpacked>>
      /\ Intake!End(p) /\ i.at = "replay"
      /\ replayed' \subseteq replayed \cup {new}
  BY DEF Intake!ReplayRead, Intake!At, Intake!cloud
<1>2. PICK f \in fetched : f.stored = i.pin
  BY <1>1, MyErrand DEF ErrandFits
<1>3. new.stored = f.stored /\ new.bytes = f.evidence.of
  BY <1>2 DEF IntakeInv, ResultsInv, Intake!QuarantineHolds
<1> HIDE DEF new
<1>4. PICK j : j = Intake!Idle
  OBVIOUS
<1>5. intake' = [intake EXCEPT ![p] = j] /\ ErrandFits(j)
  BY <1>1, <1>4, ErrandEnds DEF Intake!End, Intake!Set
<1>6. GenerationsInv' /\ Intake!CreateOnly
  BY <1>1 DEF IntakeInv, GenerationsInv, InOrder, Intake!CreateOnly
<1>7. ResultsInv'
  BY <1>1, <1>3 DEF IntakeInv, ResultsInv, Intake!QuarantineHolds, Intake!LocalIntakeHolds
<1> QED BY <1>1, <1>5, <1>6, <1>7, WriteFileKeeps

\* An upload adds a generation, and what was uploaded before stays where it was.
LEMMA UploadKeepsResults ==
  ASSUME IntakeInv, NEW c \in Item, NEW content \in Item, NEW label \in Item \cup {Nil},
         Intake!Upload(c, content, label), UNCHANGED <<fetched, replayed, reported, unpacked>>,
         stray' \in Nat
  PROVE  GenerationsInv' /\ ResultsInv' /\ \A d \in Item \ {c} : object'[d] = object[d]
<1>1. /\ body' \in Bodies /\ \A d \in Item : \E k \in 0..MaxUploads : InOrder(d, k)'
      /\ \A d \in Item, g \in Uploads : body[d][g] # Nil => body'[d][g] = body[d][g]
      /\ object' \in [Item -> LiveObject \cup {Nil}]
      /\ \A d \in Item \ {c} : object'[d] = object[d]
  BY UploadAdds DEF IntakeInv
<1>2. GenerationsInv'
  BY <1>1 DEF GenerationsInv, InOrder
<1>3. Nil \notin Item
  BY ReleasesAssumption
<1>4. ASSUME NEW f \in fetched
      PROVE  body'[f.stored.name][f.stored.generation] = body[f.stored.name][f.stored.generation]
  BY <1>1, <1>3, <1>4 DEF IntakeInv, ResultsInv, Intake!QuarantineHolds
<1>5. ResultsInv'
  BY <1>4 DEF IntakeInv, ResultsInv, Intake!QuarantineHolds, Intake!LocalIntakeHolds
<1> QED BY <1>1, <1>2, <1>5

\* The intake uploads only where there is no live object.
LEMMA FinaliseKeeps ==
  ASSUME IntakeInv, NEW p \in Actor, Intake!Finalise(p)
  PROVE  IntakeKept
<1> DEFINE i == intake[p]
           c == i.copy
<1>1. /\ UNCHANGED <<stray, fetched, replayed, reported, unpacked>> /\ i.at = "put"
  BY DEF Intake!Finalise, Intake!At, Intake!results
<1>2. Errand(i) /\ c \in Item
  BY <1>1, MyErrand DEF ErrandFits
<1>3. CASE Intake!End(p) /\ UNCHANGED <<body, object>>
  BY <1>1, <1>3, EndKeepsIntake
<1>4. CASE /\ object[c] = Nil /\ Intake!Upload(c, c, c)
           /\ \/ Intake!Set(p, [i EXCEPT !.at = "check", !.pin =
                   [name |-> c, generation |-> Intake!NextGeneration(c), meta |-> 1]])
              \/ Intake!End(p)
  <2>1. GenerationsInv' /\ ResultsInv' /\ \A d \in Item \ {c} : object'[d] = object[d]
    BY <1>1, <1>2, <1>4, UploadKeepsResults DEF IntakeInv, GenerationsInv
  <2>2. Intake!CreateOnly
    BY <1>4, <2>1 DEF Intake!CreateOnly
  <2>3. CASE Intake!End(p)
    <3>1. PICK j : j = Intake!Idle
      OBVIOUS
    <3>2. intake' = [intake EXCEPT ![p] = j] /\ ErrandFits(j)
      BY <2>3, <3>1, ErrandEnds DEF Intake!End, Intake!Set
    <3> QED BY <1>1, <2>1, <2>2, <3>2, WriteFileKeeps
  <2>4. CASE Intake!Set(p, [i EXCEPT !.at = "check", !.pin =
                  [name |-> c, generation |-> Intake!NextGeneration(c), meta |-> 1]])
    <3>1. PICK pin : pin = [name |-> c, generation |-> Intake!NextGeneration(c), meta |-> 1]
      OBVIOUS
    <3>2. PICK one : one = [i EXCEPT !.at = "check"]
      OBVIOUS
    <3>3. PICK j : j = [one EXCEPT !.pin = pin]
      OBVIOUS
    <3>4. intake' = [intake EXCEPT ![p] = j]
      BY <2>4, <3>1, <3>2, <3>3 DEF Intake!Set
    <3>5. Errand(one) /\ one.at = "check" /\ one.copy = c
      BY <1>2, <3>2, ErrandAt
    <3>6. Errand(j) /\ j.at = "check" /\ j.copy = c
      BY <3>3, <3>5, ErrandPin
    <3>7. ErrandFits(j)
      BY <1>2, <3>6 DEF ErrandFits
    <3> QED BY <1>1, <2>1, <2>2, <3>4, <3>7, WriteFileKeeps
  <2> QED BY <1>4, <2>3, <2>4
<1> QED BY <1>3, <1>4 DEF Intake!Finalise, Intake!cloud

\* What others do counts as theirs.
LEMMA OthersKeep ==
  ASSUME IntakeInv, NEW c \in Item,
         Intake!Overwrite(c) \/ Intake!Relabel(c) \/ Intake!Delete(c) \/ Intake!ChangeFile
  PROVE  IntakeKept
<1>1. /\ stray' \in Nat /\ stray' > stray
      /\ UNCHANGED <<intake, fetched, replayed, reported, unpacked>>
  BY DEF IntakeInv, GenerationsInv, Intake!Overwrite, Intake!Relabel, Intake!Delete,
         Intake!ChangeFile, Intake!Stray, Intake!results
<1>2. Intake!CreateOnly /\ ErrandsInv'
  BY <1>1 DEF Intake!CreateOnly, IntakeInv, ErrandsInv, ErrandFits, Errand
<1>3. CASE Intake!Overwrite(c)
  <2>1. PICK content \in Item, label \in Item \cup {Nil} : Intake!Upload(c, content, label)
    BY <1>3 DEF Intake!Overwrite
  <2>2. GenerationsInv' /\ ResultsInv'
    BY <1>1, <2>1, UploadKeepsResults
  <2> QED BY <1>2, <2>2 DEF IntakeKept, IntakeInv
<1>4. CASE Intake!Relabel(c) \/ Intake!Delete(c) \/ Intake!ChangeFile
  <2>1. UNCHANGED body
    BY <1>4 DEF Intake!Relabel, Intake!Delete, Intake!ChangeFile, Intake!cloud
  <2>2. object' \in [Item -> LiveObject \cup {Nil}]
    <3>1. CASE Intake!Relabel(c)
      <4>1. PICK label \in Item \cup {Nil} :
              object' = [object EXCEPT ![c].label = label, ![c].meta = object[c].meta + 1]
        BY <3>1 DEF Intake!Relabel
      <4>2. object[c] \in LiveObject
        BY <3>1 DEF Intake!Relabel, IntakeInv, GenerationsInv
      <4>3. PICK one : one = [object[c] EXCEPT !.label = label]
        OBVIOUS
      <4>4. PICK two : two = [one EXCEPT !.meta = object[c].meta + 1]
        OBVIOUS
      <4>5. one \in LiveObject
        BY <4>2, <4>3 DEF LiveObject
      <4>6. two \in LiveObject
        BY <4>2, <4>4, <4>5 DEF LiveObject
      <4>7. object' = [object EXCEPT ![c] = two]
        BY <4>1, <4>2, <4>3, <4>4 DEF IntakeInv, GenerationsInv
      <4> QED BY <4>6, <4>7 DEF IntakeInv, GenerationsInv
    <3>2. CASE Intake!Delete(c) \/ Intake!ChangeFile
      BY <3>2 DEF Intake!Delete, Intake!ChangeFile, Intake!cloud, IntakeInv, GenerationsInv
    <3> QED BY <1>4, <3>1, <3>2
  <2>3. GenerationsInv'
    BY <1>1, <2>1, <2>2 DEF IntakeInv, GenerationsInv, InOrder
  <2>4. ResultsInv'
    BY <1>1, <2>1 DEF IntakeInv, ResultsInv, Intake!QuarantineHolds, Intake!LocalIntakeHolds
  <2> QED BY <1>2, <2>3, <2>4 DEF IntakeKept, IntakeInv
<1> QED BY <1>3, <1>4

LEMMA IntakeCrashKeeps ==
  ASSUME IntakeInv, NEW p \in Actor, Intake!Crash(p)
  PROVE  IntakeKept
BY EndKeepsIntake DEF Intake!Crash, Intake!cloud, Intake!results

\* Every step of the intake keeps the invariant.
LEMMA IntakeStep == IntakeInv /\ [Intake!Next]_intakeVars => IntakeKept
<1> SUFFICES ASSUME IntakeInv, [Intake!Next]_intakeVars PROVE IntakeKept
  OBVIOUS
<1>1. CASE UNCHANGED intakeVars
  <2>1. UNCHANGED <<body, object, unpacked, intake, fetched, replayed, reported, stray>>
    BY <1>1 DEF intakeVars
  <2> QED BY <2>1 DEF IntakeKept, IntakeInv, GenerationsInv, InOrder, ResultsInv, ErrandsInv,
                     ErrandFits, Errand, Intake!QuarantineHolds, Intake!LocalIntakeHolds,
                     Intake!CreateOnly
<1>2. CASE \E p \in Actor : Intake!Fetches(p)
  BY <1>2, FetchKeeps, InitiateKeeps, FinaliseKeeps, CheckKeeps, AcceptKeeps, ReplayKeeps,
     ReplayReadKeeps DEF Intake!Fetches
<1>3. CASE \E p \in Actor : Intake!Reconciles(p)
  BY <1>3, IndexKeeps, ScanStructureKeeps, ScanDigestKeeps, CopyKeeps, LookKeeps, ReportKeeps
     DEF Intake!Reconciles
<1>4. CASE \E p \in Actor : Intake!Unpacks(p)
  BY <1>4, OpenArchiveKeeps, ExtractEntryKeeps, PublishKeeps DEF Intake!Unpacks
<1>5. CASE \E p \in Actor : Intake!Crash(p)
  BY <1>5, IntakeCrashKeeps
<1>6. CASE \E c \in Item : Intake!Overwrite(c) \/ Intake!Relabel(c) \/ Intake!Delete(c)
  BY <1>6, OthersKeep
<1>7. CASE Intake!ChangeFile
  <2>1. PICK c : c \in Item
    BY <1>7, OthersKeep DEF Intake!ChangeFile
  <2> QED BY <1>7, <2>1, OthersKeep
<1> QED BY <1>1, <1>2, <1>3, <1>4, <1>5, <1>6, <1>7 DEF Intake!Next

LEMMA IntakeStart == Intake!Init => IntakeInv
<1> SUFFICES ASSUME Intake!Init PROVE IntakeInv
  OBVIOUS
<1>1. /\ body = [c \in Item |-> [g \in Uploads |-> Nil]] /\ object = [c \in Item |-> Nil]
      /\ unpacked = Nil /\ intake = [p \in Actor |-> Intake!Idle]
      /\ fetched = {} /\ replayed = {} /\ reported = {} /\ stray = 0
  BY DEF Intake!Init, Intake!Generation, Uploads
<1>2. body \in Bodies
  BY <1>1 DEF Bodies
<1>3. ASSUME NEW c \in Item PROVE \E k \in 0..MaxUploads : InOrder(c, k)
  <2>1. InOrder(c, 0) /\ 0 \in 0..MaxUploads
    BY <1>1, ReleasesAssumption DEF InOrder, Uploads
  <2> QED BY <2>1
<1>4. GenerationsInv
  BY <1>1, <1>2, <1>3 DEF GenerationsInv
<1>5. ResultsInv
  BY <1>1 DEF ResultsInv, Intake!QuarantineHolds, Intake!LocalIntakeHolds
<1>6. ErrandsInv
  BY <1>1, ErrandEnds DEF ErrandsInv
<1> QED BY <1>4, <1>5, <1>6 DEF IntakeInv

\* The invariant of the intake: what it reported of a content is what it stored.
THEOREM IntakeInvariance == Intake!Spec => []IntakeInv
<1>1. IntakeInv /\ [Intake!Next]_(Intake!vars) => IntakeInv'
  BY IntakeStep DEF IntakeKept, Intake!vars, intakeVars
<1> QED BY <1>1, IntakeStart, PTL DEF Intake!Spec

\* A live object changes only when others write.
THEOREM ObjectsAreCreatedOnce == Intake!Spec => [][Intake!CreateOnly]_intakeVars
<1>1. IntakeInv /\ [Intake!Next]_(Intake!vars) => [Intake!CreateOnly]_intakeVars
  BY IntakeStep DEF IntakeKept, Intake!vars, intakeVars
<1> QED BY <1>1, IntakeInvariance, PTL DEF Intake!Spec

-----------------------------------------------------------------------------
(* The local corpus.                                                       *)

\* What a script is about, as a row with exactly its fields.
Script(j) == j = [at |-> j.at, batch |-> j.batch, seen |-> j.seen, todo |-> j.todo]
Imports(j) == j.at \in {"copy", "receipt", "documents"}
Deletes(j) == j.at \in {"objects", "intake"}
Holds(j) == Imports(j) \/ Deletes(j) \/ j.at = "share"
Paths == {"f1"}
Deletions == [state : {"pending", "complete"}, actor : Actor, digests : SUBSET Item]

\* Every batch has its entry in each of the tables.
CorpusTables ==
  /\ receipt = [b \in Item |-> receipt[b]] /\ documents = [b \in Item |-> documents[b]]
  /\ tombstone \in [Item -> Deletions \cup {Nil}]
  /\ candidate = [b \in Item |-> candidate[b]] /\ trash = [b \in Item |-> trash[b]]
  /\ retirement = [b \in Item |-> retirement[b]]
  /\ script = [p \in Actor |-> script[p]]
  /\ corpus \in [Paths -> Item \cup {Nil}]

\* What a script found when it got to the step it is at stays so: an import's batch has
\* no record of deletion, a deletion's has one that is pending.
ScriptFits(j) ==
  /\ Script(j)
  /\ Holds(j) => j.batch \in Item
  /\ Imports(j) => tombstone[j.batch] = Nil
  /\ Imports(j) /\ j.batch \notin overlapped => Corpus!Content(j.seen) \subseteq stored
  /\ Imports(j) => Corpus!Content(j.seen) \subseteq Item
  /\ j.at = "share" \/ Deletes(j) => tombstone[j.batch] # Nil
  /\ Deletes(j) => candidate[j.batch] = Nil
  /\ j.at = "objects" => \A c \in Item \ overlapped :
       documents[c] # Nil /\ tombstone[c] = Nil =>
         Corpus!Content(documents[c].listed) \cap j.todo = {}
  /\ j.at = "copy" => j.todo \subseteq Paths
  /\ j.at \in {"wait", "next", "move", "settle"} => \A b \in j.todo : b \in Item /\ j.seen[b] # Nil
  /\ j.at \in {"move", "settle"} => j.batch \in Item
  /\ j.at = "settle" => trash[j.batch] # Nil

\* Scripts that hold a batch's lock hold different batches, and what is imported beside
\* a deletion is remembered.
LocksInv ==
  /\ \A p, q \in Actor :
       p # q /\ Holds(script[p]) /\ Holds(script[q]) => script[p].batch # script[q].batch
  /\ \A p, q \in Actor :
       Imports(script[p]) /\ Deletes(script[q]) => script[p].batch \in overlapped
ListsInv == \A b \in Item : documents[b] # Nil => Corpus!Content(documents[b].listed) \subseteq Item
CorpusInv ==
  /\ CorpusTables /\ \A p \in Actor : ScriptFits(script[p])
  /\ LocksInv /\ ListsInv /\ Corpus!RecordsAreTrue /\ Corpus!ListedIsStored

\* What a step must do.
CorpusKept == CorpusInv' /\ Corpus!BatchesStayGone

\* One field of a script's row after another.
LEMMA SetAt ==
  ASSUME NEW j, Script(j), NEW x, NEW k, k = [j EXCEPT !.at = x]
  PROVE  Script(k) /\ k.at = x /\ k.batch = j.batch /\ k.seen = j.seen /\ k.todo = j.todo
BY DEF Script
LEMMA SetBatch ==
  ASSUME NEW j, Script(j), NEW x, NEW k, k = [j EXCEPT !.batch = x]
  PROVE  Script(k) /\ k.at = j.at /\ k.batch = x /\ k.seen = j.seen /\ k.todo = j.todo
BY DEF Script
LEMMA SetSeen ==
  ASSUME NEW j, Script(j), NEW x, NEW k, k = [j EXCEPT !.seen = x]
  PROVE  Script(k) /\ k.at = j.at /\ k.batch = j.batch /\ k.seen = x /\ k.todo = j.todo
BY DEF Script
LEMMA SetTodo ==
  ASSUME NEW j, Script(j), NEW x, NEW k, k = [j EXCEPT !.todo = x]
  PROVE  Script(k) /\ k.at = j.at /\ k.batch = j.batch /\ k.seen = j.seen /\ k.todo = x
BY DEF Script

\* What a step of one script has to show.
LEMMA ScriptStepKeeps ==
  ASSUME CorpusInv, NEW p \in Actor, NEW j, script' = [script EXCEPT ![p] = j],
         overlapped \subseteq overlapped', CorpusTables', ScriptFits(j)',
         \A q \in Actor \ {p} : \A k : k = script[q] => ScriptFits(k)',
         Holds(j) => \A q \in Actor \ {p} : Holds(script[q]) => script[q].batch # j.batch,
         Imports(j) => \A q \in Actor \ {p} : Deletes(script[q]) => j.batch \in overlapped',
         Deletes(j) => \A q \in Actor \ {p} : Imports(script[q]) => script[q].batch \in overlapped',
         ListsInv', Corpus!RecordsAreTrue', Corpus!ListedIsStored', Corpus!BatchesStayGone
  PROVE  CorpusKept
<1>1. \A q \in Actor : script'[q] = IF q = p THEN j ELSE script[q]
  BY DEF CorpusInv, CorpusTables
<1>2. ASSUME NEW q \in Actor PROVE ScriptFits(script[q])'
  <2>1. PICK k : k = script[q]
    OBVIOUS
  <2>2. CASE q = p
    <3>1. script'[q] = j
      BY <1>1, <2>2
    <3> QED BY <3>1 DEF ScriptFits
  <2>3. CASE q # p
    <3>1. script'[q] = k /\ ScriptFits(k)'
      BY <1>1, <2>1, <2>3
    <3> QED BY <3>1 DEF ScriptFits
  <2> QED BY <2>2, <2>3
<1>3. LocksInv'
  BY <1>1 DEF CorpusInv, LocksInv, Holds, Imports, Deletes
<1> QED BY <1>2, <1>3 DEF CorpusKept, CorpusInv

\* A script that goes on with its batch holds what it held.
Follows(j, i) ==
  /\ Holds(j) => Holds(i) /\ j.batch = i.batch
  /\ Imports(j) => Imports(i)
  /\ Deletes(j) => Deletes(i)
LEMMA FollowsKeeps ==
  ASSUME CorpusInv, NEW p \in Actor, NEW j, script' = [script EXCEPT ![p] = j],
         overlapped \subseteq overlapped', CorpusTables', ScriptFits(j)',
         \A q \in Actor \ {p} : \A k : k = script[q] => ScriptFits(k)',
         Follows(j, script[p]),
         ListsInv', Corpus!RecordsAreTrue', Corpus!ListedIsStored', Corpus!BatchesStayGone
  PROVE  CorpusKept
<1>1. /\ Holds(j) => \A q \in Actor \ {p} : Holds(script[q]) => script[q].batch # j.batch
      /\ Imports(j) => \A q \in Actor \ {p} : Deletes(script[q]) => j.batch \in overlapped'
      /\ Deletes(j) => \A q \in Actor \ {p} : Imports(script[q]) => script[q].batch \in overlapped'
  BY DEF CorpusInv, LocksInv, Follows, Holds
<1> QED BY <1>1, ScriptStepKeeps

\* A script that only starts, waits or ends changes what it is about.
LEMMA ScriptKeeps ==
  ASSUME CorpusInv, NEW p \in Actor, NEW j, script' = [script EXCEPT ![p] = j],
         UNCHANGED <<corpus, stored, receipt, documents, tombstone, candidate, retirement, trash>>,
         overlapped \subseteq overlapped', ScriptFits(j)',
         Holds(j) => \A q \in Actor \ {p} : Holds(script[q]) => script[q].batch # j.batch,
         Imports(j) => \A q \in Actor \ {p} : Deletes(script[q]) => j.batch \in overlapped',
         Deletes(j) => \A q \in Actor \ {p} : Imports(script[q]) => script[q].batch \in overlapped'
  PROVE  CorpusKept
<1>1. CorpusTables'
  BY DEF CorpusInv, CorpusTables
<1>2. ASSUME NEW q \in Actor \ {p}, NEW k, k = script[q] PROVE ScriptFits(k)'
  BY <1>2 DEF CorpusInv, ScriptFits, Script, Holds, Imports, Deletes
<1>3. ListsInv' /\ Corpus!RecordsAreTrue' /\ Corpus!ListedIsStored'
  BY DEF CorpusInv, ListsInv, Corpus!RecordsAreTrue, Corpus!ListedIsStored
<1>4. Corpus!BatchesStayGone
  BY DEF Corpus!BatchesStayGone
<1> QED BY <1>1, <1>2, <1>3, <1>4, ScriptStepKeeps

LEMMA IdleFits ==
  /\ Script(Corpus!Idle) /\ Corpus!Idle.at = "idle"
  /\ ~Holds(Corpus!Idle) /\ ~Imports(Corpus!Idle) /\ ~Deletes(Corpus!Idle)
BY DEF Corpus!Idle, Script, Holds, Imports, Deletes

LEMMA EndScriptKeeps ==
  ASSUME CorpusInv, NEW p \in Actor, Corpus!End(p),
         UNCHANGED <<corpus, stored, receipt, documents, tombstone, candidate, retirement, trash,
                     overlapped>>
  PROVE  CorpusKept
<1>1. PICK j : j = Corpus!Idle
  OBVIOUS
<1>2. script' = [script EXCEPT ![p] = j]
  BY <1>1 DEF Corpus!End, Corpus!Set
<1>3. Script(j) /\ j.at = "idle" /\ ~Holds(j) /\ ~Imports(j) /\ ~Deletes(j)
  BY <1>1, IdleFits
<1>4. ScriptFits(j)'
  BY <1>3 DEF ScriptFits, Imports, Deletes, Holds
<1> QED BY <1>2, <1>3, <1>4, ScriptKeeps

LEMMA ImportKeeps ==
  ASSUME CorpusInv, NEW p \in Actor, NEW b \in Item, Corpus!Import(p, b)
  PROVE  CorpusKept
<1>1. PICK j : /\ script' = [script EXCEPT ![p] = j] /\ Script(j)
                /\ j.at = "copy" /\ j.batch = b /\ j.seen = <<>> /\ j.todo = Corpus!SourceFiles
  <2> DEFINE todo == Corpus!SourceFiles
             one == [Corpus!Idle EXCEPT !.at = "copy"]
             two == [one EXCEPT !.batch = b]
             row == [two EXCEPT !.todo = todo]
  <2>1. script' = [script EXCEPT ![p] = row]
    BY DEF Corpus!Import, Corpus!Set
  <2>2. Script(Corpus!Idle) /\ Corpus!Idle.seen = <<>>
    BY DEF Corpus!Idle, Script
  <2> HIDE DEF todo
  <2>3. Script(one) /\ one.at = "copy" /\ one.seen = <<>>
    BY <2>2, SetAt
  <2> HIDE DEF one
  <2>4. Script(two) /\ two.at = "copy" /\ two.batch = b /\ two.seen = <<>>
    BY <2>3, SetBatch
  <2> HIDE DEF two
  <2>5. Script(row) /\ row.at = "copy" /\ row.batch = b /\ row.seen = <<>> /\ row.todo = todo
    BY <2>4, SetTodo
  <2> HIDE DEF row
  <2> QED BY <2>1, <2>5 DEF todo
<1>3. /\ tombstone[b] = Nil
      /\ UNCHANGED <<corpus, stored, receipt, documents, tombstone, candidate, retirement, trash>>
  BY DEF Corpus!Import, Corpus!outside, Corpus!intakes, Corpus!trees
<1>4. /\ overlapped \subseteq overlapped'
      /\ (\E q \in Actor : Deletes(script[q])) => b \in overlapped'
  BY DEF Corpus!Import, Corpus!Deleting, Deletes
<1>5. \A q \in Actor : ~(Holds(script[q]) /\ script[q].batch = b)
  BY DEF Corpus!Import, Corpus!BatchLocked, Corpus!Importing, Corpus!Deleting, Corpus!At,
         Holds, Imports, Deletes
<1>6. Corpus!Content(<<>>) = {}
  BY DEF Corpus!Content
<1>7. j.todo \subseteq Paths
  BY <1>1 DEF Corpus!SourceFiles, Paths
<1>8. ScriptFits(j)'
  BY <1>1, <1>3, <1>6, <1>7 DEF ScriptFits, Holds, Imports, Deletes
<1> QED BY <1>1, <1>3, <1>4, <1>5, <1>8, ScriptKeeps DEF Imports, Deletes

\* A script at a step, and what holds of it there.
LEMMA MineFits ==
  ASSUME CorpusInv, NEW p \in Actor
  PROVE  ScriptFits(script[p]) /\ Script(script[p])
BY DEF CorpusInv, ScriptFits

\* A script that goes to a step of its own.
LEMMA GoesTo ==
  ASSUME CorpusInv, NEW p \in Actor, NEW at, Corpus!Goto(p, at)
  PROVE  \E j : /\ script' = [script EXCEPT ![p] = j] /\ Script(j) /\ j.at = at
                /\ j.batch = script[p].batch /\ j.seen = script[p].seen /\ j.todo = script[p].todo
<1>1. PICK j : j = [script[p] EXCEPT !.at = at]
  OBVIOUS
<1>2. script' = [script EXCEPT ![p] = j]
  BY <1>1 DEF Corpus!Goto
<1>3. /\ Script(j) /\ j.at = at
      /\ j.batch = script[p].batch /\ j.seen = script[p].seen /\ j.todo = script[p].todo
  BY <1>1, MineFits, SetAt
<1> QED BY <1>2, <1>3

LEMMA Ends ==
  ASSUME NEW p \in Actor, Corpus!End(p)
  PROVE  \E j : /\ script' = [script EXCEPT ![p] = j] /\ Script(j) /\ j.at = "idle"
                /\ ~Holds(j) /\ ~Imports(j) /\ ~Deletes(j)
BY IdleFits DEF Corpus!End, Corpus!Set

LEMMA LockRetirementKeeps ==
  ASSUME CorpusInv, NEW p \in Actor, Corpus!LockRetirement(p)
  PROVE  CorpusKept
<1>1. /\ script[p].at = "wait" /\ Corpus!Goto(p, "next")
      /\ UNCHANGED <<corpus, stored, receipt, documents, tombstone, candidate, retirement, trash,
                     overlapped>>
  BY DEF Corpus!LockRetirement, Corpus!At, Corpus!outside, Corpus!intakes, Corpus!trees
<1>2. PICK j : /\ script' = [script EXCEPT ![p] = j] /\ Script(j) /\ j.at = "next"
               /\ j.seen = script[p].seen /\ j.todo = script[p].todo
  BY <1>1, GoesTo
<1>3. ScriptFits(j)'
  BY <1>1, <1>2, MineFits DEF ScriptFits, Holds, Imports, Deletes
<1> QED BY <1>1, <1>2, <1>3, ScriptKeeps DEF Holds, Imports, Deletes

LEMMA SurveyKeeps ==
  ASSUME CorpusInv, NEW p \in Actor, Corpus!Survey(p)
  PROVE  CorpusKept
<1>1. PICK j : /\ script' = [script EXCEPT ![p] = j] /\ Script(j)
               /\ j.at = "wait" /\ j.todo = {b \in Item : candidate[b] # Nil} /\ j.seen = candidate
  <2> DEFINE todo == {b \in Item : candidate[b] # Nil}
             one == [Corpus!Idle EXCEPT !.at = "wait"]
             two == [one EXCEPT !.todo = todo]
             row == [two EXCEPT !.seen = candidate]
  <2>1. script' = [script EXCEPT ![p] = row]
    BY DEF Corpus!Survey, Corpus!Set
  <2> HIDE DEF todo
  <2>2. Script(one) /\ one.at = "wait"
    BY IdleFits, SetAt
  <2> HIDE DEF one
  <2>3. Script(two) /\ two.at = "wait" /\ two.todo = todo
    BY <2>2, SetTodo
  <2> HIDE DEF two
  <2>4. Script(row) /\ row.at = "wait" /\ row.todo = todo /\ row.seen = candidate
    BY <2>3, SetSeen
  <2> HIDE DEF row
  <2> QED BY <2>1, <2>4 DEF todo
<1>2. UNCHANGED <<corpus, stored, receipt, documents, tombstone, candidate, retirement, trash,
                  overlapped>>
  BY DEF Corpus!Survey, Corpus!outside, Corpus!intakes, Corpus!trees
<1>3. ScriptFits(j)'
  BY <1>1, <1>2 DEF ScriptFits, Holds, Imports, Deletes
<1> QED BY <1>1, <1>2, <1>3, ScriptKeeps DEF Holds, Imports, Deletes

\* A table in which one batch's entry changes.
LEMMA OneEntry ==
  ASSUME NEW t, t = [b \in Item |-> t[b]], NEW c \in Item, NEW x, NEW u, u = [t EXCEPT ![c] = x]
  PROVE  /\ u = [b \in Item |-> u[b]] /\ u[c] = x
         /\ \A b \in Item \ {c} : u[b] = t[b]
OBVIOUS

LEMMA WriteReceiptKeeps ==
  ASSUME CorpusInv, NEW p \in Actor, Corpus!WriteReceipt(p)
  PROVE  CorpusKept
<1> DEFINE b == script[p].batch
<1>1. /\ script[p].at = "receipt"
      /\ UNCHANGED <<corpus, stored, documents, tombstone, candidate, retirement, trash, overlapped>>
  BY DEF Corpus!WriteReceipt, Corpus!At, Corpus!outside, Corpus!trees
<1>2. Imports(script[p]) /\ b \in Item /\ tombstone[b] = Nil
  BY <1>1, MineFits DEF ScriptFits, Holds, Imports
<1>3. CASE Corpus!End(p) /\ UNCHANGED receipt
  BY <1>1, <1>3, EndScriptKeeps
<1>4. CASE receipt' = [receipt EXCEPT ![b] = Corpus!Listed(p)] /\ Corpus!Goto(p, "documents")
  <2>1. PICK j : /\ script' = [script EXCEPT ![p] = j] /\ Script(j) /\ j.at = "documents"
                 /\ j.batch = b /\ j.seen = script[p].seen
    BY <1>4, GoesTo
  <2>2. receipt' = [c \in Item |-> receipt'[c]] /\ \A c \in Item \ {b} : receipt'[c] = receipt[c]
    BY <1>2, <1>4, OneEntry DEF CorpusInv, CorpusTables
  <2>3. ScriptFits(j)'
    BY <1>1, <1>2, <2>1, MineFits DEF ScriptFits, Holds, Imports, Deletes
  <2>4. ASSUME NEW q \in Actor \ {p}, NEW k, k = script[q] PROVE ScriptFits(k)'
    BY <1>1, <2>4 DEF CorpusInv, ScriptFits, Script, Holds, Imports, Deletes
  <2>5. CorpusTables'
    BY <1>1, <2>1, <2>2 DEF CorpusInv, CorpusTables
  <2>6. ListsInv' /\ Corpus!ListedIsStored'
    BY <1>1 DEF CorpusInv, ListsInv, Corpus!ListedIsStored
  <2>7. Corpus!RecordsAreTrue' /\ Corpus!BatchesStayGone
    BY <1>1, <1>2, <2>2 DEF CorpusInv, Corpus!RecordsAreTrue, Corpus!BatchesStayGone
  <2>8. Follows(j, script[p])
    BY <1>2, <2>1 DEF Follows, Holds, Imports, Deletes
  <2> QED BY <1>1, <2>1, <2>3, <2>4, <2>5, <2>6, <2>7, <2>8, FollowsKeeps
<1> QED BY <1>3, <1>4 DEF Corpus!WriteReceipt

LEMMA WriteDocumentsKeeps ==
  ASSUME CorpusInv, NEW p \in Actor, Corpus!WriteDocuments(p)
  PROVE  CorpusKept
<1> DEFINE b == script[p].batch
           new == Corpus!Listed(p)
<1>1. /\ script[p].at = "documents" /\ Corpus!End(p)
      /\ UNCHANGED <<corpus, stored, receipt, tombstone, candidate, retirement, trash, overlapped>>
  BY DEF Corpus!WriteDocuments, Corpus!At, Corpus!outside, Corpus!trees
<1>2. Imports(script[p]) /\ b \in Item /\ tombstone[b] = Nil
  BY <1>1, MineFits DEF ScriptFits, Holds, Imports
<1>3. CASE documents' = documents
  BY <1>1, <1>3, EndScriptKeeps
<1>4. CASE documents' = [documents EXCEPT ![b] = new]
  <2>1. PICK j : /\ script' = [script EXCEPT ![p] = j] /\ Script(j) /\ j.at = "idle"
                 /\ ~Holds(j) /\ ~Imports(j) /\ ~Deletes(j)
    BY <1>1, Ends
  <2>2. /\ new.listed = script[p].seen /\ Corpus!Content(new.listed) \subseteq Item
        /\ b \notin overlapped => Corpus!Content(new.listed) \subseteq stored
    BY <1>2, MineFits DEF ScriptFits, Corpus!Listed
  <2> HIDE DEF new
  <2>3. /\ documents' = [c \in Item |-> documents'[c]] /\ documents'[b] = new
        /\ \A c \in Item \ {b} : documents'[c] = documents[c]
    BY <1>2, <1>4, OneEntry DEF CorpusInv, CorpusTables
  <2>4. ScriptFits(j)'
    BY <1>1, <2>1 DEF ScriptFits, Holds, Imports, Deletes
  <2>5. ASSUME NEW q \in Actor \ {p}, NEW k, k = script[q] PROVE ScriptFits(k)'
    <3>1. k.at = "objects" => b \in overlapped
      BY <1>2, <2>5 DEF CorpusInv, LocksInv, Deletes
    <3>2. ScriptFits(k)
      BY <2>5 DEF CorpusInv
    <3> QED BY <1>1, <1>2, <2>3, <3>1, <3>2 DEF ScriptFits, Script, Holds, Imports, Deletes
  <2>6. CorpusTables'
    BY <1>1, <2>1, <2>3 DEF CorpusInv, CorpusTables
  <2>7. ListsInv' /\ Corpus!ListedIsStored'
    BY <1>1, <1>2, <2>2, <2>3 DEF CorpusInv, ListsInv, Corpus!ListedIsStored
  <2>8. Corpus!RecordsAreTrue' /\ Corpus!BatchesStayGone
    BY <1>1, <1>2, <2>3 DEF CorpusInv, Corpus!RecordsAreTrue, Corpus!BatchesStayGone
  <2>9. Follows(j, script[p])
    BY <2>1 DEF Follows
  <2> QED BY <1>1, <2>1, <2>4, <2>5, <2>6, <2>7, <2>8, <2>9, FollowsKeeps
<1> QED BY <1>3, <1>4 DEF Corpus!WriteDocuments

\* The contents of a listing with one more file.
LEMMA ContentGrows ==
  ASSUME NEW listing, NEW f, NEW d, NEW longer,
         longer = [x \in DOMAIN listing \cup {f} |-> IF x = f THEN d ELSE listing[x]]
  PROVE  Corpus!Content(longer) \subseteq Corpus!Content(listing) \cup {d}
BY DEF Corpus!Content

LEMMA CopyFileKeeps ==
  ASSUME CorpusInv, NEW p \in Actor, Corpus!CopyFile(p)
  PROVE  CorpusKept
<1> DEFINE i == script[p]
<1>1. /\ i.at = "copy"
      /\ UNCHANGED <<corpus, receipt, documents, tombstone, candidate, retirement, trash, overlapped>>
  BY DEF Corpus!CopyFile, Corpus!At, Corpus!outside, Corpus!intakes, Corpus!trees
<1>2. Script(i) /\ ScriptFits(i) /\ Imports(i) /\ i.todo \subseteq Paths
  BY <1>1, MineFits DEF ScriptFits, Imports
<1>3. PICK f \in i.todo :
        IF corpus[f] = Nil THEN Corpus!End(p) /\ UNCHANGED stored
        ELSE /\ stored' = stored \cup {corpus[f]}
             /\ Corpus!Set(p, [i EXCEPT
                  !.seen = [x \in DOMAIN i.seen \cup {f} |-> IF x = f THEN corpus[f] ELSE i.seen[x]],
                  !.todo = i.todo \ {f}, !.at = IF i.todo = {f} THEN "receipt" ELSE i.at])
  BY DEF Corpus!CopyFile
<1>4. CASE corpus[f] = Nil
  BY <1>1, <1>3, <1>4, EndScriptKeeps
<1>5. CASE corpus[f] # Nil
  <2> DEFINE longer == [x \in DOMAIN i.seen \cup {f} |-> IF x = f THEN corpus[f] ELSE i.seen[x]]
             todo == i.todo \ {f}
             at == IF i.todo = {f} THEN "receipt" ELSE i.at
             one == [i EXCEPT !.seen = longer]
             two == [one EXCEPT !.todo = todo]
             row == [two EXCEPT !.at = at]
  <2>1. corpus[f] \in Item /\ stored' = stored \cup {corpus[f]}
    BY <1>2, <1>3, <1>5 DEF CorpusInv, CorpusTables
  <2>2. Corpus!Content(longer) \subseteq Corpus!Content(i.seen) \cup {corpus[f]}
    BY ContentGrows
  <2>3. at \in {"copy", "receipt"} /\ todo \subseteq Paths
    BY <1>1, <1>2
  <2>4. script' = [script EXCEPT ![p] = row]
    BY <1>3, <1>5 DEF Corpus!Set
  <2> HIDE DEF longer, todo, at
  <2>5. Script(one) /\ one.seen = longer /\ one.batch = i.batch
    BY <1>2, SetSeen
  <2> HIDE DEF one
  <2>6. Script(two) /\ two.seen = longer /\ two.batch = i.batch /\ two.todo = todo
    BY <2>5, SetTodo
  <2> HIDE DEF two
  <2>7. Script(row) /\ row.seen = longer /\ row.batch = i.batch /\ row.todo = todo /\ row.at = at
    BY <2>6, SetAt
  <2> HIDE DEF row
  <2>8. PICK j : j = row
    OBVIOUS
  <2>9. ScriptFits(j)'
    BY <1>1, <1>2, <2>1, <2>2, <2>3, <2>7, <2>8 DEF ScriptFits, Holds, Imports, Deletes
  <2>10. ASSUME NEW q \in Actor \ {p}, NEW k, k = script[q] PROVE ScriptFits(k)'
    BY <1>1, <2>1, <2>10 DEF CorpusInv, ScriptFits, Script, Holds, Imports, Deletes
  <2>11. CorpusTables'
    BY <1>1, <2>4 DEF CorpusInv, CorpusTables
  <2>12. ListsInv' /\ Corpus!ListedIsStored'
    BY <1>1, <2>1 DEF CorpusInv, ListsInv, Corpus!ListedIsStored
  <2>13. Corpus!RecordsAreTrue' /\ Corpus!BatchesStayGone
    BY <1>1 DEF CorpusInv, Corpus!RecordsAreTrue, Corpus!BatchesStayGone
  <2>14. Follows(j, script[p])
    BY <1>2, <2>3, <2>7, <2>8 DEF Follows, Holds, Imports, Deletes
  <2> QED BY <1>1, <2>4, <2>8, <2>9, <2>10, <2>11, <2>12, <2>13, <2>14, FollowsKeeps
<1> QED BY <1>4, <1>5

LEMMA TombstoneBatchKeeps ==
  ASSUME CorpusInv, NEW p \in Actor, NEW b \in Item, Corpus!Tombstone(p, b)
  PROVE  CorpusKept
<1>1. PICK j : /\ script' = [script EXCEPT ![p] = j] /\ Script(j)
               /\ j.at = "share" /\ j.batch = b
  <2>1. PICK one : one = [Corpus!Idle EXCEPT !.at = "share"]
    OBVIOUS
  <2>2. PICK row : row = [one EXCEPT !.batch = b]
    OBVIOUS
  <2>3. script' = [script EXCEPT ![p] = row]
    BY <2>1, <2>2 DEF Corpus!Tombstone, Corpus!Set
  <2>4. Script(one) /\ one.at = "share"
    BY <2>1, IdleFits, SetAt
  <2>5. Script(row) /\ row.at = "share" /\ row.batch = b
    BY <2>2, <2>4, SetBatch
  <2> QED BY <2>3, <2>5
<1>2. UNCHANGED <<corpus, stored, receipt, documents, candidate, retirement, trash, overlapped>>
  BY DEF Corpus!Tombstone, Corpus!outside, Corpus!intakes, Corpus!trees
<1>3. \A q \in Actor : Holds(script[q]) => script[q].batch # b
  BY DEF Corpus!Tombstone, Corpus!BatchLocked, Corpus!Importing, Corpus!Deleting, Corpus!At,
         Holds, Imports, Deletes
<1>4. ~Imports(j) /\ ~Deletes(j)
  BY <1>1 DEF Imports, Deletes
<1> DEFINE new == [state |-> "pending", actor |-> p,
                   digests |-> Corpus!Content(documents[b].listed)]
<1>5. CASE tombstone[b] # Nil /\ UNCHANGED tombstone
  <2>1. ScriptFits(j)'
    BY <1>1, <1>2, <1>5 DEF ScriptFits, Holds, Imports, Deletes
  <2> QED BY <1>1, <1>2, <1>3, <1>4, <1>5, <2>1, ScriptKeeps
<1>6. CASE tombstone[b] = Nil /\ documents[b] # Nil /\ tombstone' = [tombstone EXCEPT ![b] = new]
  <2>1. Corpus!Content(documents[b].listed) \subseteq Item
    BY <1>6 DEF CorpusInv, ListsInv
  <2>2. new \in Deletions /\ new # Nil /\ new.state = "pending"
    BY <2>1, ReleasesAssumption DEF Deletions
  <2> HIDE DEF new
  <2>3. /\ tombstone' \in [Item -> Deletions \cup {Nil}] /\ tombstone'[b] = new
        /\ \A c \in Item \ {b} : tombstone'[c] = tombstone[c]
    BY <1>6, <2>2 DEF CorpusInv, CorpusTables
  <2>4. ScriptFits(j)'
    BY <1>1, <1>2, <2>2, <2>3 DEF ScriptFits, Holds, Imports, Deletes
  <2>5. ASSUME NEW q \in Actor \ {p}, NEW k, k = script[q] PROVE ScriptFits(k)'
    <3>1. ScriptFits(k) /\ (Holds(k) => k.batch # b)
      BY <1>3, <2>5 DEF CorpusInv
    <3> QED BY <1>2, <1>6, <2>2, <2>3, <3>1 DEF ScriptFits, Script, Holds, Imports, Deletes
  <2>6. CorpusTables'
    BY <1>1, <1>2, <2>3 DEF CorpusInv, CorpusTables
  <2>7. ListsInv' /\ Corpus!ListedIsStored'
    BY <1>2, <1>6, <2>2, <2>3 DEF CorpusInv, ListsInv, Corpus!ListedIsStored
  <2>8. Corpus!RecordsAreTrue'
    BY <1>2, <1>6, <2>2, <2>3 DEF CorpusInv, Corpus!RecordsAreTrue
  <2>9. Corpus!BatchesStayGone
    BY <1>2, <1>6, <2>3 DEF Corpus!BatchesStayGone
  <2> QED BY <1>1, <1>2, <1>3, <1>4, <2>4, <2>5, <2>6, <2>7, <2>8, <2>9, ScriptStepKeeps
<1> QED BY <1>5, <1>6 DEF Corpus!Tombstone

LEMMA ShareKeeps ==
  ASSUME CorpusInv, NEW p \in Actor, Corpus!Share(p)
  PROVE  CorpusKept
<1> DEFINE i == script[p]
           b == i.batch
<1>1. /\ i.at = "share"
      /\ UNCHANGED <<corpus, stored, receipt, documents, tombstone, retirement, trash>>
      /\ candidate' = [candidate EXCEPT ![b] = Nil]
      /\ overlapped' = overlapped \cup {script[q].batch : q \in {q \in Actor : Imports(script[q])}}
  BY DEF Corpus!Share, Corpus!At, Corpus!outside, Corpus!intakes, Corpus!Importing, Imports
<1>2. Script(i) /\ Holds(i) /\ b \in Item /\ tombstone[b] # Nil
  BY <1>1, MineFits DEF ScriptFits, Holds
<1>3. PICK j : /\ script' = [script EXCEPT ![p] = j] /\ Script(j) /\ j.at = "objects"
               /\ j.batch = b /\ j.todo = tombstone[b].digests \ Corpus!Shared(b)
  <2> DEFINE todo == tombstone[b].digests \ Corpus!Shared(b)
             one == [i EXCEPT !.at = "objects"]
             row == [one EXCEPT !.todo = todo]
  <2>1. script' = [script EXCEPT ![p] = row]
    BY DEF Corpus!Share, Corpus!Set
  <2> HIDE DEF todo
  <2>2. Script(one) /\ one.at = "objects" /\ one.batch = b
    BY <1>2, SetAt
  <2> HIDE DEF one
  <2>3. Script(row) /\ row.at = "objects" /\ row.batch = b /\ row.todo = todo
    BY <2>2, SetTodo
  <2> HIDE DEF row
  <2> QED BY <2>1, <2>3 DEF todo
<1>4. /\ candidate' = [c \in Item |-> candidate'[c]] /\ candidate'[b] = Nil
      /\ \A c \in Item \ {b} : candidate'[c] = candidate[c]
  BY <1>1, <1>2, OneEntry DEF CorpusInv, CorpusTables
<1>5. \A q \in Actor : Imports(script[q]) => script[q].batch \in overlapped'
  BY <1>1
<1>6. ASSUME NEW c \in Item, documents[c] # Nil, tombstone[c] = Nil
      PROVE  Corpus!Content(documents[c].listed) \cap j.todo = {}
  <2>1. Corpus!Content(documents[c].listed) \subseteq Corpus!Shared(b)
    BY <1>2, <1>6 DEF Corpus!Shared
  <2> QED BY <1>3, <2>1
<1> HIDE DEF i, b
<1>7. ScriptFits(j)'
  BY <1>1, <1>2, <1>3, <1>4, <1>6 DEF ScriptFits, Holds, Imports, Deletes, b
<1>8. ASSUME NEW q \in Actor \ {p}, NEW k, k = script[q] PROVE ScriptFits(k)'
  <2>1. ScriptFits(k) /\ overlapped \subseteq overlapped'
    BY <1>1, <1>8 DEF CorpusInv
  <2> QED BY <1>1, <1>4, <2>1 DEF ScriptFits, Script, Holds, Imports, Deletes
<1>9. CorpusTables'
  BY <1>1, <1>3, <1>4 DEF CorpusInv, CorpusTables
<1>10. ListsInv' /\ Corpus!ListedIsStored'
  BY <1>1 DEF CorpusInv, ListsInv, Corpus!ListedIsStored
<1>11. Corpus!RecordsAreTrue'
  BY <1>1, <1>2, <1>4 DEF CorpusInv, Corpus!RecordsAreTrue
<1>12. Corpus!BatchesStayGone
  BY <1>1, <1>4 DEF Corpus!BatchesStayGone
<1>13. /\ Holds(j) => \A q \in Actor \ {p} : Holds(script[q]) => script[q].batch # j.batch
       /\ ~Imports(j)
  BY <1>2, <1>3 DEF CorpusInv, LocksInv, Imports, i, b
<1> QED BY <1>1, <1>3, <1>5, <1>7, <1>8, <1>9, <1>10, <1>11, <1>12, <1>13, ScriptStepKeeps

LEMMA DropObjectKeeps ==
  ASSUME CorpusInv, NEW p \in Actor, Corpus!DropObject(p)
  PROVE  CorpusKept
<1> DEFINE i == script[p]
<1>1. /\ i.at = "objects"
      /\ UNCHANGED <<corpus, receipt, documents, tombstone, candidate, retirement, trash, overlapped>>
  BY DEF Corpus!DropObject, Corpus!At, Corpus!outside, Corpus!intakes, Corpus!trees
<1>2. Script(i) /\ ScriptFits(i) /\ Holds(i) /\ Deletes(i) /\ ~Imports(i)
  BY <1>1, MineFits DEF Holds, Deletes, Imports
<1>3. CASE Corpus!Goto(p, "intake") /\ UNCHANGED stored
  <2>1. PICK j : /\ script' = [script EXCEPT ![p] = j] /\ Script(j) /\ j.at = "intake"
                 /\ j.batch = i.batch
    BY <1>3, GoesTo
  <2>2. ScriptFits(j)'
    BY <1>1, <1>2, <1>3, <2>1 DEF ScriptFits, Holds, Imports, Deletes
  <2>3. /\ Holds(j) => \A q \in Actor \ {p} : Holds(script[q]) => script[q].batch # j.batch
        /\ ~Imports(j)
        /\ Deletes(j) => \A q \in Actor \ {p} : Imports(script[q]) => script[q].batch \in overlapped'
    BY <1>1, <1>2, <2>1 DEF CorpusInv, LocksInv, Imports, Holds, Deletes
  <2> QED BY <1>1, <1>3, <2>1, <2>2, <2>3, ScriptKeeps
<1>4. ASSUME NEW d \in i.todo, stored' = stored \ {d},
             script' = [script EXCEPT ![p].todo = i.todo \ {d}]
      PROVE  CorpusKept
  <2>1. PICK j : j = [i EXCEPT !.todo = i.todo \ {d}]
    OBVIOUS
  <2>2. script' = [script EXCEPT ![p] = j]
    BY <1>4, <2>1
  <2>3. /\ Script(j) /\ j.at = "objects" /\ j.batch = i.batch /\ j.todo = i.todo \ {d}
    BY <1>1, <1>2, <2>1, SetTodo
  <2>4. ScriptFits(j)'
    BY <1>1, <1>2, <2>3 DEF ScriptFits, Holds, Imports, Deletes
  <2>5. ASSUME NEW q \in Actor \ {p}, NEW k, k = script[q] PROVE ScriptFits(k)'
    <3>1. ScriptFits(k) /\ (Imports(k) => k.batch \in overlapped)
      BY <1>2, <2>5 DEF CorpusInv, LocksInv
    <3> QED BY <1>1, <3>1 DEF ScriptFits, Script, Holds, Imports, Deletes
  <2>6. CorpusTables'
    BY <1>1, <2>2 DEF CorpusInv, CorpusTables
  <2>7. Corpus!ListedIsStored'
    <3>1. ASSUME NEW b \in Item \ overlapped, documents[b] # Nil, tombstone[b] = Nil
          PROVE  Corpus!Content(documents[b].listed) \subseteq stored'
      <4>1. Corpus!Content(documents[b].listed) \subseteq stored
        BY <3>1 DEF CorpusInv, Corpus!ListedIsStored
      <4>2. d \notin Corpus!Content(documents[b].listed)
        BY <1>1, <1>2, <1>4, <3>1 DEF ScriptFits
      <4> QED BY <1>4, <4>1, <4>2
    <3> QED BY <1>1, <3>1 DEF Corpus!ListedIsStored
  <2>8. ListsInv' /\ Corpus!RecordsAreTrue' /\ Corpus!BatchesStayGone
    BY <1>1 DEF CorpusInv, ListsInv, Corpus!RecordsAreTrue, Corpus!BatchesStayGone
  <2>9. Follows(j, script[p])
    BY <1>2, <2>3 DEF Follows, Holds, Imports, Deletes
  <2> QED BY <1>1, <2>2, <2>4, <2>5, <2>6, <2>7, <2>8, <2>9, FollowsKeeps
<1> QED BY <1>3, <1>4 DEF Corpus!DropObject

\* Steps that leave the scripts' rows alone.
LEMMA SameScripts ==
  ASSUME CorpusInv, NEW p \in Actor, UNCHANGED script,
         UNCHANGED overlapped, CorpusTables',
         \A q \in Actor : \A k : k = script[q] => ScriptFits(k)',
         ListsInv', Corpus!RecordsAreTrue', Corpus!ListedIsStored', Corpus!BatchesStayGone
  PROVE  CorpusKept
<1>1. ASSUME NEW q \in Actor PROVE ScriptFits(script[q])'
  <2>1. PICK k : k = script[q]
    OBVIOUS
  <2>2. script'[q] = k /\ ScriptFits(k)'
    BY <2>1
  <2> QED BY <2>2 DEF ScriptFits
<1>2. LocksInv'
  BY DEF CorpusInv, LocksInv, Holds, Imports, Deletes
<1> QED BY <1>1, <1>2 DEF CorpusKept, CorpusInv

LEMMA DropIntakeKeeps ==
  ASSUME CorpusInv, NEW p \in Actor, Corpus!DropIntake(p)
  PROVE  CorpusKept
<1> DEFINE i == script[p]
           b == i.batch
<1>1. /\ i.at = "intake"
      /\ UNCHANGED <<corpus, stored, candidate, retirement, trash, overlapped>>
  BY DEF Corpus!DropIntake, Corpus!At, Corpus!outside, Corpus!trees
<1>2. /\ Script(i) /\ Holds(i) /\ b \in Item /\ tombstone[b] # Nil /\ candidate[b] = Nil
  BY <1>1, MineFits DEF ScriptFits, Holds, Deletes
<1>3. CASE receipt' = [receipt EXCEPT ![b] = Nil] /\ UNCHANGED <<documents, tombstone, script>>
  <2>1. /\ receipt' = [c \in Item |-> receipt'[c]] /\ receipt'[b] = Nil
        /\ \A c \in Item \ {b} : receipt'[c] = receipt[c]
    BY <1>2, <1>3, OneEntry DEF CorpusInv, CorpusTables
  <2>2. ASSUME NEW q \in Actor, NEW k, k = script[q] PROVE ScriptFits(k)'
    BY <1>1, <1>3, <2>2 DEF CorpusInv, ScriptFits, Script, Holds, Imports, Deletes
  <2>3. CorpusTables'
    BY <1>1, <1>3, <2>1 DEF CorpusInv, CorpusTables
  <2>4. ListsInv' /\ Corpus!ListedIsStored'
    BY <1>1, <1>3 DEF CorpusInv, ListsInv, Corpus!ListedIsStored
  <2>5. Corpus!RecordsAreTrue' /\ Corpus!BatchesStayGone
    BY <1>1, <1>3, <2>1 DEF CorpusInv, Corpus!RecordsAreTrue, Corpus!BatchesStayGone
  <2> QED BY <1>1, <1>3, <2>2, <2>3, <2>4, <2>5, SameScripts
<1>4. CASE documents' = [documents EXCEPT ![b] = Nil] /\ UNCHANGED <<receipt, tombstone, script>>
  <2>1. /\ documents' = [c \in Item |-> documents'[c]] /\ documents'[b] = Nil
        /\ \A c \in Item \ {b} : documents'[c] = documents[c]
    BY <1>2, <1>4, OneEntry DEF CorpusInv, CorpusTables
  <2>2. ASSUME NEW q \in Actor, NEW k, k = script[q] PROVE ScriptFits(k)'
    BY <1>1, <1>2, <1>4, <2>1, <2>2 DEF CorpusInv, ScriptFits, Script, Holds, Imports, Deletes
  <2>3. CorpusTables'
    BY <1>1, <1>4, <2>1 DEF CorpusInv, CorpusTables
  <2>4. ListsInv' /\ Corpus!ListedIsStored'
    BY <1>1, <1>2, <1>4, <2>1 DEF CorpusInv, ListsInv, Corpus!ListedIsStored
  <2>5. Corpus!RecordsAreTrue' /\ Corpus!BatchesStayGone
    BY <1>1, <1>4, <2>1 DEF CorpusInv, Corpus!RecordsAreTrue, Corpus!BatchesStayGone
  <2> QED BY <1>1, <1>4, <2>2, <2>3, <2>4, <2>5, SameScripts
<1>5. CASE /\ receipt[b] = Nil /\ documents[b] = Nil
           /\ tombstone' = [tombstone EXCEPT ![b].state = "complete"]
           /\ Corpus!End(p) /\ UNCHANGED <<receipt, documents>>
  <2>1. PICK j : /\ script' = [script EXCEPT ![p] = j] /\ Script(j) /\ j.at = "idle"
                 /\ ~Holds(j) /\ ~Imports(j) /\ ~Deletes(j)
    BY <1>5, Ends
  <2>2. tombstone[b] \in Deletions
    BY <1>2 DEF CorpusInv, CorpusTables
  <2>3. PICK t : t = [tombstone[b] EXCEPT !.state = "complete"]
    OBVIOUS
  <2>4. t \in Deletions /\ t.state = "complete" /\ t # Nil
    BY <2>2, <2>3, ReleasesAssumption DEF Deletions
  <2>5. tombstone' = [tombstone EXCEPT ![b] = t]
    BY <1>5, <2>3
  <2>6. /\ tombstone' \in [Item -> Deletions \cup {Nil}] /\ tombstone'[b] = t
        /\ \A c \in Item \ {b} : tombstone'[c] = tombstone[c]
    BY <1>2, <2>4, <2>5 DEF CorpusInv, CorpusTables
  <2>7. ScriptFits(j)'
    BY <2>1 DEF ScriptFits, Holds, Imports, Deletes
  <2>8. ASSUME NEW q \in Actor \ {p}, NEW k, k = script[q] PROVE ScriptFits(k)'
    <3>1. ScriptFits(k)
      BY <2>8 DEF CorpusInv
    <3> QED BY <1>1, <1>2, <1>5, <2>4, <2>6, <3>1 DEF ScriptFits, Script, Holds, Imports, Deletes
  <2>9. CorpusTables'
    BY <1>1, <1>5, <2>1, <2>6 DEF CorpusInv, CorpusTables
  <2>10. ListsInv' /\ Corpus!ListedIsStored'
    BY <1>1, <1>2, <1>5, <2>4, <2>6 DEF CorpusInv, ListsInv, Corpus!ListedIsStored
  <2>11. Corpus!RecordsAreTrue'
    BY <1>1, <1>2, <1>5, <2>4, <2>6 DEF CorpusInv, Corpus!RecordsAreTrue
  <2>12. Corpus!BatchesStayGone
    BY <1>1, <1>5, <2>3, <2>6 DEF Corpus!BatchesStayGone
  <2>13. Follows(j, script[p])
    BY <2>1 DEF Follows
  <2> QED BY <1>1, <2>1, <2>7, <2>8, <2>9, <2>10, <2>11, <2>12, <2>13, FollowsKeeps
<1> QED BY <1>3, <1>4, <1>5 DEF Corpus!DropIntake, Corpus!intakes

LEMMA RetireKeeps ==
  ASSUME CorpusInv, NEW p \in Actor, Corpus!Retire(p)
  PROVE  CorpusKept
<1> DEFINE i == script[p]
<1>1. /\ i.at = "next"
      /\ UNCHANGED <<corpus, stored, receipt, documents, tombstone, candidate, trash, overlapped>>
  BY DEF Corpus!Retire, Corpus!At, Corpus!outside, Corpus!intakes
<1>2. Script(i) /\ \A b \in i.todo : b \in Item /\ i.seen[b] # Nil
  BY <1>1, MineFits DEF ScriptFits
<1>3. CASE Corpus!End(p) /\ UNCHANGED retirement
  BY <1>1, <1>3, EndScriptKeeps
<1>4. ASSUME NEW b \in i.todo, Corpus!AsFound(p, b), retirement' = [retirement EXCEPT ![b] = "pending"],
             Corpus!Set(p, [i EXCEPT !.at = "move", !.batch = b, !.todo = i.todo \ {b}])
      PROVE  CorpusKept
  <2>1. PICK todo : todo = i.todo \ {b}
    OBVIOUS
  <2>2. PICK one : one = [i EXCEPT !.at = "move"]
    OBVIOUS
  <2>3. PICK two : two = [one EXCEPT !.batch = b]
    OBVIOUS
  <2>4. PICK j : j = [two EXCEPT !.todo = todo]
    OBVIOUS
  <2>5. script' = [script EXCEPT ![p] = j]
    BY <1>4, <2>1, <2>2, <2>3, <2>4 DEF Corpus!Set
  <2>6. Script(one) /\ one.at = "move" /\ one.seen = i.seen
    BY <1>2, <2>2, SetAt
  <2>7. Script(two) /\ two.at = "move" /\ two.seen = i.seen /\ two.batch = b
    BY <2>3, <2>6, SetBatch
  <2>8. Script(j) /\ j.at = "move" /\ j.seen = i.seen /\ j.batch = b /\ j.todo = todo
    BY <2>4, <2>7, SetTodo
  <2>9. b \in Item /\ candidate[b] # Nil
    BY <1>2, <1>4 DEF Corpus!AsFound
  <2>10. /\ retirement' = [c \in Item |-> retirement'[c]] /\ retirement'[b] = "pending"
         /\ \A c \in Item \ {b} : retirement'[c] = retirement[c]
    BY <1>4, <2>9, OneEntry DEF CorpusInv, CorpusTables
  <2>11. ScriptFits(j)'
    BY <1>2, <2>1, <2>8, <2>9 DEF ScriptFits, Holds, Imports, Deletes
  <2>12. ASSUME NEW q \in Actor \ {p}, NEW k, k = script[q] PROVE ScriptFits(k)'
    BY <1>1, <2>12 DEF CorpusInv, ScriptFits, Script, Holds, Imports, Deletes
  <2>13. CorpusTables'
    BY <1>1, <2>5, <2>10 DEF CorpusInv, CorpusTables
  <2>14. ListsInv' /\ Corpus!ListedIsStored'
    BY <1>1 DEF CorpusInv, ListsInv, Corpus!ListedIsStored
  <2>15. Corpus!RecordsAreTrue' /\ Corpus!BatchesStayGone
    BY <1>1, <2>9, <2>10 DEF CorpusInv, Corpus!RecordsAreTrue, Corpus!BatchesStayGone
  <2>16. Follows(j, script[p])
    BY <2>8 DEF Follows, Holds, Imports, Deletes
  <2> QED BY <1>1, <2>5, <2>11, <2>12, <2>13, <2>14, <2>15, <2>16, FollowsKeeps
<1> QED BY <1>3, <1>4 DEF Corpus!Retire

LEMMA MoveKeeps ==
  ASSUME CorpusInv, NEW p \in Actor, Corpus!Move(p)
  PROVE  CorpusKept
<1> DEFINE i == script[p]
           b == i.batch
<1>1. /\ i.at = "move"
      /\ UNCHANGED <<corpus, stored, receipt, documents, tombstone, retirement, overlapped>>
  BY DEF Corpus!Move, Corpus!At, Corpus!outside, Corpus!intakes
<1>2. b \in Item /\ \A c \in i.todo : c \in Item /\ i.seen[c] # Nil
  BY <1>1, MineFits DEF ScriptFits
<1>3. CASE Corpus!End(p) /\ UNCHANGED <<candidate, trash>>
  BY <1>1, <1>3, EndScriptKeeps
<1>4. CASE /\ candidate[b] # Nil /\ trash' = [trash EXCEPT ![b] = candidate[b]]
           /\ candidate' = [candidate EXCEPT ![b] = Nil] /\ Corpus!Goto(p, "settle")
  <2>1. PICK j : /\ script' = [script EXCEPT ![p] = j] /\ Script(j) /\ j.at = "settle"
                 /\ j.batch = b /\ j.seen = i.seen /\ j.todo = i.todo
    BY <1>4, GoesTo
  <2>2. /\ candidate' = [c \in Item |-> candidate'[c]] /\ candidate'[b] = Nil
        /\ \A c \in Item \ {b} : candidate'[c] = candidate[c]
    BY <1>2, <1>4, OneEntry DEF CorpusInv, CorpusTables
  <2>3. /\ trash' = [c \in Item |-> trash'[c]] /\ trash'[b] = candidate[b]
        /\ \A c \in Item \ {b} : trash'[c] = trash[c]
    BY <1>2, <1>4, OneEntry DEF CorpusInv, CorpusTables
  <2>4. ScriptFits(j)'
    BY <1>2, <1>4, <2>1, <2>3 DEF ScriptFits, Holds, Imports, Deletes
  <2>5. ASSUME NEW q \in Actor \ {p}, NEW k, k = script[q] PROVE ScriptFits(k)'
    <3>1. ScriptFits(k)
      BY <2>5 DEF CorpusInv
    <3> QED BY <1>1, <1>4, <2>2, <2>3, <3>1 DEF ScriptFits, Script, Holds, Imports, Deletes
  <2>6. CorpusTables'
    BY <1>1, <2>1, <2>2, <2>3 DEF CorpusInv, CorpusTables
  <2>7. ListsInv' /\ Corpus!ListedIsStored'
    BY <1>1 DEF CorpusInv, ListsInv, Corpus!ListedIsStored
  <2>8. Corpus!RecordsAreTrue'
    BY <1>1, <1>4, <2>2, <2>3 DEF CorpusInv, Corpus!RecordsAreTrue
  <2>9. Corpus!BatchesStayGone
    BY <1>1, <2>2 DEF Corpus!BatchesStayGone
  <2>10. Follows(j, script[p])
    BY <2>1 DEF Follows, Holds, Imports, Deletes
  <2> QED BY <1>1, <2>1, <2>4, <2>5, <2>6, <2>7, <2>8, <2>9, <2>10, FollowsKeeps
<1> QED BY <1>3, <1>4 DEF Corpus!Move

LEMMA SettleKeeps ==
  ASSUME CorpusInv, NEW p \in Actor, Corpus!Settle(p)
  PROVE  CorpusKept
<1> DEFINE i == script[p]
           b == i.batch
<1>1. /\ i.at = "settle" /\ retirement' = [retirement EXCEPT ![b] = "complete"]
      /\ UNCHANGED <<corpus, stored, receipt, documents, tombstone, candidate, trash, overlapped>>
  BY DEF Corpus!Settle, Corpus!At, Corpus!outside, Corpus!intakes
<1>2. /\ Script(i) /\ b \in Item /\ trash[b] # Nil
      /\ \A c \in i.todo : c \in Item /\ i.seen[c] # Nil
  BY <1>1, MineFits DEF ScriptFits
<1>3. PICK one : one = [i EXCEPT !.at = "next"]
  OBVIOUS
<1>4. PICK j : j = [one EXCEPT !.batch = Nil]
  OBVIOUS
<1>5. script' = [script EXCEPT ![p] = j]
  BY <1>3, <1>4 DEF Corpus!Settle, Corpus!Set
<1>6. Script(one) /\ one.at = "next" /\ one.seen = i.seen /\ one.todo = i.todo
  BY <1>2, <1>3, SetAt
<1>7. Script(j) /\ j.at = "next" /\ j.seen = i.seen /\ j.todo = i.todo
  BY <1>4, <1>6, SetBatch
<1>8. /\ retirement' = [c \in Item |-> retirement'[c]] /\ retirement'[b] = "complete"
      /\ \A c \in Item \ {b} : retirement'[c] = retirement[c]
  BY <1>1, <1>2, OneEntry DEF CorpusInv, CorpusTables
<1>9. ScriptFits(j)'
  BY <1>2, <1>7 DEF ScriptFits, Holds, Imports, Deletes
<1>10. ASSUME NEW q \in Actor \ {p}, NEW k, k = script[q] PROVE ScriptFits(k)'
  BY <1>1, <1>10 DEF CorpusInv, ScriptFits, Script, Holds, Imports, Deletes
<1>11. CorpusTables'
  BY <1>1, <1>5, <1>8 DEF CorpusInv, CorpusTables
<1>12. ListsInv' /\ Corpus!ListedIsStored'
  BY <1>1 DEF CorpusInv, ListsInv, Corpus!ListedIsStored
<1>13. Corpus!RecordsAreTrue' /\ Corpus!BatchesStayGone
  BY <1>1, <1>2, <1>8 DEF CorpusInv, Corpus!RecordsAreTrue, Corpus!BatchesStayGone
<1>14. Follows(j, script[p])
  BY <1>7 DEF Follows, Holds, Imports, Deletes
<1> QED BY <1>1, <1>5, <1>9, <1>10, <1>11, <1>12, <1>13, <1>14, FollowsKeeps

LEMMA OutsideKeeps ==
  ASSUME CorpusInv, Corpus!EditCorpus \/ \E b \in Item : Corpus!Build(b)
  PROVE  CorpusKept
<1>1. UNCHANGED <<stored, receipt, documents, tombstone, retirement, trash, script, overlapped>>
  BY DEF Corpus!EditCorpus, Corpus!Build, Corpus!intakes, Corpus!trees
<1>2. LocksInv' /\ ListsInv' /\ Corpus!ListedIsStored'
  BY <1>1 DEF CorpusInv, LocksInv, ListsInv, Corpus!ListedIsStored, Holds, Imports, Deletes
<1>3. CASE Corpus!EditCorpus
  <2>1. UNCHANGED candidate /\ corpus' \in [Paths -> Item \cup {Nil}]
    BY <1>3 DEF Corpus!EditCorpus, Corpus!trees, CorpusInv, CorpusTables, Paths
  <2>2. CorpusTables' /\ Corpus!RecordsAreTrue' /\ Corpus!BatchesStayGone
    BY <1>1, <2>1 DEF CorpusInv, CorpusTables, Corpus!RecordsAreTrue, Corpus!BatchesStayGone
  <2>3. ASSUME NEW q \in Actor PROVE ScriptFits(script[q])'
    BY <1>1, <2>1 DEF CorpusInv, ScriptFits, Script, Holds, Imports, Deletes
  <2> QED BY <1>2, <2>2, <2>3 DEF CorpusKept, CorpusInv
<1>4. ASSUME NEW b \in Item, Corpus!Build(b) PROVE CorpusKept
  <2>1. /\ tombstone[b] = Nil /\ UNCHANGED corpus
        /\ candidate' = [candidate EXCEPT ![b] = "t1"]
    BY <1>4 DEF Corpus!Build
  <2>2. /\ candidate' = [c \in Item |-> candidate'[c]] /\ candidate'[b] # Nil
        /\ \A c \in Item \ {b} : candidate'[c] = candidate[c]
    BY <2>1, OneEntry, ReleasesAssumption DEF CorpusInv, CorpusTables
  <2>3. CorpusTables'
    BY <1>1, <2>1, <2>2 DEF CorpusInv, CorpusTables
  <2>4. Corpus!RecordsAreTrue' /\ Corpus!BatchesStayGone
    BY <1>1, <2>1, <2>2 DEF CorpusInv, Corpus!RecordsAreTrue, Corpus!BatchesStayGone
  <2>5. ASSUME NEW q \in Actor PROVE ScriptFits(script[q])'
    <3>1. ScriptFits(script[q])
      BY DEF CorpusInv
    <3> QED BY <1>1, <2>1, <2>2, <3>1 DEF ScriptFits, Script, Holds, Imports, Deletes
  <2> QED BY <1>2, <2>3, <2>4, <2>5 DEF CorpusKept, CorpusInv
<1> QED BY <1>3, <1>4

LEMMA CorpusCrashKeeps ==
  ASSUME CorpusInv, NEW p \in Actor, Corpus!Crash(p)
  PROVE  CorpusKept
BY EndScriptKeeps DEF Corpus!Crash, Corpus!outside, Corpus!intakes, Corpus!trees

\* Every step of the scripts keeps the invariant.
LEMMA CorpusStep == CorpusInv /\ [Corpus!Next]_corpusVars => CorpusKept
<1> SUFFICES ASSUME CorpusInv, [Corpus!Next]_corpusVars PROVE CorpusKept
  OBVIOUS
<1>1. CASE UNCHANGED corpusVars
  <2>1. UNCHANGED <<corpus, changes, stored, receipt, documents, tombstone, candidate, retirement,
                    trash, script, overlapped>>
    BY <1>1 DEF corpusVars
  <2>2. CorpusTables' /\ LocksInv' /\ ListsInv' /\ Corpus!RecordsAreTrue' /\ Corpus!ListedIsStored'
    BY <2>1 DEF CorpusInv, CorpusTables, LocksInv, ListsInv, Corpus!RecordsAreTrue,
                Corpus!ListedIsStored, Holds, Imports, Deletes
  <2>3. ASSUME NEW q \in Actor PROVE ScriptFits(script[q])'
    BY <2>1 DEF CorpusInv, ScriptFits, Script, Holds, Imports, Deletes
  <2> QED BY <2>1, <2>2, <2>3 DEF CorpusKept, CorpusInv, Corpus!BatchesStayGone
<1>2. CASE \E p \in Actor : Corpus!Step(p)
  BY <1>2, CopyFileKeeps, WriteReceiptKeeps, WriteDocumentsKeeps, ShareKeeps, DropObjectKeeps,
     DropIntakeKeeps, SurveyKeeps, LockRetirementKeeps, RetireKeeps, MoveKeeps, SettleKeeps,
     CorpusCrashKeeps DEF Corpus!Step
<1>3. CASE \E p \in Actor : \E b \in Item : Corpus!Import(p, b) \/ Corpus!Tombstone(p, b)
  BY <1>3, ImportKeeps, TombstoneBatchKeeps
<1> QED BY <1>1, <1>2, <1>3, OutsideKeeps DEF Corpus!Next

LEMMA CorpusStart == Corpus!Init => CorpusInv
<1> SUFFICES ASSUME Corpus!Init PROVE CorpusInv
  OBVIOUS
<1>1. /\ corpus \in [Paths -> Item \cup {Nil}]
      /\ receipt = [b \in Item |-> Nil] /\ documents = receipt /\ tombstone = receipt
      /\ candidate = receipt /\ retirement = receipt /\ trash = receipt
      /\ script = [p \in Actor |-> Corpus!Idle]
  BY DEF Corpus!Init, Paths
<1>2. ASSUME NEW p \in Actor
      PROVE  ScriptFits(script[p]) /\ ~Holds(script[p]) /\ ~Imports(script[p]) /\ ~Deletes(script[p])
  <2>1. PICK j : j = script[p]
    OBVIOUS
  <2>2. Script(j) /\ j.at = "idle" /\ ~Holds(j) /\ ~Imports(j) /\ ~Deletes(j)
    BY <1>1, <2>1, IdleFits
  <2>3. ScriptFits(j)
    BY <2>2 DEF ScriptFits, Holds, Imports, Deletes
  <2> QED BY <2>1, <2>2, <2>3
<1>3. CorpusTables
  BY <1>1 DEF CorpusTables
<1>4. Corpus!RecordsAreTrue /\ Corpus!ListedIsStored /\ ListsInv
  BY <1>1, ReleasesAssumption DEF Corpus!RecordsAreTrue, Corpus!ListedIsStored, ListsInv
<1> QED BY <1>2, <1>3, <1>4 DEF CorpusInv, LocksInv

\* The invariant of the local corpus.
THEOREM CorpusInvariance == Corpus!Spec => []CorpusInv
<1>1. CorpusInv /\ [Corpus!Next]_(Corpus!vars) => CorpusInv'
  BY CorpusStep DEF CorpusKept, Corpus!vars, corpusVars
<1> QED BY <1>1, CorpusStart, PTL DEF Corpus!Spec

\* From the first record of its deletion a batch only loses files.
THEOREM BatchesStayDeleted == Corpus!Spec => [][Corpus!BatchesStayGone]_corpusVars
<1>1. CorpusInv /\ [Corpus!Next]_(Corpus!vars) => [Corpus!BatchesStayGone]_corpusVars
  BY CorpusStep DEF CorpusKept, Corpus!vars, corpusVars
<1> QED BY <1>1, CorpusInvariance, PTL DEF Corpus!Spec

-----------------------------------------------------------------------------
(* The ingestion of knowledge.                                             *)

\* The stages in their order, and the units a stage has.
Pipeline == {"quarantine", "pre_scan", "parse", "verify"}
Rank(stage) ==
  IF stage = "quarantine" THEN 1
  ELSE IF stage = "pre_scan" THEN 2 ELSE IF stage = "parse" THEN 3 ELSE 4

\* A job as a row with exactly its fields, and what the fields of a job always say:
\* deletion is a stage, a status and a generation above zero, together.
JobRow(j) ==
  j = [status |-> j.status, stage |-> j.stage, cursor |-> j.cursor, attempt |-> j.attempt,
       lapsed |-> j.lapsed, fence |-> j.fence, generation |-> j.generation,
       version |-> j.version, replays |-> j.replays]
JobFits(j) ==
  /\ JobRow(j)
  /\ j.status \in Ingestion!Statuses /\ j.stage \in Pipeline \cup {"delete"}
  /\ j.lapsed \in BOOLEAN /\ j.version \in Nat
  /\ j.cursor \in Nat /\ j.cursor < Ingestion!UnitsOf(j.stage)
  /\ j.attempt \in Nat /\ j.fence \in Nat /\ j.attempt <= j.fence /\ j.fence <= MaxFence
  /\ j.generation \in 0..MaxGeneration /\ j.replays \in 0..MaxReplays
  /\ j.stage = "delete" <=> j.generation > 0
  /\ j.stage = "delete" <=> j.status \in Ingestion!Deletion

\* The units a job has behind it.
Done(j, stage, unit) ==
  \/ j.status = "candidate_ready" \/ Rank(stage) < Rank(j.stage)
  \/ stage = j.stage /\ unit <= j.cursor

\* The artifact of the unit a job is at.
ArtifactOf(j) ==
  [stage |-> j.stage, unit |-> j.cursor + 1, generation |-> j.generation, fence |-> j.fence]
Derives(j) == j.stage \notin Ingestion!Scans

\* Two states of a job that differ in its lease at most.
SameClaim(i, j) ==
  /\ i.status = j.status /\ i.stage = j.stage /\ i.cursor = j.cursor
  /\ i.attempt = j.attempt /\ i.fence = j.fence /\ i.generation = j.generation
  /\ i.version = j.version /\ i.replays = j.replays

\* What a worker remembers, as a row with exactly its fields.
WorkRow(k) == k = [job |-> k.job, next |-> k.next, lapsed |-> k.lapsed, step |-> k.step]
Completes(k) ==
  \/ k.step = "finish"
  \/ k.step = "commit" /\ k.next = Ingestion!Advance(Ingestion!Finished(k.job))
Fails(k) ==
  /\ k.step = "commit" /\ k.job.status = "running"
  /\ \/ k.next = Ingestion!Advance(Ingestion!Deferred(k.job))
     \/ k.next = Ingestion!Advance(Ingestion!Rejected(k.job))

\* A worker's copy is the row as long as its version stands; whoever has done a unit
\* left its artifact, and whoever has deleted left nothing and barred the stores.
WorkerFits(k) == k # Nil =>
  /\ WorkRow(k) /\ JobFits(k.job) /\ JobFits(k.next)
  /\ k.job.status \in {"running", "deleting"} /\ k.job.fence > 0
  /\ k.step \in Ingestion!Step
  /\ k.step = "approve" => k.job.status = "running"
  /\ k.step = "commit" => Completes(k) \/ Fails(k)
  /\ k.job.version <= job.version /\ k.job.generation <= job.generation
  /\ k.job.version = job.version => SameClaim(k.job, job)
  /\ k.step = "candidate" => /\ k.job.stage = "delete" /\ barred > 0
                             /\ \A f \in files : f.stage # "quarantine"
  /\ Completes(k) /\ k.job.stage = "delete" => files = {} /\ barred > 0
  /\ Completes(k) /\ k.job.stage # "delete" /\ Derives(k.job) =>
       barred > 0 \/ ArtifactOf(k.job) \in files

\* What is stored of a unit, and that it is whole: its file and its one row.
Stored(f) ==
  /\ f = [stage |-> f.stage, unit |-> f.unit, generation |-> 0, fence |-> f.fence]
  /\ f.stage \in Pipeline /\ f.unit \in 1..Units /\ f.fence \in 1..MaxFence
Whole(stage, unit) ==
  \E a \in files : /\ a.stage = stage /\ a.unit = unit /\ a.generation = 0
                   /\ {b \in rows : Ingestion!SameIdentity(a, b)} = {a}
JobInv == JobFits(job) /\ barred \in Nat /\ barred <= job.generation /\ approved \in BOOLEAN
WorkersInv ==
  /\ worker = [w \in Actor |-> worker[w]]
  /\ \A w \in Actor : WorkerFits(worker[w])
StoresInv ==
  /\ \A f \in files : Stored(f)
  /\ \A b \in rows : Stored(b) /\ (job.generation = 0 => Done(job, b.stage, b.unit))
WholeInv == job.generation = 0 =>
  \A stage \in Pipeline \ Ingestion!Scans : \A unit \in 1..Ingestion!UnitsOf(stage) :
    Done(job, stage, unit) => Whole(stage, unit)
GoneInv == job.status = "tombstoned" => rows = {} /\ files = {} /\ barred > 0
IngestionInv == JobInv /\ WorkersInv /\ StoresInv /\ WholeInv /\ GoneInv

\* The pipeline of this instance.
LEMMA PipelineStages ==
  /\ Ingestion!ToSet(Stages) = Pipeline
  /\ Ingestion!Stages = Pipeline \cup {"delete"}
<1>1. DOMAIN Stages = 1..4
  BY DEF Stages
<1>2. Ingestion!ToSet(Stages) = {Stages[i] : i \in 1..4}
  BY <1>1 DEF Ingestion!ToSet
<1>3. {Stages[i] : i \in 1..4} = Pipeline
  BY DEF Stages, Pipeline
<1>4. Ingestion!ToSet(Stages) = Pipeline
  BY <1>2, <1>3
<1> QED BY <1>4 DEF Ingestion!Stages

LEMMA FollowingStage ==
  ASSUME NEW stage \in Pipeline, stage # "verify"
  PROVE  /\ Ingestion!Following(stage) \in Pipeline
         /\ Rank(Ingestion!Following(stage)) = Rank(stage) + 1
<1>1. Len(Stages) = 4
  BY DEF Stages
<1>2. PICK i \in 1..3 : Stages[i] = stage
  BY DEF Stages, Pipeline
<1>3. \A k \in 1..3 : Stages[k] = stage => k = i
  BY <1>2 DEF Stages
<1>4. (CHOOSE k \in 1..(Len(Stages) - 1) : Stages[k] = stage) = i
  BY <1>1, <1>2, <1>3
<1>5. Ingestion!Following(stage) = Stages[1 + i]
  BY <1>4 DEF Ingestion!Following
<1> QED BY <1>2, <1>5 DEF Stages, Pipeline, Rank

LEMMA LastStage ==
  /\ \A stage \in Pipeline : Rank(stage) <= Rank("verify") /\ Rank(stage) \in Nat
  /\ \A s, t \in Pipeline : Rank(s) = Rank(t) => s = t
  /\ Ingestion!UnitsOf("verify") = 1
BY DEF Pipeline, Rank, Ingestion!UnitsOf

LEMMA UnitsCount ==
  ASSUME NEW stage
  PROVE  /\ Ingestion!UnitsOf(stage) \in Nat /\ 0 < Ingestion!UnitsOf(stage)
         /\ Ingestion!UnitsOf(stage) <= Units
BY ReleasesAssumption DEF Ingestion!UnitsOf

\* One field of a job after another.
LEMMA SetStatus ==
  ASSUME NEW j, JobRow(j), NEW x, NEW k, k = [j EXCEPT !.status = x]
  PROVE  /\ JobRow(k) /\ k.status = x /\ k.stage = j.stage /\ k.cursor = j.cursor
         /\ k.attempt = j.attempt /\ k.lapsed = j.lapsed /\ k.fence = j.fence
         /\ k.generation = j.generation /\ k.version = j.version /\ k.replays = j.replays
BY DEF JobRow
LEMMA SetStage ==
  ASSUME NEW j, JobRow(j), NEW x, NEW k, k = [j EXCEPT !.stage = x]
  PROVE  /\ JobRow(k) /\ k.status = j.status /\ k.stage = x /\ k.cursor = j.cursor
         /\ k.attempt = j.attempt /\ k.lapsed = j.lapsed /\ k.fence = j.fence
         /\ k.generation = j.generation /\ k.version = j.version /\ k.replays = j.replays
BY DEF JobRow
LEMMA SetCursor ==
  ASSUME NEW j, JobRow(j), NEW x, NEW k, k = [j EXCEPT !.cursor = x]
  PROVE  /\ JobRow(k) /\ k.status = j.status /\ k.stage = j.stage /\ k.cursor = x
         /\ k.attempt = j.attempt /\ k.lapsed = j.lapsed /\ k.fence = j.fence
         /\ k.generation = j.generation /\ k.version = j.version /\ k.replays = j.replays
BY DEF JobRow
LEMMA SetAttempt ==
  ASSUME NEW j, JobRow(j), NEW x, NEW k, k = [j EXCEPT !.attempt = x]
  PROVE  /\ JobRow(k) /\ k.status = j.status /\ k.stage = j.stage /\ k.cursor = j.cursor
         /\ k.attempt = x /\ k.lapsed = j.lapsed /\ k.fence = j.fence
         /\ k.generation = j.generation /\ k.version = j.version /\ k.replays = j.replays
BY DEF JobRow
LEMMA SetLapsed ==
  ASSUME NEW j, JobRow(j), NEW x, NEW k, k = [j EXCEPT !.lapsed = x]
  PROVE  /\ JobRow(k) /\ k.status = j.status /\ k.stage = j.stage /\ k.cursor = j.cursor
         /\ k.attempt = j.attempt /\ k.lapsed = x /\ k.fence = j.fence
         /\ k.generation = j.generation /\ k.version = j.version /\ k.replays = j.replays
BY DEF JobRow
LEMMA SetFence ==
  ASSUME NEW j, JobRow(j), NEW x, NEW k, k = [j EXCEPT !.fence = x]
  PROVE  /\ JobRow(k) /\ k.status = j.status /\ k.stage = j.stage /\ k.cursor = j.cursor
         /\ k.attempt = j.attempt /\ k.lapsed = j.lapsed /\ k.fence = x
         /\ k.generation = j.generation /\ k.version = j.version /\ k.replays = j.replays
BY DEF JobRow
LEMMA SetGeneration ==
  ASSUME NEW j, JobRow(j), NEW x, NEW k, k = [j EXCEPT !.generation = x]
  PROVE  /\ JobRow(k) /\ k.status = j.status /\ k.stage = j.stage /\ k.cursor = j.cursor
         /\ k.attempt = j.attempt /\ k.lapsed = j.lapsed /\ k.fence = j.fence
         /\ k.generation = x /\ k.version = j.version /\ k.replays = j.replays
BY DEF JobRow
LEMMA SetVersion ==
  ASSUME NEW j, JobRow(j), NEW x, NEW k, k = [j EXCEPT !.version = x]
  PROVE  /\ JobRow(k) /\ k.status = j.status /\ k.stage = j.stage /\ k.cursor = j.cursor
         /\ k.attempt = j.attempt /\ k.lapsed = j.lapsed /\ k.fence = j.fence
         /\ k.generation = j.generation /\ k.version = x /\ k.replays = j.replays
BY DEF JobRow
LEMMA SetReplays ==
  ASSUME NEW j, JobRow(j), NEW x, NEW k, k = [j EXCEPT !.replays = x]
  PROVE  /\ JobRow(k) /\ k.status = j.status /\ k.stage = j.stage /\ k.cursor = j.cursor
         /\ k.attempt = j.attempt /\ k.lapsed = j.lapsed /\ k.fence = j.fence
         /\ k.generation = j.generation /\ k.version = j.version /\ k.replays = x
BY DEF JobRow

\* What the next states of a job are.
LEMMA AdvanceRow ==
  ASSUME NEW j, JobRow(j), NEW k, k = Ingestion!Advance(j)
  PROVE  /\ JobRow(k) /\ k.version = j.version + 1 /\ k.lapsed = FALSE
         /\ k.status = j.status /\ k.stage = j.stage /\ k.cursor = j.cursor
         /\ k.attempt = j.attempt /\ k.fence = j.fence /\ k.generation = j.generation
         /\ k.replays = j.replays
<1>1. PICK one : one = [j EXCEPT !.version = j.version + 1]
  OBVIOUS
<1>2. PICK two : two = [one EXCEPT !.lapsed = FALSE]
  OBVIOUS
<1>3. k = two
  BY <1>1, <1>2 DEF Ingestion!Advance
<1>4. /\ JobRow(one) /\ one.status = j.status /\ one.stage = j.stage /\ one.cursor = j.cursor
      /\ one.attempt = j.attempt /\ one.fence = j.fence /\ one.generation = j.generation
      /\ one.version = j.version + 1 /\ one.replays = j.replays
  BY <1>1, SetVersion
<1> QED BY <1>2, <1>3, <1>4, SetLapsed

LEMMA DeletionRow ==
  ASSUME NEW j, JobFits(j), NEW k, k = Ingestion!ForDeletion(j)
  PROVE  /\ JobRow(k) /\ k.status = "deletion_pending" /\ k.stage = "delete" /\ k.cursor = 0
         /\ k.generation = j.generation + 1 /\ k.attempt = j.attempt /\ k.fence = j.fence
         /\ k.lapsed = j.lapsed /\ k.version = j.version /\ k.replays = j.replays
<1>1. PICK one : one = [j EXCEPT !.status = "deletion_pending"]
  OBVIOUS
<1>2. PICK two : two = [one EXCEPT !.stage = "delete"]
  OBVIOUS
<1>3. PICK three : three = [two EXCEPT !.cursor = 0]
  OBVIOUS
<1>4. PICK four : four = [three EXCEPT !.generation = j.generation + 1]
  OBVIOUS
<1>5. JobRow(j)
  BY DEF JobFits
<1>6. /\ JobRow(one) /\ one.status = "deletion_pending" /\ one.attempt = j.attempt
      /\ one.fence = j.fence /\ one.lapsed = j.lapsed /\ one.version = j.version
      /\ one.replays = j.replays /\ one.generation = j.generation
  BY <1>1, <1>5, SetStatus
<1>7. /\ JobRow(two) /\ two.status = "deletion_pending" /\ two.attempt = j.attempt
      /\ two.fence = j.fence /\ two.lapsed = j.lapsed /\ two.version = j.version
      /\ two.replays = j.replays /\ two.generation = j.generation /\ two.stage = "delete"
  BY <1>2, <1>6, SetStage
<1>8. /\ JobRow(three) /\ three.status = "deletion_pending" /\ three.attempt = j.attempt
      /\ three.fence = j.fence /\ three.lapsed = j.lapsed /\ three.version = j.version
      /\ three.replays = j.replays /\ three.generation = j.generation
      /\ three.stage = "delete" /\ three.cursor = 0
  BY <1>3, <1>7, SetCursor
<1>9. k = four
  BY <1>1, <1>2, <1>3, <1>4 DEF Ingestion!ForDeletion
<1> QED BY <1>4, <1>8, <1>9, SetGeneration

LEMMA FitRow == ASSUME NEW j, JobFits(j) PROVE JobRow(j)
BY DEF JobFits

\* A unit is done once: afterwards the units behind the job are those that were, and it.
Steps(j, k) ==
  /\ \A s \in Pipeline, u \in Nat \ {0} :
       u <= Ingestion!UnitsOf(s) /\ Done(k, s, u) =>
         Done(j, s, u) \/ (s = j.stage /\ u = j.cursor + 1)
  /\ \A s \in Pipeline, u \in Nat : Done(j, s, u) => Done(k, s, u)
  /\ Done(k, j.stage, j.cursor + 1)

\* A unit is done and others of its stage are left.
LEMMA NextUnit ==
  ASSUME NEW j, JobFits(j), j.stage # "delete", j.status = "running",
         j.cursor + 1 < Ingestion!UnitsOf(j.stage), NEW k, k = Ingestion!Finished(j)
  PROVE  /\ JobFits(k) /\ k.status = "queued" /\ k.version = j.version
         /\ k.generation = j.generation /\ Steps(j, k)
<1>1. PICK one : one = [j EXCEPT !.status = "queued"]
  OBVIOUS
<1>2. PICK two : two = [one EXCEPT !.cursor = j.cursor + 1]
  OBVIOUS
<1>3. PICK three : three = [two EXCEPT !.attempt = 0]
  OBVIOUS
<1>4. k = three
  BY <1>1, <1>2, <1>3 DEF Ingestion!Finished
<1>5. /\ JobRow(one) /\ one.status = "queued" /\ one.stage = j.stage /\ one.lapsed = j.lapsed
      /\ one.fence = j.fence /\ one.generation = j.generation /\ one.version = j.version
      /\ one.replays = j.replays
  BY <1>1, FitRow, SetStatus
<1>6. /\ JobRow(two) /\ two.status = "queued" /\ two.stage = j.stage /\ two.lapsed = j.lapsed
      /\ two.fence = j.fence /\ two.generation = j.generation /\ two.version = j.version
      /\ two.replays = j.replays /\ two.cursor = j.cursor + 1
  BY <1>2, <1>5, SetCursor
<1>7. /\ JobRow(k) /\ k.status = "queued" /\ k.stage = j.stage /\ k.lapsed = j.lapsed
      /\ k.fence = j.fence /\ k.generation = j.generation /\ k.version = j.version
      /\ k.replays = j.replays /\ k.cursor = j.cursor + 1 /\ k.attempt = 0
  BY <1>3, <1>4, <1>6, SetAttempt
<1>8. JobFits(k)
  BY <1>7 DEF JobFits, Ingestion!Statuses, Ingestion!Deletion
<1>9. Steps(j, k)
  BY <1>7 DEF JobFits, Steps, Done, Rank
<1> QED BY <1>7, <1>8, <1>9

\* The last unit of the last stage is done.
LEMMA LastUnit ==
  ASSUME NEW j, JobFits(j), j.stage = "verify", j.status = "running",
         ~(j.cursor + 1 < Ingestion!UnitsOf(j.stage)), NEW k, k = Ingestion!Finished(j)
  PROVE  /\ JobFits(k) /\ k.status = "candidate_ready" /\ k.version = j.version
         /\ k.generation = j.generation /\ Steps(j, k)
<1>1. PICK one : one = [j EXCEPT !.status = "candidate_ready"]
  OBVIOUS
<1>2. PICK two : two = [one EXCEPT !.attempt = 0]
  OBVIOUS
<1>3. k = two
  BY <1>1, <1>2 DEF Ingestion!Finished
<1>4. /\ JobRow(one) /\ one.status = "candidate_ready" /\ one.stage = j.stage
      /\ one.lapsed = j.lapsed /\ one.fence = j.fence /\ one.generation = j.generation
      /\ one.version = j.version /\ one.replays = j.replays /\ one.cursor = j.cursor
  BY <1>1, FitRow, SetStatus
<1>5. /\ JobRow(k) /\ k.status = "candidate_ready" /\ k.stage = j.stage
      /\ k.lapsed = j.lapsed /\ k.fence = j.fence /\ k.generation = j.generation
      /\ k.version = j.version /\ k.replays = j.replays /\ k.cursor = j.cursor /\ k.attempt = 0
  BY <1>2, <1>3, <1>4, SetAttempt
<1>6. JobFits(k)
  BY <1>5 DEF JobFits, Ingestion!Statuses, Ingestion!Deletion
<1>7. j.cursor = 0
  BY LastStage DEF JobFits
<1>8. ASSUME NEW s \in Pipeline, NEW u \in Nat \ {0}, u <= Ingestion!UnitsOf(s)
      PROVE  Done(j, s, u) \/ (s = j.stage /\ u = j.cursor + 1)
  <2>1. CASE s = "verify"
    BY <1>7, <1>8, <2>1, LastStage
  <2>2. CASE s # "verify"
    BY <2>2 DEF Done, Rank, Pipeline
  <2> QED BY <2>1, <2>2
<1>9. Steps(j, k)
  BY <1>5, <1>8 DEF Steps, Done
<1> QED BY <1>5, <1>6, <1>9

\* The last unit of a stage is done.
LEMMA NextStage ==
  ASSUME NEW j, JobFits(j), j.stage \notin {"verify", "delete"}, j.status = "running",
         ~(j.cursor + 1 < Ingestion!UnitsOf(j.stage)), NEW k, k = Ingestion!Finished(j)
  PROVE  /\ JobFits(k) /\ k.status = "queued" /\ k.version = j.version
         /\ k.generation = j.generation /\ Steps(j, k)
<1>1. PICK stage : stage = Ingestion!Following(j.stage)
  OBVIOUS
<1>2. stage \in Pipeline /\ Rank(stage) = Rank(j.stage) + 1 /\ j.stage \in Pipeline
  BY <1>1, FollowingStage DEF JobFits
<1>3. PICK one : one = [j EXCEPT !.status = "queued"]
  OBVIOUS
<1>4. PICK two : two = [one EXCEPT !.stage = stage]
  OBVIOUS
<1>5. PICK three : three = [two EXCEPT !.cursor = 0]
  OBVIOUS
<1>6. PICK four : four = [three EXCEPT !.attempt = 0]
  OBVIOUS
<1>7. k = four
  BY <1>1, <1>3, <1>4, <1>5, <1>6 DEF Ingestion!Finished
<1>8. /\ JobRow(one) /\ one.status = "queued" /\ one.lapsed = j.lapsed
      /\ one.fence = j.fence /\ one.generation = j.generation /\ one.version = j.version
      /\ one.replays = j.replays
  BY <1>3, FitRow, SetStatus
<1>9. /\ JobRow(two) /\ two.status = "queued" /\ two.stage = stage /\ two.lapsed = j.lapsed
      /\ two.fence = j.fence /\ two.generation = j.generation /\ two.version = j.version
      /\ two.replays = j.replays
  BY <1>4, <1>8, SetStage
<1>10. /\ JobRow(three) /\ three.status = "queued" /\ three.stage = stage
       /\ three.lapsed = j.lapsed /\ three.fence = j.fence /\ three.version = j.version
       /\ three.generation = j.generation /\ three.replays = j.replays /\ three.cursor = 0
  BY <1>5, <1>9, SetCursor
<1>11. /\ JobRow(k) /\ k.status = "queued" /\ k.stage = stage /\ k.lapsed = j.lapsed
       /\ k.fence = j.fence /\ k.generation = j.generation /\ k.version = j.version
       /\ k.replays = j.replays /\ k.cursor = 0 /\ k.attempt = 0
  BY <1>6, <1>7, <1>10, SetAttempt
<1>12. JobFits(k)
  BY <1>2, <1>11, UnitsCount
     DEF JobFits, Ingestion!Statuses, Ingestion!Deletion, Pipeline
<1>13. ASSUME NEW s \in Pipeline, NEW u \in Nat \ {0}, u <= Ingestion!UnitsOf(s), Done(k, s, u)
       PROVE  Done(j, s, u) \/ (s = j.stage /\ u = j.cursor + 1)
  <2>1. Rank(s) < Rank(j.stage) + 1
    BY <1>2, <1>11, <1>13 DEF Done
  <2>2. CASE Rank(s) = Rank(j.stage)
    <3>1. s = j.stage
      BY <1>2, <2>2, LastStage
    <3>2. u <= j.cursor + 1
      BY <1>13, <3>1, UnitsCount DEF JobFits
    <3> QED BY <3>1, <3>2 DEF Done, JobFits
  <2>3. CASE Rank(s) # Rank(j.stage)
    BY <1>2, <2>1, <2>3, LastStage DEF Done
  <2> QED BY <2>2, <2>3
<1>14. ASSUME NEW s \in Pipeline, NEW u \in Nat, Done(j, s, u) PROVE Done(k, s, u)
  BY <1>2, <1>11, <1>14, LastStage DEF Done
<1>15. Done(k, j.stage, j.cursor + 1)
  BY <1>2, <1>11, LastStage DEF Done
<1> QED BY <1>11, <1>12, <1>13, <1>14, <1>15 DEF Steps

\* The units behind a job do not change.
SamePlace(j, k) ==
  /\ k.stage = j.stage /\ k.cursor = j.cursor
  /\ k.status = "candidate_ready" <=> j.status = "candidate_ready"
LEMMA PlaceDone ==
  ASSUME NEW j, NEW k, SamePlace(j, k), NEW s, NEW u
  PROVE  Done(k, s, u) <=> Done(j, s, u)
BY DEF SamePlace, Done

LEMMA AdvanceFits ==
  ASSUME NEW j, JobFits(j), NEW k, k = Ingestion!Advance(j)
  PROVE  /\ JobFits(k) /\ k.version = j.version + 1 /\ k.generation = j.generation
         /\ k.status = j.status /\ SamePlace(j, k)
<1>1. /\ JobRow(k) /\ k.version = j.version + 1 /\ k.lapsed = FALSE
      /\ k.status = j.status /\ k.stage = j.stage /\ k.cursor = j.cursor
      /\ k.attempt = j.attempt /\ k.fence = j.fence /\ k.generation = j.generation
      /\ k.replays = j.replays
  BY FitRow, AdvanceRow
<1>2. k.lapsed \in BOOLEAN
  BY <1>1
<1>3. JobFits(k)
  <2>1. k.version \in Nat /\ k.cursor < Ingestion!UnitsOf(k.stage)
    BY <1>1 DEF JobFits
  <2> QED BY <1>1, <1>2, <2>1 DEF JobFits
<1>4. SamePlace(j, k)
  BY <1>1 DEF SamePlace
<1> QED BY <1>1, <1>3, <1>4

LEMMA CompletesRow ==
  ASSUME NEW j, JobFits(j), j.status \in {"running", "deleting"},
         NEW k, k = Ingestion!Advance(Ingestion!Finished(j))
  PROVE  /\ JobFits(k) /\ k.version = j.version + 1 /\ k.generation = j.generation
         /\ j.stage = "delete" => k.status = "tombstoned"
         /\ j.stage # "delete" => k.status \in {"queued", "candidate_ready"} /\ Steps(j, k)
<1>1. PICK i : i = Ingestion!Finished(j)
  OBVIOUS
<1>2. CASE j.stage = "delete"
  <2>1. i = [j EXCEPT !.status = "tombstoned"]
    BY <1>1, <1>2 DEF Ingestion!Finished
  <2>2. /\ JobRow(i) /\ i.status = "tombstoned" /\ i.stage = j.stage /\ i.cursor = j.cursor
        /\ i.attempt = j.attempt /\ i.lapsed = j.lapsed /\ i.fence = j.fence
        /\ i.generation = j.generation /\ i.version = j.version /\ i.replays = j.replays
    BY <2>1, FitRow, SetStatus
  <2>3. JobFits(i)
    BY <1>2, <2>2 DEF JobFits, Ingestion!Statuses, Ingestion!Deletion
  <2> QED BY <1>1, <1>2, <2>2, <2>3, AdvanceFits
<1>3. CASE j.stage # "delete"
  <2>1. j.status = "running"
    BY <1>3 DEF JobFits, Ingestion!Deletion
  <2>2. /\ JobFits(i) /\ i.status \in {"queued", "candidate_ready"} /\ i.version = j.version
        /\ i.generation = j.generation /\ Steps(j, i)
    BY <1>1, <1>3, <2>1, NextUnit, LastUnit, NextStage
  <2>3. /\ JobFits(k) /\ k.version = i.version + 1 /\ k.generation = i.generation
        /\ k.status = i.status /\ SamePlace(i, k)
    BY <1>1, <2>2, AdvanceFits
  <2>4. Steps(j, k)
    BY <2>2, <2>3, PlaceDone DEF Steps
  <2> QED BY <1>3, <2>2, <2>3, <2>4
<1> QED BY <1>2, <1>3

\* What a failure leaves is neither a candidate nor a unit done.
Failed(j, k) ==
  /\ JobFits(k) /\ k.version = j.version + 1 /\ j.generation <= k.generation
  /\ k.status \in {"dead_lettered", "retry_wait", "failed_safely", "deletion_pending"}
  /\ k.generation = 0 => SamePlace(j, k)
LEMMA FailsRow ==
  ASSUME NEW j, JobFits(j), j.status = "running", NEW k,
         \/ k = Ingestion!Advance(Ingestion!Deferred(j))
         \/ k = Ingestion!Advance(Ingestion!Rejected(j))
  PROVE  Failed(j, k)
<1>1. j.stage # "delete" /\ j.generation = 0
  BY DEF JobFits, Ingestion!Deletion
<1>2. ASSUME NEW state \in {"dead_lettered", "retry_wait", "failed_safely"},
             NEW i, i = [j EXCEPT !.status = state], k = Ingestion!Advance(i)
      PROVE  Failed(j, k)
  <2>1. /\ JobRow(i) /\ i.status = state /\ i.stage = j.stage /\ i.cursor = j.cursor
        /\ i.attempt = j.attempt /\ i.lapsed = j.lapsed /\ i.fence = j.fence
        /\ i.generation = j.generation /\ i.version = j.version /\ i.replays = j.replays
    BY <1>2, FitRow, SetStatus
  <2>2. JobFits(i) /\ SamePlace(j, i)
    BY <1>1, <2>1 DEF JobFits, SamePlace, Ingestion!Statuses, Ingestion!Deletion
  <2>3. /\ JobFits(k) /\ k.version = i.version + 1 /\ k.generation = i.generation
        /\ k.status = i.status /\ SamePlace(i, k)
    BY <1>2, <2>2, AdvanceFits
  <2>4. SamePlace(j, k)
    BY <2>2, <2>3 DEF SamePlace
  <2> QED BY <1>1, <2>1, <2>3, <2>4 DEF Failed
<1>3. CASE k = Ingestion!Advance(Ingestion!Deferred(j))
  <2>1. PICK state : state = IF j.attempt >= MaxAttempts THEN "dead_lettered" ELSE "retry_wait"
    OBVIOUS
  <2>2. PICK i : i = [j EXCEPT !.status = state]
    OBVIOUS
  <2>3. Ingestion!Deferred(j) = i
    BY <2>1, <2>2 DEF Ingestion!Deferred
  <2>4. state \in {"dead_lettered", "retry_wait", "failed_safely"}
    BY <2>1
  <2> QED BY <1>2, <1>3, <2>2, <2>3, <2>4
<1>4. CASE k = Ingestion!Advance(Ingestion!Rejected(j)) /\ j.stage \in {"quarantine", "pre_scan"}
  <2>1. PICK i : i = [j EXCEPT !.status = "failed_safely"]
    OBVIOUS
  <2>2. Ingestion!Rejected(j) = i
    BY <1>4, <2>1 DEF Ingestion!Rejected
  <2> QED BY <1>2, <1>4, <2>1, <2>2
<1>5. CASE k = Ingestion!Advance(Ingestion!Rejected(j)) /\ j.stage \notin {"quarantine", "pre_scan"}
  <2>1. PICK i : i = Ingestion!ForDeletion(j)
    OBVIOUS
  <2>2. Ingestion!Rejected(j) = i
    BY <1>5, <2>1 DEF Ingestion!Rejected
  <2>3. /\ JobRow(i) /\ i.status = "deletion_pending" /\ i.stage = "delete" /\ i.cursor = 0
        /\ i.generation = j.generation + 1 /\ i.attempt = j.attempt /\ i.fence = j.fence
        /\ i.lapsed = j.lapsed /\ i.version = j.version /\ i.replays = j.replays
    BY <2>1, DeletionRow
  <2>4. JobFits(i)
    BY <1>1, <2>3, ReleasesAssumption, UnitsCount
       DEF JobFits, Ingestion!Statuses, Ingestion!Deletion
  <2>5. JobFits(k) /\ k.version = i.version + 1 /\ k.generation = i.generation /\ k.status = i.status
    BY <1>5, <2>2, <2>4, AdvanceFits
  <2> QED BY <1>1, <2>3, <2>5 DEF Failed
<1> QED BY <1>3, <1>4, <1>5

LEMMA RequestRow ==
  ASSUME NEW j, JobFits(j), j.generation < MaxGeneration,
         NEW k, k = Ingestion!Advance(Ingestion!ForDeletion(j))
  PROVE  /\ JobFits(k) /\ k.version = j.version + 1 /\ k.generation = j.generation + 1
         /\ k.status = "deletion_pending"
<1>1. PICK i : i = Ingestion!ForDeletion(j)
  OBVIOUS
<1>2. /\ JobRow(i) /\ i.status = "deletion_pending" /\ i.stage = "delete" /\ i.cursor = 0
      /\ i.generation = j.generation + 1 /\ i.attempt = j.attempt /\ i.fence = j.fence
      /\ i.lapsed = j.lapsed /\ i.version = j.version /\ i.replays = j.replays
  BY <1>1, DeletionRow
<1>3. JobFits(i)
  BY <1>2, ReleasesAssumption, UnitsCount DEF JobFits, Ingestion!Statuses, Ingestion!Deletion
<1> QED BY <1>1, <1>2, <1>3, AdvanceFits

LEMMA ReplayRow ==
  ASSUME NEW j, JobFits(j), j.status = "dead_lettered", j.replays < MaxReplays, NEW k,
         k = Ingestion!Advance([j EXCEPT !.status = "queued", !.attempt = 0,
                                         !.replays = j.replays + 1])
  PROVE  /\ JobFits(k) /\ k.version = j.version + 1 /\ k.generation = j.generation
         /\ k.status = "queued" /\ SamePlace(j, k)
<1>1. PICK one : one = [j EXCEPT !.status = "queued"]
  OBVIOUS
<1>2. PICK two : two = [one EXCEPT !.attempt = 0]
  OBVIOUS
<1>3. PICK three : three = [two EXCEPT !.replays = j.replays + 1]
  OBVIOUS
<1>4. k = Ingestion!Advance(three)
  BY <1>1, <1>2, <1>3
<1>5. /\ JobRow(one) /\ one.status = "queued" /\ one.stage = j.stage /\ one.cursor = j.cursor
      /\ one.lapsed = j.lapsed /\ one.fence = j.fence /\ one.generation = j.generation
      /\ one.version = j.version /\ one.replays = j.replays
  BY <1>1, FitRow, SetStatus
<1>6. /\ JobRow(two) /\ two.status = "queued" /\ two.stage = j.stage /\ two.cursor = j.cursor
      /\ two.lapsed = j.lapsed /\ two.fence = j.fence /\ two.generation = j.generation
      /\ two.version = j.version /\ two.replays = j.replays /\ two.attempt = 0
  BY <1>2, <1>5, SetAttempt
<1>7. /\ JobRow(three) /\ three.status = "queued" /\ three.stage = j.stage
      /\ three.cursor = j.cursor /\ three.lapsed = j.lapsed /\ three.fence = j.fence
      /\ three.generation = j.generation /\ three.version = j.version
      /\ three.replays = j.replays + 1 /\ three.attempt = 0
  BY <1>3, <1>6, SetReplays
<1>8. JobFits(three) /\ SamePlace(j, three)
  <2>1. JobFits(three)
    BY <1>7, ReleasesAssumption DEF JobFits, Ingestion!Statuses, Ingestion!Deletion
  <2>2. SamePlace(j, three)
    BY <1>7 DEF SamePlace
  <2> QED BY <2>1, <2>2
<1>9. /\ JobFits(k) /\ k.version = three.version + 1 /\ k.generation = three.generation
      /\ k.status = three.status /\ SamePlace(three, k)
  BY <1>4, <1>8, AdvanceFits
<1> QED BY <1>7, <1>8, <1>9 DEF SamePlace

\* The row of a job only moves on, and the stores gain files only while nothing is barred.
JobAhead ==
  /\ JobFits(job)' /\ job.generation <= job'.generation
  /\ SameClaim(job, job') \/ job.version < job'.version
StoresAhead ==
  \/ UNCHANGED <<files, barred>>
  \/ barred = 0 /\ barred' = barred /\ files \subseteq files'
  \/ barred' > 0 /\ files' \subseteq files

\* What a worker remembers stays true while others move on.
LEMMA WorkerStays ==
  ASSUME JobInv, NEW k, WorkerFits(k), JobAhead, StoresAhead
  PROVE  WorkerFits(k)'
<1> SUFFICES ASSUME k # Nil PROVE WorkerFits(k)'
  BY DEF WorkerFits
<1>1. /\ WorkRow(k) /\ JobFits(k.job) /\ JobFits(k.next)
      /\ k.job.status \in {"running", "deleting"} /\ k.job.fence > 0
      /\ k.step \in Ingestion!Step
      /\ k.step = "approve" => k.job.status = "running"
      /\ k.step = "commit" => Completes(k) \/ Fails(k)
  BY DEF WorkerFits
<1>2. /\ job.version \in Nat /\ job'.version \in Nat /\ k.job.version \in Nat
      /\ job.generation \in Nat /\ job'.generation \in Nat /\ k.job.generation \in Nat
      /\ barred \in Nat
  BY <1>1, ReleasesAssumption DEF JobAhead, JobInv, JobFits
<1>3. k.job.version <= job'.version /\ k.job.generation <= job'.generation
  BY <1>2 DEF WorkerFits, JobAhead, SameClaim
<1>4. k.job.version = job'.version => SameClaim(k.job, job')
  BY <1>2 DEF WorkerFits, JobAhead, SameClaim
<1>5. /\ k.step = "candidate" => /\ k.job.stage = "delete" /\ barred' > 0
                                 /\ \A f \in files' : f.stage # "quarantine"
      /\ Completes(k) /\ k.job.stage = "delete" => files' = {} /\ barred' > 0
      /\ Completes(k) /\ k.job.stage # "delete" /\ Derives(k.job) =>
           barred' > 0 \/ ArtifactOf(k.job) \in files'
  <2>1. CASE UNCHANGED <<files, barred>>
    BY <2>1 DEF WorkerFits
  <2>2. CASE barred = 0 /\ barred' = barred /\ files \subseteq files'
    BY <1>2, <2>2 DEF WorkerFits
  <2>3. CASE barred' > 0 /\ files' \subseteq files
    BY <2>3 DEF WorkerFits
  <2> QED BY <2>1, <2>2, <2>3 DEF StoresAhead
<1> QED BY <1>1, <1>3, <1>4, <1>5 DEF WorkerFits

LEMMA WorkersStay ==
  ASSUME IngestionInv, NEW w \in Actor, NEW k, worker' = [worker EXCEPT ![w] = k],
         WorkerFits(k)', JobAhead, StoresAhead
  PROVE  WorkersInv'
<1>1. /\ worker' = [x \in Actor |-> worker'[x]] /\ worker'[w] = k
      /\ \A x \in Actor \ {w} : worker'[x] = worker[x]
  BY DEF IngestionInv, WorkersInv
<1>2. ASSUME NEW x \in Actor PROVE WorkerFits(worker[x])'
  <2>1. PICK i : i = worker[x]
    OBVIOUS
  <2>2. CASE x = w
    BY <1>1, <2>2 DEF WorkerFits
  <2>3. CASE x # w
    <3>1. worker'[x] = i /\ WorkerFits(i)
      BY <1>1, <2>1, <2>3 DEF IngestionInv, WorkersInv
    <3>2. WorkerFits(i)'
      BY <3>1, WorkerStays DEF IngestionInv
    <3> QED BY <3>1, <3>2 DEF WorkerFits
  <2> QED BY <2>2, <2>3
<1> QED BY <1>1, <1>2 DEF WorkersInv

LEMMA AllWorkersStay ==
  ASSUME IngestionInv, worker' = worker, JobAhead, StoresAhead
  PROVE  WorkersInv'
<1>1. ASSUME NEW x \in Actor PROVE WorkerFits(worker[x])'
  <2>1. PICK i : i = worker[x]
    OBVIOUS
  <2>2. WorkerFits(i)' /\ worker'[x] = i
    BY <2>1, WorkerStays DEF IngestionInv, WorkersInv
  <2> QED BY <2>2 DEF WorkerFits
<1> QED BY <1>1 DEF IngestionInv, WorkersInv

\* A step that leaves a job where it is and its stores as they are.
LEMMA PlaceStays ==
  ASSUME IngestionInv, JobFits(job)', UNCHANGED <<rows, files, barred>>,
         job.generation <= job'.generation, approved' \in BOOLEAN,
         job'.generation = 0 => SamePlace(job, job'),
         job'.status = "tombstoned" => job.status = "tombstoned"
  PROVE  JobInv' /\ StoresInv' /\ WholeInv' /\ GoneInv'
<1>1. job.generation \in Nat /\ job'.generation \in Nat /\ barred \in Nat
  BY ReleasesAssumption DEF IngestionInv, JobInv, JobFits
<1>2. job'.generation = 0 =>
        job.generation = 0 /\ \A s, u : Done(job', s, u) <=> Done(job, s, u)
  BY <1>1, PlaceDone
<1>3. JobInv'
  BY <1>1 DEF IngestionInv, JobInv
<1>4. StoresInv'
  BY <1>2 DEF IngestionInv, StoresInv
<1>5. WholeInv'
  BY <1>2 DEF IngestionInv, WholeInv, Whole
<1>6. GoneInv'
  BY DEF IngestionInv, GoneInv
<1> QED BY <1>3, <1>4, <1>5, <1>6

\* A step of one worker that changes only what it remembers.
LEMMA OnlyWorker ==
  ASSUME IngestionInv, NEW w \in Actor, NEW k, worker' = [worker EXCEPT ![w] = k],
         WorkerFits(k), UNCHANGED <<job, rows, files, barred, approved>>
  PROVE  IngestionInv'
<1>1. JobAhead /\ StoresAhead
  BY DEF IngestionInv, JobInv, JobFits, JobAhead, StoresAhead, SameClaim, JobRow
<1>2. WorkerFits(k)'
  BY <1>1, WorkerStays DEF IngestionInv
<1>3. WorkersInv'
  BY <1>1, <1>2, WorkersStay
<1>4. JobInv' /\ StoresInv' /\ WholeInv' /\ GoneInv'
  BY DEF IngestionInv, JobInv, StoresInv, WholeInv, Whole, GoneInv
<1> QED BY <1>3, <1>4 DEF IngestionInv

LEMMA WorkerLeaves ==
  ASSUME IngestionInv, NEW w \in Actor, Ingestion!Leave(w),
         UNCHANGED <<job, rows, files, barred, approved>>
  PROVE  IngestionInv'
<1>1. WorkerFits(Nil)
  BY DEF WorkerFits
<1> QED BY <1>1, OnlyWorker DEF Ingestion!Leave

\* A worker goes to another step with what it claimed.
LEMMA StepRow ==
  ASSUME NEW i, WorkRow(i), NEW step, NEW k, k = [i EXCEPT !.step = step]
  PROVE  WorkRow(k) /\ k.job = i.job /\ k.next = i.next /\ k.lapsed = i.lapsed /\ k.step = step
BY DEF WorkRow
LEMMA LapsedRow ==
  ASSUME NEW i, WorkRow(i), NEW k, k = [i EXCEPT !.lapsed = TRUE]
  PROVE  WorkRow(k) /\ k.job = i.job /\ k.next = i.next /\ k.step = i.step
BY DEF WorkRow
LEMMA NextRow ==
  ASSUME NEW i, WorkRow(i), NEW x, NEW k, k = [i EXCEPT !.next = x]
  PROVE  WorkRow(k) /\ k.job = i.job /\ k.next = x /\ k.lapsed = i.lapsed /\ k.step = i.step
BY DEF WorkRow

LEMMA GoesToStep ==
  ASSUME IngestionInv, NEW w \in Actor, worker[w] # Nil, NEW step, Ingestion!Goto(w, step)
  PROVE  \E k : /\ worker' = [worker EXCEPT ![w] = k] /\ k = [worker[w] EXCEPT !.step = step]
                /\ WorkRow(k) /\ k.job = worker[w].job /\ k.next = worker[w].next
                /\ k.step = step
<1>1. PICK k : k = [worker[w] EXCEPT !.step = step]
  OBVIOUS
<1>2. worker' = [worker EXCEPT ![w] = k]
  BY <1>1 DEF Ingestion!Goto
<1>3. WorkRow(worker[w])
  BY DEF IngestionInv, WorkersInv, WorkerFits
<1>4. WorkRow(k) /\ k.job = worker[w].job /\ k.next = worker[w].next /\ k.step = step
  BY <1>1, <1>3, StepRow
<1> QED BY <1>1, <1>2, <1>4

\* A worker that has done nothing yet may fail or work.
LEMMA StepFits ==
  ASSUME NEW i, i # Nil, WorkerFits(i), NEW k, WorkRow(k), k.job = i.job, k.next = i.next,
         k.step \in {"work", "transient", "permanent"}
  PROVE  WorkerFits(k)
BY DEF WorkerFits, Completes, Fails, Ingestion!Step

\* What a claim writes.
LEMMA ClaimedRow ==
  ASSUME NEW j, JobFits(j), j.fence < MaxFence,
         j.status \in {"queued", "retry_wait", "deletion_pending", "running", "deleting"},
         NEW state, state = IF j.status \in Ingestion!Deletion THEN "deleting" ELSE "running",
         NEW tries,
         tries = IF j.status \in Ingestion!Deletion THEN j.attempt ELSE j.attempt + 1,
         NEW k, JobRow(k), k.status = state, k.stage = j.stage, k.cursor = j.cursor,
         k.attempt = tries, k.lapsed = FALSE, k.fence = j.fence + 1,
         k.generation = j.generation, k.version = j.version + 1, k.replays = j.replays
  PROVE  /\ JobFits(k) /\ k.version = j.version + 1 /\ k.generation = j.generation
         /\ k.status \in {"running", "deleting"} /\ k.fence > 0 /\ SamePlace(j, k)
<1>1. state \in {"running", "deleting"}
  OBVIOUS
<1>2. state \in Ingestion!Statuses /\ (state \in Ingestion!Deletion <=> j.stage = "delete")
  BY DEF JobFits, Ingestion!Statuses, Ingestion!Deletion
<1>3. tries \in Nat /\ tries <= k.fence /\ k.fence \in Nat /\ k.fence > 0 /\ k.fence <= MaxFence
  BY ReleasesAssumption DEF JobFits
<1>4. JobFits(k)
  <2>1. k.lapsed \in BOOLEAN
    OBVIOUS
  <2>2. k.version \in Nat /\ k.cursor < Ingestion!UnitsOf(k.stage)
    BY DEF JobFits
  <2> QED BY <1>2, <1>3, <2>1, <2>2 DEF JobFits
<1>5. SamePlace(j, k)
  BY <1>1 DEF SamePlace
<1> QED BY <1>1, <1>3, <1>4, <1>5

ClaimOf(j, k, state, tries, fence, version) ==
  k = [j EXCEPT !.status = state, !.attempt = tries, !.lapsed = FALSE, !.fence = fence,
                !.version = version]
Taken(j, k, state, tries, fence, version) ==
  /\ JobRow(k) /\ k.status = state /\ k.stage = j.stage /\ k.cursor = j.cursor
  /\ k.attempt = tries /\ k.lapsed = FALSE /\ k.fence = fence
  /\ k.generation = j.generation /\ k.version = version /\ k.replays = j.replays
LEMMA ClaimFields ==
  ASSUME NEW j, JobRow(j), NEW k, NEW state, NEW tries, NEW fence, NEW version,
         ClaimOf(j, k, state, tries, fence, version)
  PROVE  Taken(j, k, state, tries, fence, version)
<1>1. PICK one : one = [j EXCEPT !.status = state]
  OBVIOUS
<1>2. PICK two : two = [one EXCEPT !.attempt = tries]
  OBVIOUS
<1>3. PICK three : three = [two EXCEPT !.lapsed = FALSE]
  OBVIOUS
<1>4. PICK four : four = [three EXCEPT !.fence = fence]
  OBVIOUS
<1>5. PICK five : five = [four EXCEPT !.version = version]
  OBVIOUS
<1>6. k = five
  BY <1>1, <1>2, <1>3, <1>4, <1>5 DEF ClaimOf
<1>7. /\ JobRow(one) /\ one.status = state /\ one.stage = j.stage /\ one.cursor = j.cursor
      /\ one.fence = j.fence /\ one.generation = j.generation /\ one.version = j.version
      /\ one.replays = j.replays
  BY <1>1, SetStatus
<1>8. /\ JobRow(two) /\ two.status = state /\ two.stage = j.stage /\ two.cursor = j.cursor
      /\ two.attempt = tries /\ two.fence = j.fence /\ two.generation = j.generation
      /\ two.version = j.version /\ two.replays = j.replays
  BY <1>2, <1>7, SetAttempt
<1>9. /\ JobRow(three) /\ three.status = state /\ three.stage = j.stage
      /\ three.cursor = j.cursor /\ three.attempt = tries /\ three.lapsed = FALSE
      /\ three.generation = j.generation /\ three.version = j.version
      /\ three.replays = j.replays
  BY <1>3, <1>8, SetLapsed
<1>10. /\ JobRow(four) /\ four.status = state /\ four.stage = j.stage
       /\ four.cursor = j.cursor /\ four.attempt = tries /\ four.lapsed = FALSE
       /\ four.fence = fence /\ four.generation = j.generation
       /\ four.replays = j.replays
  BY <1>4, <1>9, SetFence
<1>11. /\ JobRow(five) /\ five.status = state /\ five.stage = j.stage /\ five.cursor = j.cursor
       /\ five.attempt = tries /\ five.lapsed = FALSE /\ five.fence = fence
       /\ five.generation = j.generation /\ five.version = version /\ five.replays = j.replays
  BY <1>5, <1>10, SetVersion
<1> QED BY <1>6, <1>11 DEF Taken

LEMMA ClaimKeeps ==
  ASSUME IngestionInv, NEW w \in Actor, Ingestion!Claim(w)
  PROVE  IngestionInv'
<1>1. PICK j : j = job
  OBVIOUS
<1>2. /\ JobFits(j) /\ j.fence < MaxFence
      /\ j.status \in {"queued", "retry_wait", "deletion_pending", "running", "deleting"}
      /\ j.generation \in Nat /\ JobFits(job) /\ job.generation \in Nat /\ job.version \in Nat
  BY <1>1, ReleasesAssumption
     DEF Ingestion!Claim, Ingestion!Claimable, IngestionInv, JobInv, JobFits
<1>3. PICK state : state = IF j.status \in Ingestion!Deletion THEN "deleting" ELSE "running"
  OBVIOUS
<1>4. PICK tries :
        tries = IF j.status \in Ingestion!Deletion THEN j.attempt ELSE j.attempt + 1
  OBVIOUS
<1>17. PICK fence : fence = j.fence + 1
  OBVIOUS
<1>18. PICK version : version = j.version + 1
  OBVIOUS
<1>19. JobRow(j)
  BY <1>2, FitRow
<1>20. PICK claimed :
         claimed = [j EXCEPT !.status = state, !.attempt = tries, !.lapsed = FALSE,
                             !.fence = fence, !.version = version]
  OBVIOUS
<1>21. ClaimOf(j, claimed, state, tries, fence, version)
  BY <1>20 DEF ClaimOf
<1>5. /\ JobRow(claimed) /\ claimed.status = state /\ claimed.stage = j.stage
      /\ claimed.cursor = j.cursor /\ claimed.attempt = tries /\ claimed.lapsed = FALSE
      /\ claimed.fence = fence /\ claimed.generation = j.generation
      /\ claimed.version = version /\ claimed.replays = j.replays
  <2>1. Taken(j, claimed, state, tries, fence, version)
    BY <1>19, <1>21, ClaimFields
  <2> QED BY <2>1 DEF Taken
<1>6. PICK step : step = IF j.status \in Ingestion!Deletion THEN "work" ELSE "approve"
  OBVIOUS
<1>7. PICK k : k = [job |-> claimed, next |-> claimed, lapsed |-> FALSE, step |-> step]
  OBVIOUS
<1>8. /\ job' = claimed /\ worker' = [worker EXCEPT ![w] = k]
      /\ UNCHANGED <<rows, files, barred, approved>>
  BY <1>1, <1>3, <1>4, <1>6, <1>7, <1>17, <1>18, <1>20 DEF Ingestion!Claim
<1>9. /\ JobFits(claimed) /\ claimed.status \in {"running", "deleting"} /\ claimed.fence > 0
      /\ SamePlace(j, claimed)
  BY <1>2, <1>3, <1>4, <1>5, <1>17, <1>18, ClaimedRow
<1>10. WorkRow(k) /\ k.job = claimed /\ k.next = claimed /\ k.step = step
  BY <1>7 DEF WorkRow
<1>11. JobFits(job)' /\ job'.version = job.version + 1 /\ job'.generation = job.generation
  BY <1>1, <1>5, <1>8, <1>9, <1>18 DEF JobFits
<1>12. JobAhead /\ StoresAhead
  BY <1>2, <1>8, <1>11 DEF JobAhead, StoresAhead
<1>13. /\ step \in {"work", "approve"} /\ (step = "approve" => claimed.status = "running")
       /\ SameClaim(claimed, claimed) /\ claimed.version \in Nat /\ claimed.generation \in Nat
  BY <1>2, <1>3, <1>5, <1>6, <1>18 DEF SameClaim, JobFits
<1>14. WorkerFits(k)'
  BY <1>8, <1>9, <1>10, <1>13 DEF WorkerFits, Completes, Fails, Ingestion!Step
<1>15. WorkersInv'
  BY <1>8, <1>12, <1>14, WorkersStay
<1>16. JobInv' /\ StoresInv' /\ WholeInv' /\ GoneInv'
  <2>1. /\ SamePlace(job, job') /\ job'.status # "tombstoned" /\ job.generation <= job'.generation
    BY <1>1, <1>2, <1>8, <1>9, <1>11
  <2>2. approved' \in BOOLEAN
    BY <1>8 DEF IngestionInv, JobInv
  <2> QED BY <1>8, <1>11, <2>1, <2>2, PlaceStays
<1> QED BY <1>15, <1>16 DEF IngestionInv

\* A step that moves the row's lease only.
LEMMA LeaseKeeps ==
  ASSUME IngestionInv, NEW lapsed \in BOOLEAN, job' = [job EXCEPT !.lapsed = lapsed],
         UNCHANGED <<rows, files, barred, approved, worker>>
  PROVE  IngestionInv'
<1>1. PICK j : j = job
  OBVIOUS
<1>2. PICK k : k = [j EXCEPT !.lapsed = lapsed]
  OBVIOUS
<1>3. JobFits(j) /\ job' = k
  BY <1>1, <1>2 DEF IngestionInv, JobInv
<1>4. /\ JobRow(k) /\ k.status = j.status /\ k.stage = j.stage /\ k.cursor = j.cursor
      /\ k.attempt = j.attempt /\ k.lapsed = lapsed /\ k.fence = j.fence
      /\ k.generation = j.generation /\ k.version = j.version /\ k.replays = j.replays
  BY <1>2, <1>3, FitRow, SetLapsed
<1>5. JobFits(k)
  BY <1>3, <1>4 DEF JobFits
<1>6. SameClaim(j, k) /\ SamePlace(j, k)
  BY <1>4 DEF SameClaim, SamePlace
<1>7. JobFits(job)' /\ SameClaim(job, job') /\ SamePlace(job, job')
  BY <1>1, <1>3, <1>5, <1>6 DEF JobFits
<1>8. job.generation \in Nat /\ job'.generation = job.generation /\ job'.status = job.status
  BY <1>1, <1>3, <1>4, ReleasesAssumption DEF JobFits
<1>9. JobAhead /\ StoresAhead
  BY <1>7, <1>8 DEF JobAhead, StoresAhead
<1>10. WorkersInv'
  BY <1>9, AllWorkersStay
<1>11. approved' \in BOOLEAN
  BY DEF IngestionInv, JobInv
<1>12. JobInv' /\ StoresInv' /\ WholeInv' /\ GoneInv'
  BY <1>7, <1>8, <1>11, PlaceStays
<1> QED BY <1>10, <1>12 DEF IngestionInv

LEMMA ApproveKeeps ==
  ASSUME IngestionInv, NEW w \in Actor, Ingestion!Approve(w)
  PROVE  IngestionInv'
<1>1. PICK step : step = IF approved THEN "work" ELSE "permanent"
  OBVIOUS
<1>2. /\ worker[w] # Nil /\ Ingestion!Goto(w, step)
      /\ UNCHANGED <<job, rows, files, barred, approved>>
  BY <1>1 DEF Ingestion!Approve, Ingestion!At
<1>3. PICK i : i = worker[w]
  OBVIOUS
<1>4. PICK k : /\ worker' = [worker EXCEPT ![w] = k] /\ WorkRow(k) /\ k.job = i.job
               /\ k.next = i.next /\ k.step = step
  BY <1>2, <1>3, GoesToStep
<1>5. WorkerFits(i) /\ i # Nil /\ step \in {"work", "transient", "permanent"}
  BY <1>1, <1>2, <1>3 DEF IngestionInv, WorkersInv
<1>6. WorkerFits(k)
  BY <1>4, <1>5, StepFits
<1> QED BY <1>2, <1>4, <1>6, OnlyWorker

\* What fails or is refused leaves the stores as they are.
LEMMA FaultKeeps ==
  ASSUME IngestionInv, NEW w \in Actor, worker[w] # Nil, NEW step \in {"transient", "permanent"},
         Ingestion!Goto(w, step), UNCHANGED <<job, rows, files, barred, approved>>
  PROVE  IngestionInv'
<1>1. PICK i : i = worker[w]
  OBVIOUS
<1>2. PICK k : /\ worker' = [worker EXCEPT ![w] = k] /\ WorkRow(k) /\ k.job = i.job
               /\ k.next = i.next /\ k.step = step
  BY <1>1, GoesToStep
<1>3. WorkerFits(i) /\ i # Nil
  BY <1>1 DEF IngestionInv, WorkersInv
<1>4. WorkerFits(k)
  BY <1>2, <1>3, StepFits
<1> QED BY <1>2, <1>4, OnlyWorker

LEMMA ScanKeeps ==
  ASSUME IngestionInv, NEW w \in Actor, Ingestion!At(w, "work"), Ingestion!Scan(w),
         UNCHANGED <<job, rows, barred, approved>>
  PROVE  IngestionInv'
<1>1. PICK i : i = worker[w]
  OBVIOUS
<1>2. /\ i # Nil /\ i.job.stage \in Ingestion!Scans /\ Ingestion!Goto(w, "finish")
      /\ UNCHANGED <<job, rows, files, barred, approved>>
  BY <1>1 DEF Ingestion!At, Ingestion!Scan, Ingestion!Claimed
<1>3. PICK k : /\ worker' = [worker EXCEPT ![w] = k] /\ WorkRow(k) /\ k.job = i.job
               /\ k.next = i.next /\ k.step = "finish"
  BY <1>1, <1>2, GoesToStep
<1>4. WorkerFits(i) /\ k.job.stage # "delete" /\ ~Derives(k.job)
  BY <1>1, <1>2, <1>3 DEF IngestionInv, WorkersInv, Derives, Ingestion!Scans
<1>5. WorkerFits(k)
  BY <1>2, <1>3, <1>4 DEF WorkerFits, Ingestion!Step
<1> QED BY <1>2, <1>3, <1>5, OnlyWorker

\* A derivation under way finds the stores open as long as nobody deletes.
LEMMA DeriveKeeps ==
  ASSUME IngestionInv, NEW w \in Actor, Ingestion!At(w, "work"), Ingestion!Derive(w),
         worker[w].job.stage # "delete", UNCHANGED <<job, rows, barred, approved>>
  PROVE  IngestionInv'
<1>1. PICK i : i = worker[w]
  OBVIOUS
<1>2. i # Nil /\ i.job.stage # "delete" /\ WorkerFits(i) /\ JobFits(i.job) /\ WorkRow(i)
  BY <1>1 DEF Ingestion!At, IngestionInv, WorkersInv, WorkerFits
<1>3. i.job.generation = 0 /\ i.job.generation \in Nat /\ barred \in Nat
  BY <1>2, ReleasesAssumption DEF JobFits, IngestionInv, JobInv
<1>4. CASE i.job.generation < barred
  <2>1. Ingestion!Goto(w, "permanent") /\ UNCHANGED files
    BY <1>1, <1>4 DEF Ingestion!Derive, Ingestion!Claimed
  <2> QED BY <1>1, <1>2, <2>1, FaultKeeps
<1>5. CASE ~(i.job.generation < barred)
  <2>1. PICK a : a = ArtifactOf(i.job)
    OBVIOUS
  <2>2. Ingestion!Goto(w, "finish") /\ files' = files \cup {a}
    BY <1>1, <1>5, <2>1
       DEF Ingestion!Derive, Ingestion!Claimed, Ingestion!UnitArtifact, ArtifactOf
  <2>3. barred = 0
    BY <1>3, <1>5
  <2>4. PICK k : /\ worker' = [worker EXCEPT ![w] = k] /\ WorkRow(k) /\ k.job = i.job
                 /\ k.next = i.next /\ k.step = "finish"
    BY <1>1, <1>2, <2>2, GoesToStep
  <2>5. JobAhead /\ StoresAhead
    BY <2>2, <2>3 DEF IngestionInv, JobInv, JobFits, JobAhead, StoresAhead, SameClaim
  <2>6. WorkerFits(k)'
    <3>1. ArtifactOf(k.job) \in files'
      BY <2>1, <2>2, <2>4
    <3> QED BY <1>2, <2>4, <3>1 DEF WorkerFits, Ingestion!Step
  <2>7. WorkersInv'
    BY <2>4, <2>5, <2>6, WorkersStay
  <2>8. Stored(a)
    <3>1. /\ a.stage = i.job.stage /\ a.unit = i.job.cursor + 1 /\ a.fence = i.job.fence
          /\ a = [stage |-> a.stage, unit |-> a.unit, generation |-> 0, fence |-> a.fence]
      BY <1>3, <2>1 DEF ArtifactOf
    <3>2. i.job.stage \in Pipeline
      BY <1>2 DEF JobFits
    <3>3. i.job.cursor + 1 \in 1..Units
      BY <1>2, UnitsCount, ReleasesAssumption DEF JobFits
    <3>4. i.job.fence \in 1..MaxFence
      BY <1>2, ReleasesAssumption DEF WorkerFits, JobFits
    <3> QED BY <3>1, <3>2, <3>3, <3>4 DEF Stored
  <2>9. JobInv' /\ StoresInv'
    BY <2>2, <2>8 DEF IngestionInv, JobInv, StoresInv
  <2>10. WholeInv'
    BY <2>2 DEF IngestionInv, WholeInv, Whole
  <2>11. GoneInv'
    BY <2>3 DEF IngestionInv, GoneInv
  <2> QED BY <2>7, <2>9, <2>10, <2>11 DEF IngestionInv
<1> QED BY <1>4, <1>5

LEMMA WorkKeeps ==
  ASSUME IngestionInv, NEW w \in Actor, Ingestion!Work(w)
  PROVE  IngestionInv'
<1>1. /\ Ingestion!At(w, "work") /\ worker[w] # Nil /\ worker[w].job.stage # "delete"
      /\ Ingestion!Scan(w) \/ Ingestion!Derive(w) \/ Ingestion!Fault(w)
      /\ UNCHANGED <<job, rows, barred, approved>>
  BY DEF Ingestion!Work, Ingestion!Claimed, Ingestion!At
<1>2. CASE Ingestion!Fault(w)
  <2>1. PICK step \in {"transient", "permanent"} : Ingestion!Goto(w, step)
    BY <1>2 DEF Ingestion!Fault
  <2> QED BY <1>1, <1>2, <2>1, FaultKeeps DEF Ingestion!Fault
<1> QED BY <1>1, <1>2, ScanKeeps, DeriveKeeps

\* A deletion that is not the newest is refused; any other bars the stores first.
LEMMA DeleteFilesKeeps ==
  ASSUME IngestionInv, NEW w \in Actor, Ingestion!DeleteFiles(w)
  PROVE  IngestionInv'
<1>1. PICK i : i = worker[w]
  OBVIOUS
<1>2. /\ i # Nil
      /\ (i.step = "work" /\ i.job.stage = "delete") \/ i.step = "candidate"
      /\ UNCHANGED <<job, rows, approved>>
  BY <1>1 DEF Ingestion!DeleteFiles, Ingestion!At, Ingestion!Claimed
<1>3. WorkerFits(i) /\ JobFits(i.job) /\ WorkRow(i) /\ i.job.stage = "delete"
  BY <1>1, <1>2 DEF IngestionInv, WorkersInv, WorkerFits
<1>4. /\ i.job.generation \in Nat /\ i.job.generation > 0 /\ barred \in Nat
      /\ i.job.generation <= job.generation /\ job.generation \in Nat
  BY <1>2, <1>3, ReleasesAssumption DEF WorkerFits, JobFits, IngestionInv, JobInv
<1>5. CASE i.job.generation < barred
  <2>1. Ingestion!Goto(w, "permanent") /\ UNCHANGED <<files, barred>>
    BY <1>1, <1>5 DEF Ingestion!DeleteFiles, Ingestion!Claimed
  <2> QED BY <1>1, <1>2, <2>1, FaultKeeps
<1>6. CASE ~(i.job.generation < barred)
  <2>1. barred' = i.job.generation
    BY <1>1, <1>6 DEF Ingestion!DeleteFiles, Ingestion!Claimed
  <2>2. PICK step \in {"candidate", "finish"} :
          /\ Ingestion!Goto(w, step) /\ files' \subseteq files
          /\ \A f \in files' : f.stage # "quarantine"
          /\ step = "finish" => files' = {}
    <3>1. CASE i.step = "work"
      <4>1. files' = files \ Ingestion!Quarantined /\ Ingestion!Goto(w, "candidate")
        BY <1>1, <1>2, <1>6, <3>1 DEF Ingestion!DeleteFiles, Ingestion!Claimed, Ingestion!At
      <4> QED BY <4>1 DEF Ingestion!Quarantined
    <3>2. CASE i.step = "candidate"
      <4>1. files' = Ingestion!Quarantined /\ Ingestion!Goto(w, "finish")
        BY <1>1, <1>2, <1>6, <3>2 DEF Ingestion!DeleteFiles, Ingestion!Claimed, Ingestion!At
      <4>2. \A f \in files : f.stage # "quarantine"
        BY <1>2, <1>3, <3>2 DEF WorkerFits
      <4>3. files' = {}
        BY <4>1, <4>2 DEF Ingestion!Quarantined
      <4> QED BY <4>1, <4>3
    <3> QED BY <1>2, <3>1, <3>2
  <2>3. PICK k : /\ worker' = [worker EXCEPT ![w] = k] /\ WorkRow(k) /\ k.job = i.job
                 /\ k.next = i.next /\ k.step = step
    BY <1>1, <1>2, <2>2, GoesToStep
  <2>4. JobAhead /\ StoresAhead
    BY <1>2, <1>4, <2>1, <2>2 DEF IngestionInv, JobInv, JobFits, JobAhead, StoresAhead, SameClaim
  <2>5. WorkerFits(k)'
    BY <1>2, <1>3, <1>4, <2>1, <2>2, <2>3 DEF WorkerFits, Completes, Ingestion!Step
  <2>6. WorkersInv'
    BY <2>3, <2>4, <2>5, WorkersStay
  <2>7. JobInv' /\ StoresInv'
    BY <1>2, <1>4, <2>1, <2>2 DEF IngestionInv, JobInv, StoresInv
  <2>8. WholeInv' /\ GoneInv'
    BY <1>2, <1>4, <2>1, <2>2 DEF IngestionInv, WholeInv, GoneInv
  <2> QED BY <2>6, <2>7, <2>8 DEF IngestionInv
<1> QED BY <1>5, <1>6

\* What a worker has done or failed to do decides the next state of the job.
LEMMA FinishKeeps ==
  ASSUME IngestionInv, NEW w \in Actor, Ingestion!Finish(w)
  PROVE  IngestionInv'
<1>1. PICK i : i = worker[w]
  OBVIOUS
<1>2. PICK result : result = Ingestion!Result(w)
  OBVIOUS
<1>3. /\ i # Nil /\ i.step \in {"finish", "transient", "permanent"}
      /\ i.step = "finish" \/ i.job.status = "running"
      /\ UNCHANGED <<job, rows, files, barred, approved>>
  BY <1>1 DEF Ingestion!Finish, Ingestion!Recordable, Ingestion!Claimed
<1>4. /\ i.step = "finish" => result = Ingestion!Advance(Ingestion!Finished(i.job))
      /\ i.step = "transient" => result = Ingestion!Advance(Ingestion!Deferred(i.job))
      /\ i.step = "permanent" => result = Ingestion!Advance(Ingestion!Rejected(i.job))
  BY <1>1, <1>2 DEF Ingestion!Result, Ingestion!Claimed
<1>5. PICK one : one = [i EXCEPT !.next = result]
  OBVIOUS
<1>6. PICK k : k = [one EXCEPT !.step = "commit"]
  OBVIOUS
<1>7. worker' = [worker EXCEPT ![w] = k]
  BY <1>1, <1>2, <1>5, <1>6 DEF Ingestion!Finish
<1>8. WorkerFits(i) /\ WorkRow(i) /\ JobFits(i.job) /\ i.job.status \in {"running", "deleting"}
  BY <1>1, <1>3 DEF IngestionInv, WorkersInv, WorkerFits
<1>9. WorkRow(one) /\ one.job = i.job /\ one.next = result /\ one.step = i.step
  BY <1>5, <1>8, NextRow
<1>10. WorkRow(k) /\ k.job = i.job /\ k.next = result /\ k.step = "commit"
  BY <1>6, <1>9, StepRow
<1>11. CASE i.step = "finish"
  <2>1. JobFits(result)
    BY <1>4, <1>8, <1>11, CompletesRow
  <2>2. Completes(i) /\ Completes(k)
    BY <1>4, <1>10, <1>11 DEF Completes
  <2>3. WorkerFits(k)
    BY <1>3, <1>8, <1>10, <2>1, <2>2 DEF WorkerFits, Ingestion!Step
  <2> QED BY <1>3, <1>7, <2>3, OnlyWorker
<1>12. CASE i.step \in {"transient", "permanent"}
  <2>1. Failed(i.job, result)
    <3>1. PICK j : j = i.job
      OBVIOUS
    <3>2. JobFits(j) /\ j.status = "running"
      BY <1>3, <1>8, <1>12, <3>1
    <3>3. \/ result = Ingestion!Advance(Ingestion!Deferred(j))
          \/ result = Ingestion!Advance(Ingestion!Rejected(j))
      BY <1>4, <1>12, <3>1
    <3> QED BY <3>1, <3>2, <3>3, FailsRow
  <2>2. Fails(k) /\ i.job.status = "running"
    BY <1>3, <1>4, <1>10, <1>12 DEF Fails
  <2>3. ~Completes(k)
    <3>1. result # Ingestion!Advance(Ingestion!Finished(i.job))
      <4>1. PICK finished : finished = Ingestion!Advance(Ingestion!Finished(i.job))
        OBVIOUS
      <4>2. finished.status \in {"queued", "candidate_ready", "tombstoned"}
        BY <1>8, <4>1, CompletesRow
      <4> QED BY <2>1, <4>1, <4>2 DEF Failed
    <3> QED BY <1>10, <3>1 DEF Completes
  <2>4. JobFits(result)
    BY <2>1 DEF Failed
  <2>5. WorkerFits(k)
    BY <1>8, <1>10, <1>3, <2>2, <2>3, <2>4 DEF WorkerFits, Ingestion!Step
  <2> QED BY <1>3, <1>7, <2>5, OnlyWorker
<1> QED BY <1>3, <1>11, <1>12

LEMMA LapseCopyKeeps ==
  ASSUME IngestionInv, NEW w \in Actor, Ingestion!LapseCopy(w)
  PROVE  IngestionInv'
<1>1. PICK i : i = worker[w]
  OBVIOUS
<1>2. PICK k : k = [i EXCEPT !.lapsed = TRUE]
  OBVIOUS
<1>3. i # Nil /\ worker' = [worker EXCEPT ![w] = k] /\ UNCHANGED <<job, rows, files, barred, approved>>
  BY <1>1, <1>2 DEF Ingestion!LapseCopy
<1>4. WorkerFits(i) /\ WorkRow(i)
  BY <1>1, <1>3 DEF IngestionInv, WorkersInv, WorkerFits
<1>5. WorkRow(k) /\ k.job = i.job /\ k.next = i.next /\ k.step = i.step
  BY <1>2, <1>4, LapsedRow
<1>6. (Completes(k) <=> Completes(i)) /\ (Fails(k) <=> Fails(i))
  BY <1>5 DEF Completes, Fails
<1>7. WorkerFits(k)
  BY <1>3, <1>4, <1>5, <1>6 DEF WorkerFits
<1> QED BY <1>3, <1>7, OnlyWorker

\* A unit that a job is at is not behind it.
LEMMA NotDoneYet ==
  ASSUME NEW j, JobFits(j), j.status \in {"running", "deleting"}
  PROVE  ~Done(j, j.stage, j.cursor + 1)
<1>1. Rank(j.stage) \in Nat
  BY DEF Rank
<1> QED BY <1>1 DEF JobFits, Done

\* What a worker may commit: whose claim still stands commits a whole unit, the end of
\* a deletion, or a failure that leaves the job where it is.
Committing(w) == Ingestion!At(w, "commit") /\ Ingestion!Current(w)
LEMMA CommitJob ==
  ASSUME IngestionInv, NEW w \in Actor, Committing(w), NEW i, i = worker[w]
  PROVE  /\ WorkerFits(i) /\ i # Nil /\ i.step = "commit" /\ JobFits(i.job) /\ JobFits(i.next)
         /\ SameClaim(i.job, job) /\ i.job.status \in {"running", "deleting"}
         /\ Completes(i) \/ Fails(i)
         /\ SamePlace(job, i.job) /\ SamePlace(i.job, job)
BY DEF Committing, Ingestion!At, Ingestion!Current, IngestionInv, WorkersInv, WorkerFits,
       SameClaim, SamePlace

LEMMA CommitsNothing ==
  ASSUME IngestionInv, NEW w \in Actor, Committing(w), NEW i, i = worker[w],
         Fails(i) \/ i.job.stage = "delete"
  PROVE  Ingestion!Produced(w) = {}
<1>1. /\ JobFits(i.job) /\ i.job.status \in {"running", "deleting"} /\ i.step = "commit"
      /\ Completes(i) \/ Fails(i)
  BY CommitJob
<1>2. CASE Fails(i)
  <2>1. Failed(i.job, i.next)
    BY <1>1, <1>2, FailsRow DEF Fails
  <2> QED BY <2>1 DEF Failed, Ingestion!Produced
<1>3. CASE Completes(i) /\ i.job.stage = "delete"
  <2>1. i.next = Ingestion!Advance(Ingestion!Finished(i.job))
    BY <1>1, <1>3 DEF Completes
  <2>2. i.next.status = "tombstoned"
    BY <1>1, <1>3, <2>1, CompletesRow
  <2> QED BY <2>2 DEF Ingestion!Produced
<1> QED BY <1>1, <1>2, <1>3

LEMMA CommitsUnit ==
  ASSUME IngestionInv, NEW w \in Actor, Committing(w), NEW i, i = worker[w],
         Completes(i), i.job.stage # "delete"
  PROVE  /\ Ingestion!Produced(w) = IF Derives(i.job) THEN {ArtifactOf(i.job)} ELSE {}
         /\ i.job.generation = 0 /\ job.generation = 0 /\ barred = 0
         /\ Derives(i.job) => ArtifactOf(i.job) \in files /\ Stored(ArtifactOf(i.job))
         /\ i.next.status \in {"queued", "candidate_ready"} /\ Steps(i.job, i.next)
         /\ i.next.version = i.job.version + 1 /\ i.next.generation = i.job.generation
<1>1. /\ JobFits(i.job) /\ i.job.status \in {"running", "deleting"} /\ i.step = "commit"
      /\ SameClaim(i.job, job) /\ WorkerFits(i) /\ i # Nil
  BY CommitJob
<1>2. i.next = Ingestion!Advance(Ingestion!Finished(i.job))
  BY <1>1 DEF Completes
<1>3. /\ i.next.status \in {"queued", "candidate_ready"} /\ Steps(i.job, i.next)
      /\ i.next.version = i.job.version + 1 /\ i.next.generation = i.job.generation
  BY <1>1, <1>2, CompletesRow
<1>4. i.job.generation = 0 /\ job.generation = 0 /\ barred = 0
  BY <1>1, ReleasesAssumption DEF JobFits, SameClaim, IngestionInv, JobInv
<1>5. Ingestion!Produced(w) = IF Derives(i.job) THEN {ArtifactOf(i.job)} ELSE {}
  BY <1>3 DEF Ingestion!Produced, Ingestion!Claimed, Ingestion!UnitArtifact, ArtifactOf, Derives
<1>6. Derives(i.job) => ArtifactOf(i.job) \in files
  BY <1>1, <1>4 DEF WorkerFits
<1>7. Derives(i.job) => Stored(ArtifactOf(i.job))
  BY <1>6 DEF IngestionInv, StoresInv
<1> QED BY <1>3, <1>4, <1>5, <1>6, <1>7

\* A unit is committed once: what is stored of the others stays whole.
LEMMA CommitUnitKeeps ==
  ASSUME IngestionInv, NEW w \in Actor, Committing(w), NEW i, i = worker[w],
         Completes(i), i.job.stage # "delete", job' = i.next, Ingestion!Leave(w),
         rows' = rows \cup Ingestion!Produced(w), UNCHANGED <<files, barred, approved>>
  PROVE  IngestionInv'
<1>1. /\ JobFits(i.job) /\ JobFits(i.next) /\ i.job.status \in {"running", "deleting"}
      /\ SameClaim(i.job, job) /\ SamePlace(job, i.job)
  BY CommitJob
<1>2. /\ Ingestion!Produced(w) = IF Derives(i.job) THEN {ArtifactOf(i.job)} ELSE {}
      /\ i.job.generation = 0 /\ job.generation = 0 /\ barred = 0
      /\ Derives(i.job) => ArtifactOf(i.job) \in files /\ Stored(ArtifactOf(i.job))
      /\ i.next.status \in {"queued", "candidate_ready"} /\ Steps(i.job, i.next)
      /\ i.next.version = i.job.version + 1 /\ i.next.generation = i.job.generation
  BY CommitsUnit
<1>3. PICK a : a = ArtifactOf(i.job)
  OBVIOUS
<1>4. a.stage = i.job.stage /\ a.unit = i.job.cursor + 1
  BY <1>3 DEF ArtifactOf
<1>5. ~Done(i.job, a.stage, a.unit)
  BY <1>1, <1>4, NotDoneYet
<1>6. \A s, u : Done(i.job, s, u) <=> Done(job, s, u)
  BY <1>1, PlaceDone
<1>7. job'.generation = 0 /\ JobFits(job)'
  BY <1>1, <1>2 DEF JobFits
<1>8. JobAhead /\ StoresAhead
  BY <1>1, <1>2, <1>7 DEF JobAhead, StoresAhead, SameClaim, JobFits
<1>9. WorkersInv'
  <2>1. WorkerFits(Nil)'
    BY DEF WorkerFits
  <2> QED BY <1>8, <2>1, WorkersStay DEF Ingestion!Leave
<1>10. JobInv'
  BY <1>2, <1>7 DEF IngestionInv, JobInv
<1>11. ASSUME NEW b \in rows' PROVE Stored(b) /\ Done(job', b.stage, b.unit)
  <2>1. CASE b \in rows
    <3>1. Stored(b) /\ Done(i.job, b.stage, b.unit)
      BY <1>2, <1>6, <2>1 DEF IngestionInv, StoresInv
    <3>2. b.stage \in Pipeline /\ b.unit \in Nat
      BY <3>1, ReleasesAssumption DEF Stored
    <3> QED BY <1>2, <3>1, <3>2 DEF Steps
  <2>2. CASE b \notin rows
    <3>1. b = a /\ Derives(i.job)
      BY <1>2, <1>3, <2>2
    <3>2. Done(i.next, a.stage, a.unit)
      BY <1>2, <1>4 DEF Steps
    <3> QED BY <1>2, <1>3, <3>1, <3>2
  <2> QED BY <2>1, <2>2
<1>12. StoresInv'
  BY <1>11 DEF IngestionInv, StoresInv
<1>13. ASSUME NEW stage \in Pipeline \ Ingestion!Scans, NEW unit \in 1..Ingestion!UnitsOf(stage),
              Done(job', stage, unit)
       PROVE  Whole(stage, unit)'
  <2>1. unit \in Nat \ {0} /\ unit <= Ingestion!UnitsOf(stage)
    BY UnitsCount
  <2>2. Done(i.job, stage, unit) \/ (stage = i.job.stage /\ unit = i.job.cursor + 1)
    BY <1>2, <1>13, <2>1 DEF Steps
  <2>3. CASE Done(i.job, stage, unit)
    <3>1. Whole(stage, unit)
      BY <1>2, <1>6, <2>3 DEF IngestionInv, WholeInv
    <3>2. PICK c \in files : /\ c.stage = stage /\ c.unit = unit /\ c.generation = 0
                             /\ {b \in rows : Ingestion!SameIdentity(c, b)} = {c}
      BY <3>1 DEF Whole
    <3>3. ~Ingestion!SameIdentity(c, a)
      BY <1>5, <2>3, <3>2 DEF Ingestion!SameIdentity
    <3>4. rows' = rows \/ rows' = rows \cup {a}
      BY <1>2, <1>3
    <3>5. {b \in rows' : Ingestion!SameIdentity(c, b)} = {c}
      BY <3>2, <3>3, <3>4
    <3> QED BY <3>2, <3>5 DEF Whole
  <2>4. CASE ~Done(i.job, stage, unit)
    <3>1. stage = a.stage /\ unit = a.unit /\ Derives(i.job)
      BY <1>4, <2>2, <2>4 DEF Derives
    <3>2. a \in files /\ rows' = rows \cup {a} /\ a.generation = 0
      BY <1>2, <1>3, <3>1 DEF ArtifactOf
    <3>3. ASSUME NEW b \in rows PROVE ~Ingestion!SameIdentity(a, b)
      <4>1. Done(i.job, b.stage, b.unit)
        BY <1>2, <1>6 DEF IngestionInv, StoresInv
      <4> QED BY <1>5, <4>1 DEF Ingestion!SameIdentity
    <3>4. Ingestion!SameIdentity(a, a)
      BY DEF Ingestion!SameIdentity
    <3>5. {b \in rows' : Ingestion!SameIdentity(a, b)} = {a}
      BY <3>2, <3>3, <3>4
    <3> QED BY <3>1, <3>2, <3>5 DEF Whole
  <2> QED BY <2>3, <2>4
<1>14. WholeInv'
  BY <1>13 DEF WholeInv
<1>15. GoneInv'
  BY <1>2 DEF GoneInv
<1> QED BY <1>9, <1>10, <1>12, <1>14, <1>15 DEF IngestionInv

\* The end of a deletion, and a failure.
LEMMA CommitEndKeeps ==
  ASSUME IngestionInv, NEW w \in Actor, Committing(w), NEW i, i = worker[w],
         Fails(i) \/ i.job.stage = "delete", job' = i.next, Ingestion!Leave(w),
         rows' = IF i.next.status = "tombstoned" THEN {} ELSE rows \cup Ingestion!Produced(w),
         UNCHANGED <<files, barred, approved>>
  PROVE  IngestionInv'
<1>1. /\ JobFits(i.job) /\ JobFits(i.next) /\ i.job.status \in {"running", "deleting"}
      /\ SameClaim(i.job, job) /\ SamePlace(job, i.job)
      /\ Completes(i) \/ Fails(i)
      /\ i.step = "commit" /\ WorkerFits(i) /\ i # Nil
  BY CommitJob
<1>2. Ingestion!Produced(w) = {}
  BY CommitsNothing
<1>3. i.next.version = i.job.version + 1 /\ i.job.generation <= i.next.generation
  <2>1. CASE Fails(i)
    BY <1>1, <2>1, FailsRow DEF Fails, Failed
  <2>2. CASE Completes(i)
    <3>1. /\ i.next = Ingestion!Advance(Ingestion!Finished(i.job))
          /\ i.job.generation \in Nat
      BY <1>1, <2>2, ReleasesAssumption DEF Completes, JobFits
    <3> QED BY <1>1, <3>1, CompletesRow
  <2> QED BY <1>1, <2>1, <2>2
<1>4. JobFits(job)' /\ job.generation <= job'.generation /\ job'.version = job.version + 1
  BY <1>1, <1>3 DEF JobFits, SameClaim
<1>5. JobAhead /\ StoresAhead
  BY <1>1, <1>4 DEF JobAhead, StoresAhead, SameClaim, JobFits
<1>6. WorkersInv'
  <2>1. WorkerFits(Nil)'
    BY DEF WorkerFits
  <2> QED BY <1>5, <2>1, WorkersStay DEF Ingestion!Leave
<1>7. approved' \in BOOLEAN
  BY DEF IngestionInv, JobInv
<1>8. CASE Fails(i)
  <2>1. Failed(i.job, i.next)
    BY <1>1, <1>8, FailsRow DEF Fails
  <2>2. job'.status # "tombstoned" /\ rows' = rows
    BY <1>2, <2>1 DEF Failed
  <2>3. job'.generation = 0 => SamePlace(job, job')
    BY <1>1, <2>1 DEF Failed, SamePlace
  <2>4. JobInv' /\ StoresInv' /\ WholeInv' /\ GoneInv'
    BY <1>4, <1>7, <2>2, <2>3, PlaceStays
  <2> QED BY <1>6, <2>4 DEF IngestionInv
<1>9. CASE Completes(i) /\ i.job.stage = "delete"
  <2>1. i.next = Ingestion!Advance(Ingestion!Finished(i.job))
    BY <1>1, <1>9 DEF Completes
  <2>2. i.next.status = "tombstoned" /\ i.next.generation = i.job.generation
    BY <1>1, <1>9, <2>1, CompletesRow
  <2>3. files = {} /\ barred > 0 /\ rows' = {} /\ i.job.generation > 0
    BY <1>1, <1>9, <2>2 DEF WorkerFits, JobFits
  <2>4. job'.generation > 0 /\ job'.generation \in Nat
    BY <1>4, <2>2, <2>3, ReleasesAssumption DEF JobFits
  <2>5. JobInv'
    BY <1>1, <1>4, <1>7, <2>2 DEF IngestionInv, JobInv, SameClaim
  <2>6. StoresInv' /\ WholeInv' /\ GoneInv'
    BY <2>3, <2>4 DEF StoresInv, WholeInv, GoneInv
  <2> QED BY <1>6, <2>5, <2>6 DEF IngestionInv
<1> QED BY <1>1, <1>8, <1>9

LEMMA CommitKeeps ==
  ASSUME IngestionInv, NEW w \in Actor, Ingestion!Commit(w)
  PROVE  IngestionInv'
<1>1. PICK i : i = worker[w]
  OBVIOUS
<1>2. CASE Ingestion!Current(w) /\ ~Ingestion!Clashes(w)
  <2>1. /\ Committing(w) /\ job' = i.next /\ Ingestion!Leave(w)
        /\ rows' = IF i.next.status = "tombstoned" THEN {} ELSE rows \cup Ingestion!Produced(w)
        /\ UNCHANGED <<files, barred, approved>>
    BY <1>1, <1>2 DEF Ingestion!Commit, Committing
  <2>2. CASE Fails(i) \/ i.job.stage = "delete"
    BY <1>1, <2>1, <2>2, CommitEndKeeps
  <2>3. CASE Completes(i) /\ i.job.stage # "delete"
    <3>1. i.next.status # "tombstoned"
      BY <1>1, <2>1, <2>3, CommitsUnit
    <3> QED BY <1>1, <2>1, <2>3, <3>1, CommitUnitKeeps
  <2>4. Completes(i) \/ Fails(i)
    BY <1>1, <2>1, CommitJob
  <2> QED BY <2>2, <2>3, <2>4
<1>3. CASE ~(Ingestion!Current(w) /\ ~Ingestion!Clashes(w))
  BY <1>3, WorkerLeaves DEF Ingestion!Commit
<1> QED BY <1>2, <1>3

\* The operators.
LEMMA RequestKeeps ==
  ASSUME IngestionInv, Ingestion!RequestDeletion
  PROVE  IngestionInv'
<1>1. PICK j : j = job
  OBVIOUS
<1>2. PICK k : k = Ingestion!Advance(Ingestion!ForDeletion(j))
  OBVIOUS
<1>3. /\ JobFits(j) /\ j.generation < MaxGeneration /\ job' = k /\ j.generation \in Nat
      /\ UNCHANGED <<rows, files, barred, approved, worker>> /\ j.version \in Nat
  BY <1>1, <1>2, ReleasesAssumption DEF Ingestion!RequestDeletion, IngestionInv, JobInv, JobFits
<1>4. /\ JobFits(k) /\ k.version = j.version + 1 /\ k.generation = j.generation + 1
      /\ k.status = "deletion_pending"
  BY <1>2, <1>3, RequestRow
<1>5. JobFits(job)' /\ job.generation <= job'.generation /\ job.version < job'.version
  BY <1>1, <1>3, <1>4 DEF JobFits
<1>6. JobAhead /\ StoresAhead
  BY <1>3, <1>5 DEF JobAhead, StoresAhead
<1>7. WorkersInv'
  BY <1>3, <1>6, AllWorkersStay
<1>8. approved' \in BOOLEAN /\ job'.generation # 0 /\ job'.status # "tombstoned"
  BY <1>3, <1>4 DEF IngestionInv, JobInv
<1>9. JobInv' /\ StoresInv' /\ WholeInv' /\ GoneInv'
  BY <1>3, <1>5, <1>8, PlaceStays
<1> QED BY <1>7, <1>9 DEF IngestionInv

LEMMA ReplayJobKeeps ==
  ASSUME IngestionInv, Ingestion!ReplayDeadLetter
  PROVE  IngestionInv'
<1>1. PICK j : j = job
  OBVIOUS
<1>2. PICK k : k = Ingestion!Advance([j EXCEPT !.status = "queued", !.attempt = 0,
                                              !.replays = j.replays + 1])
  OBVIOUS
<1>3. /\ JobFits(j) /\ j.status = "dead_lettered" /\ j.replays < MaxReplays /\ job' = k
      /\ UNCHANGED <<rows, files, barred, approved, worker>>
      /\ j.version \in Nat /\ j.generation \in Nat
  BY <1>1, <1>2, ReleasesAssumption
     DEF Ingestion!ReplayDeadLetter, IngestionInv, JobInv, JobFits
<1>4. /\ JobFits(k) /\ k.version = j.version + 1 /\ k.generation = j.generation
      /\ k.status = "queued" /\ SamePlace(j, k)
  BY <1>2, <1>3, ReplayRow
<1>5. /\ JobFits(job)' /\ job.generation <= job'.generation /\ job.version < job'.version
      /\ SamePlace(job, job')
  BY <1>1, <1>3, <1>4 DEF JobFits
<1>6. JobAhead /\ StoresAhead
  BY <1>3, <1>5 DEF JobAhead, StoresAhead
<1>7. WorkersInv'
  BY <1>3, <1>6, AllWorkersStay
<1>8. approved' \in BOOLEAN /\ job'.status # "tombstoned"
  BY <1>3, <1>4 DEF IngestionInv, JobInv
<1>9. JobInv' /\ StoresInv' /\ WholeInv' /\ GoneInv'
  BY <1>3, <1>5, <1>8, PlaceStays
<1> QED BY <1>7, <1>9 DEF IngestionInv

\* Every step keeps the invariant.
LEMMA QuietIngestion ==
  ASSUME IngestionInv, UNCHANGED <<job, rows, files, barred, worker>>, approved' \in BOOLEAN
  PROVE  IngestionInv'
<1>1. JobAhead /\ StoresAhead
  BY DEF IngestionInv, JobInv, JobFits, JobAhead, StoresAhead, SameClaim
<1>2. WorkersInv'
  BY <1>1, AllWorkersStay
<1>3. JobInv' /\ StoresInv' /\ WholeInv' /\ GoneInv'
  BY DEF IngestionInv, JobInv, StoresInv, WholeInv, Whole, GoneInv
<1> QED BY <1>2, <1>3 DEF IngestionInv

LEMMA IngestionStep == IngestionInv /\ [Ingestion!Next]_ingestionVars => IngestionInv'
<1> SUFFICES ASSUME IngestionInv, [Ingestion!Next]_ingestionVars PROVE IngestionInv'
  OBVIOUS
<1>1. CASE UNCHANGED ingestionVars
  <2>1. approved \in BOOLEAN
    BY DEF IngestionInv, JobInv
  <2> QED BY <1>1, <2>1, QuietIngestion DEF ingestionVars
<1>2. ASSUME NEW w \in Actor,
             \/ Ingestion!Claim(w) \/ Ingestion!Heartbeat(w) \/ Ingestion!Approve(w)
             \/ Ingestion!Work(w) \/ Ingestion!DeleteFiles(w) \/ Ingestion!Finish(w)
             \/ Ingestion!Abandon(w) \/ Ingestion!Commit(w) \/ Ingestion!Crash(w)
             \/ Ingestion!LapseCopy(w)
      PROVE  IngestionInv'
  <2>1. CASE Ingestion!Heartbeat(w)
    BY <2>1, LeaseKeeps DEF Ingestion!Heartbeat
  <2>2. CASE Ingestion!Abandon(w) \/ Ingestion!Crash(w)
    BY <2>2, WorkerLeaves DEF Ingestion!Abandon, Ingestion!Crash
  <2> QED BY <1>2, <2>1, <2>2, ClaimKeeps, ApproveKeeps, WorkKeeps, DeleteFilesKeeps,
             FinishKeeps, CommitKeeps, LapseCopyKeeps
<1>3. CASE Ingestion!RevokeSource
  BY <1>3, QuietIngestion DEF Ingestion!RevokeSource
<1>4. CASE Ingestion!LapseRow
  BY <1>4, LeaseKeeps DEF Ingestion!LapseRow
<1> QED BY <1>1, <1>2, <1>3, <1>4, RequestKeeps, ReplayJobKeeps DEF Ingestion!Next

LEMMA IngestionStart == Ingestion!Init => IngestionInv
<1> SUFFICES ASSUME Ingestion!Init PROVE IngestionInv
  OBVIOUS
<1>1. PICK j : j = [status |-> "queued", stage |-> "quarantine", cursor |-> 0, attempt |-> 0,
                    lapsed |-> FALSE, fence |-> 0, generation |-> 0, version |-> 1,
                    replays |-> 0]
  OBVIOUS
<1>2. /\ job = j /\ rows = {} /\ files = {} /\ barred = 0 /\ approved = TRUE
      /\ worker = [w \in Actor |-> Nil]
  BY <1>1 DEF Ingestion!Init
<1>3. JobFits(j) /\ j.generation = 0 /\ j.status = "queued" /\ j.stage = "quarantine" /\ j.cursor = 0
  BY <1>1, UnitsCount, ReleasesAssumption
     DEF JobFits, JobRow, Ingestion!Statuses, Ingestion!Deletion, Pipeline
<1>4. JobInv /\ StoresInv /\ GoneInv
  BY <1>2, <1>3 DEF JobInv, StoresInv, GoneInv
<1>5. WorkersInv
  BY <1>2 DEF WorkersInv, WorkerFits
<1>6. WholeInv
  <2>1. ASSUME NEW stage \in Pipeline, NEW unit \in 1..Ingestion!UnitsOf(stage)
        PROVE  ~Done(j, stage, unit)
    BY <1>3, UnitsCount DEF Done, Rank, Pipeline
  <2> QED BY <1>2, <2>1 DEF WholeInv
<1> QED BY <1>4, <1>5, <1>6 DEF IngestionInv

-----------------------------------------------------------------------------

\* The invariant of the ingestion.
THEOREM IngestionInvariance == Ingestion!Spec => []IngestionInv
<1>1. IngestionInv /\ [Ingestion!Next]_(Ingestion!vars) => IngestionInv'
  BY IngestionStep DEF Ingestion!vars, ingestionVars
<1> QED BY <1>1, IngestionStart, PTL DEF Ingestion!Spec

\* A candidate is whole, a tombstone leaves nothing, a deletion is final and a resumed
\* unit derives nothing twice.
LEMMA CandidatesAreWhole == IngestionInv => Ingestion!CandidateIsWhole
<1> SUFFICES ASSUME IngestionInv, job.status = "candidate_ready",
                    NEW stage \in Ingestion!ToSet(Stages) \ Ingestion!Scans,
                    NEW unit \in 1..Ingestion!UnitsOf(stage)
             PROVE  \E a \in files : /\ a.stage = stage /\ a.unit = unit
                                     /\ a.generation = job.generation
                                     /\ {b \in rows : Ingestion!SameIdentity(a, b)} = {a}
  BY DEF Ingestion!CandidateIsWhole
<1>1. job.generation = 0
  BY ReleasesAssumption DEF IngestionInv, JobInv, JobFits, Ingestion!Deletion
<1>2. stage \in Pipeline \ Ingestion!Scans /\ Done(job, stage, unit)
  BY PipelineStages DEF Done
<1> QED BY <1>1, <1>2 DEF IngestionInv, WholeInv, Whole

LEMMA ResumesAreClean == IngestionInv => Ingestion!ResumeIsClean
<1> SUFFICES ASSUME IngestionInv, NEW w \in Actor, Committing(w)
             PROVE  ~Ingestion!Clashes(w)
  BY DEF Ingestion!ResumeIsClean, Committing
<1>1. PICK i : i = worker[w]
  OBVIOUS
<1>2. /\ Completes(i) \/ Fails(i)
      /\ JobFits(i.job) /\ i.job.status \in {"running", "deleting"} /\ SamePlace(job, i.job)
  BY <1>1, CommitJob
<1>3. CASE Fails(i) \/ i.job.stage = "delete"
  BY <1>1, <1>3, CommitsNothing DEF Ingestion!Clashes
<1>4. CASE Completes(i) /\ i.job.stage # "delete"
  <2>1. ASSUME NEW a \in Ingestion!Produced(w), NEW b \in rows
        PROVE  ~Ingestion!SameIdentity(a, b)
    <3>1. a = ArtifactOf(i.job) /\ job.generation = 0
      BY <1>1, <1>4, CommitsUnit
    <3>2. a.stage = i.job.stage /\ a.unit = i.job.cursor + 1
      BY <3>1 DEF ArtifactOf
    <3>3. ~Done(i.job, a.stage, a.unit)
      BY <1>2, <3>2, NotDoneYet
    <3>4. Done(i.job, b.stage, b.unit)
      BY <1>2, <3>1, PlaceDone DEF IngestionInv, StoresInv
    <3> QED BY <3>3, <3>4 DEF Ingestion!SameIdentity
  <2> QED BY <2>1 DEF Ingestion!Clashes
<1> QED BY <1>2, <1>3, <1>4

\* A tombstone leaves nothing, and the deletion of a job is of its row as a whole.
LEMMA TombstonesAreEmpty == IngestionInv => Ingestion!TombstoneLeavesNothing
BY DEF IngestionInv, GoneInv, Ingestion!TombstoneLeavesNothing

LEMMA DeletionsAreFinal == IngestionInv => Ingestion!DeletionIsFinal
BY DEF IngestionInv, JobInv, JobFits, Ingestion!Deletion, Ingestion!DeletionIsFinal

-----------------------------------------------------------------------------
(* The workflows together: a behaviour that takes up one of the planes is a *)
(* behaviour of that plane, and any other leaves it where it began.        *)

\* A step of the workflows is a step of each component.
LEMMA PlanesRun == Spec => Knowledge!Spec /\ Product!Spec
<1>1. Init => Knowledge!Init /\ Product!Init
  BY DEF Init
<1>2. [Next]_vars => [Knowledge!Next]_(Knowledge!vars)
  BY DEF Next, vars, knowledgeVars, Knowledge!vars
<1>3. [Next]_vars => [Product!Next]_(Product!vars)
  BY DEF Next, vars, productVars, Product!vars
<1> QED BY <1>1, <1>2, <1>3, PTL DEF Spec, Knowledge!Spec, Product!Spec

\* Knowledge releases and the releases of a market implement the same abstract release.
THEOREM PlanesImplementReleases == Spec => ReleasePlanes
<1> QED BY PlanesRun, KnowledgeImplementsRelease, ProductImplementsRelease, PTL
       DEF ReleasePlanes

\* The pointer agrees with the releases, and the events and the revisions tell what
\* happened.
THEOREM PointersAreExplained == Spec => []PointerExplained
<1>1. KnowledgeInv /\ ProductInv => PointerExplained
  BY HistoryExplains DEF KnowledgeInv, ProductInv, PointerExplained
<1> QED BY <1>1, PlanesRun, KnowledgeInvariance, ProductInvariance, PTL

\* Retrieval reads under one value of the pointer, and critical barriers are kept.
THEOREM ReadsAreUnderOnePointer == Spec => ReadsUnderOnePointer
BY PlanesRun, EvidenceIsCurrent, BarriersAreKept, PTL DEF ReadsUnderOnePointer

\* A step of the workflows is a step of each of the other components.
LEMMA WorkflowsRun == Spec => Ledger!Spec /\ Intake!Spec /\ Corpus!Spec /\ Ingestion!Spec
<1>1. Init => Ledger!Init /\ Intake!Init /\ Corpus!Init /\ Ingestion!Init
  BY DEF Init
<1>2. [Next]_vars => [Ledger!Next]_(Ledger!vars)
  BY DEF Next, vars, ledgerVars, Ledger!vars
<1>3. [Next]_vars => [Intake!Next]_(Intake!vars)
  BY DEF Next, vars, intakeVars, Intake!vars
<1>4. [Next]_vars => [Corpus!Next]_(Corpus!vars)
  BY DEF Next, vars, corpusVars, Corpus!vars
<1>5. [Next]_vars => [Ingestion!Next]_(Ingestion!vars)
  BY DEF Next, vars, ingestionVars, Ingestion!vars
<1> QED BY <1>1, <1>2, <1>3, <1>4, <1>5, PTL
       DEF Spec, Ledger!Spec, Intake!Spec, Corpus!Spec, Ingestion!Spec

\* No document is run twice nor beyond the day's pages, and the ledger's evidence is of
\* what the provider did.
THEOREM LedgerIsTrue == Spec => []LedgerTellsTheTruth
<1>1. LedgerInv /\ LedgerBounds => LedgerTellsTheTruth
  BY LedgerSound DEF LedgerTellsTheTruth
<1> QED BY <1>1, WorkflowsRun, LedgerIsBounded, PTL

\* What a component decided stays decided: the final records of a document, an active
\* release of a market, a stored object and the deletion of a local batch.
THEOREM DecisionsAreFinal == Spec => DecisionsStand
BY PlanesRun, WorkflowsRun, FinalRecordsStay, MarketsStayServed, ObjectsAreCreatedOnce,
   BatchesStayDeleted, PTL DEF DecisionsStand

\* What the stores hold is what the rows say: of an ingestion job, of the intake of a
\* dataset and of the local corpus.
THEOREM ArtifactsAreTrue == Spec => []ArtifactsMatchJob
<1>1. IntakeInv => Intake!QuarantineHolds /\ Intake!LocalIntakeHolds
  BY DEF IntakeInv, ResultsInv
<1>2. CorpusInv => Corpus!RecordsAreTrue /\ Corpus!ListedIsStored
  BY DEF CorpusInv
<1>3. IngestionInv => /\ Ingestion!CandidateIsWhole /\ Ingestion!ResumeIsClean
                      /\ Ingestion!TombstoneLeavesNothing /\ Ingestion!DeletionIsFinal
  BY CandidatesAreWhole, ResumesAreClean, TombstonesAreEmpty, DeletionsAreFinal
<1>4. IngestionInv /\ IntakeInv /\ CorpusInv => ArtifactsMatchJob
  BY <1>1, <1>2, <1>3 DEF ArtifactsMatchJob
<1> QED BY <1>4, WorkflowsRun, IngestionInvariance, IntakeInvariance, CorpusInvariance, PTL

=============================================================================
