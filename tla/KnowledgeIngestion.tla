-------------------------- MODULE KnowledgeIngestion --------------------------
(***************************************************************************)
(* One ingestion job: workers claim it under a lease and a fencing token,  *)
(* process one unit of one stage, write the unit's artifact to a store of  *)
(* files and commit it with an optimistic version; operators request its   *)
(* deletion or replay it from the dead letters.                            *)
(*                                                                         *)
(* There is no clock: the lease in the row and the copy of it a worker got *)
(* with its claim each lapse at some moment, the copy first, as heartbeats *)
(* move only the row's.  Digests and the content of artifacts are left     *)
(* out; what a scanner, a parser or a store answers is left to chance.     *)
(***************************************************************************)
EXTENDS Naturals, Sequences, SequencesExt

CONSTANTS
  Worker,
  StageOrder,     \* the pipeline, from "quarantine" to "verify"
  Units,          \* units the parser finds in the source
  MaxAttempts,    \* max_attempts_per_stage
  MaxFence,       \* bound on the claims of the job
  MaxGeneration,  \* bound on deletion requests
  MaxReplays,     \* bound on replays from the dead letters
  Nil

VARIABLES
  job,       \* the row
  rows,      \* committed artifact rows
  files,     \* artifacts in the stores
  barred,    \* deletion generation below which the stores refuse writes
  approved,  \* the source register still approves the pinned snapshot
  worker     \* per worker: its claim, or Nil

vars == <<job, rows, files, barred, approved, worker>>

Stages == ToSet(StageOrder) \cup {"delete"}
Scans == {"pre_scan", "content_scan"}
UnitsOf(stage) == IF stage \in {"quarantine", "pre_scan", "verify"} THEN 1 ELSE Units
Following(stage) ==
  StageOrder[1 + CHOOSE i \in 1..(Len(StageOrder) - 1) : StageOrder[i] = stage]

Statuses == {"queued", "running", "retry_wait", "candidate_ready", "failed_safely",
             "dead_lettered", "deletion_pending", "deleting", "tombstoned"}
Deletion == {"deletion_pending", "deleting", "tombstoned"}
Job == [status : Statuses, stage : Stages, cursor : 0..Units, attempt : 0..MaxFence,
        lapsed : BOOLEAN, fence : 0..MaxFence, generation : 0..MaxGeneration,
        version : Nat, replays : 0..MaxReplays]
Artifact == [stage : Stages, unit : 1..Units, generation : 0..MaxGeneration, fence : 1..MaxFence]
Step == {"approve", "work", "finish", "transient", "permanent", "commit", "candidate"}

TypeOK ==
  /\ job \in Job
  /\ rows \subseteq Artifact /\ files \subseteq Artifact
  /\ barred \in 0..MaxGeneration /\ approved \in BOOLEAN
  /\ \A w \in Worker : worker[w] # Nil =>
       worker[w].job \in Job /\ worker[w].next \in Job /\ worker[w].step \in Step

\* The state after submit.
Init ==
  /\ job = [status |-> "queued", stage |-> "quarantine", cursor |-> 0, attempt |-> 0,
            lapsed |-> FALSE, fence |-> 0, generation |-> 0, version |-> 1, replays |-> 0]
  /\ rows = {} /\ files = {} /\ barred = 0 /\ approved = TRUE
  /\ worker = [w \in Worker |-> Nil]

At(w, step) == worker[w] # Nil /\ worker[w].step = step
Goto(w, step) == worker' = [worker EXCEPT ![w].step = step]
Leave(w) == worker' = [worker EXCEPT ![w] = Nil]

(***************************************************************************)
(* claim_next                                                              *)
(***************************************************************************)
Claimable ==
  \/ job.status \in {"queued", "retry_wait", "deletion_pending"}
  \/ job.status \in {"running", "deleting"} /\ job.lapsed

Claim(w) ==
  /\ worker[w] = Nil /\ Claimable /\ job.fence < MaxFence
  /\ LET deleting == job.status \in Deletion
         claimed == [job EXCEPT !.status = IF deleting THEN "deleting" ELSE "running",
                                !.attempt = IF deleting THEN @ ELSE @ + 1,
                                !.lapsed = FALSE, !.fence = @ + 1, !.version = @ + 1]
     IN  /\ job' = claimed
         /\ worker' = [worker EXCEPT ![w] =
              [job |-> claimed, next |-> claimed, lapsed |-> FALSE,
               step |-> IF deleting THEN "work" ELSE "approve"]]
  /\ UNCHANGED <<rows, files, barred, approved>>

\* The heartbeat extends the lease of the row, not the worker's copy of it.
Current(w) == /\ job.version = worker[w].job.version
              /\ job.fence = worker[w].job.fence
              /\ job.generation = worker[w].job.generation
Heartbeat(w) ==
  /\ worker[w] # Nil /\ worker[w].step \in {"approve", "work", "finish"}
  /\ Current(w) /\ job.lapsed
  /\ job' = [job EXCEPT !.lapsed = FALSE]
  /\ UNCHANGED <<rows, files, barred, approved, worker>>

\* KnowledgeSourceApprovalGate
Approve(w) ==
  /\ At(w, "approve")
  /\ Goto(w, IF approved THEN "work" ELSE "permanent")
  /\ UNCHANGED <<job, rows, files, barred, approved>>

(***************************************************************************)
(* One unit of a stage: _quarantine_source .. _verify.                     *)
(***************************************************************************)
Claimed(w) == worker[w].job
UnitArtifact(w) ==
  [stage |-> Claimed(w).stage, unit |-> Claimed(w).cursor + 1,
   generation |-> Claimed(w).generation, fence |-> Claimed(w).fence]

\* A scanner clears the unit and derives nothing.
Scan(w) == Claimed(w).stage \in Scans /\ Goto(w, "finish") /\ UNCHANGED files

\* The stores refuse a write of a generation that a deletion has barred.
Derive(w) ==
  /\ Claimed(w).stage \notin Scans
  /\ IF Claimed(w).generation < barred THEN Goto(w, "permanent") /\ UNCHANGED files
     ELSE Goto(w, "finish") /\ files' = files \cup {UnitArtifact(w)}

\* A store or a scanner is out of reach, or finds fault with the unit.
Fault(w) == (Goto(w, "transient") \/ Goto(w, "permanent")) /\ UNCHANGED files

Work(w) ==
  /\ At(w, "work") /\ Claimed(w).stage # "delete"
  /\ Scan(w) \/ Derive(w) \/ Fault(w)
  /\ UNCHANGED <<job, rows, barred, approved>>

\* _delete: the quarantine store first, then the store of candidates.
Quarantined == {f \in files : f.stage = "quarantine"}
DeleteFiles(w) ==
  /\ \/ At(w, "work") /\ Claimed(w).stage = "delete"
     \/ At(w, "candidate")
  /\ IF Claimed(w).generation < barred
     THEN Goto(w, "permanent") /\ UNCHANGED <<files, barred>>
     ELSE /\ barred' = Claimed(w).generation
          /\ IF At(w, "work") THEN files' = files \ Quarantined /\ Goto(w, "candidate")
             ELSE files' = Quarantined /\ Goto(w, "finish")
  /\ UNCHANGED <<job, rows, approved>>

(***************************************************************************)
(* The job's next state is computed from the worker's copy, which must be  *)
(* inside the lease it was claimed with.                                   *)
(***************************************************************************)
Advance(j) == [j EXCEPT !.version = @ + 1, !.lapsed = FALSE]

\* Fault: the cursor is compared without the unit just done.
FinishedOneMore(j) ==
  IF j.cursor < UnitsOf(j.stage)
  THEN [j EXCEPT !.status = "queued", !.cursor = @ + 1, !.attempt = 0]
  ELSE [j EXCEPT !.status = "candidate_ready", !.attempt = 0]

Finished(j) ==
  IF j.stage = "delete" THEN [j EXCEPT !.status = "tombstoned"]
  ELSE IF j.cursor + 1 < UnitsOf(j.stage)
  THEN [j EXCEPT !.status = "queued", !.cursor = @ + 1, !.attempt = 0]
  ELSE IF j.stage = "verify" THEN [j EXCEPT !.status = "candidate_ready", !.attempt = 0]
  ELSE [j EXCEPT !.status = "queued", !.stage = Following(@), !.cursor = 0, !.attempt = 0]

\* failed with a transient disposition
Deferred(j) ==
  [j EXCEPT !.status = IF j.attempt >= MaxAttempts THEN "dead_lettered" ELSE "retry_wait"]

ForDeletion(j) ==
  [j EXCEPT !.status = "deletion_pending", !.stage = "delete", !.cursor = 0,
            !.generation = @ + 1]

\* failed with a permanent disposition; what was derived is deleted too
Rejected(j) ==
  IF j.stage \in {"quarantine", "pre_scan"} THEN [j EXCEPT !.status = "failed_safely"]
  ELSE ForDeletion(j)

Result(w) ==
  Advance(CASE worker[w].step = "finish"    -> Finished(Claimed(w))
            [] worker[w].step = "transient" -> Deferred(Claimed(w))
            [] worker[w].step = "permanent" -> Rejected(Claimed(w)))

\* A failed deletion is not recorded: its claim lapses and is taken again.
Recordable(w) == worker[w].step = "finish" \/ Claimed(w).status = "running"

Finish(w) ==
  /\ worker[w] # Nil /\ worker[w].step \in {"finish", "transient", "permanent"}
  /\ ~worker[w].lapsed /\ Recordable(w)
  /\ worker' = [worker EXCEPT ![w].next = Result(w), ![w].step = "commit"]
  /\ UNCHANGED <<job, rows, files, barred, approved>>

\* The lease of the claim is over, or the failure is a deletion's.
Abandon(w) ==
  /\ worker[w] # Nil /\ worker[w].step \in {"finish", "transient", "permanent"}
  /\ worker[w].lapsed \/ ~Recordable(w)
  /\ Leave(w)
  /\ UNCHANGED <<job, rows, files, barred, approved>>

(***************************************************************************)
(* commit_stage: the row at the version, fence and generation of the       *)
(* claim, and the unit's artifact, whose identity must not have been used. *)
(***************************************************************************)
\* Fault: the artifact is recorded whatever the work came to.
ProducedAlways(w) == IF Claimed(w).stage \notin Scans THEN {UnitArtifact(w)} ELSE {}
Produced(w) ==
  IF worker[w].next.status \in {"queued", "candidate_ready"} /\ Claimed(w).stage \notin Scans
  THEN {UnitArtifact(w)} ELSE {}
SameIdentity(a, b) == a.stage = b.stage /\ a.unit = b.unit /\ a.generation = b.generation
Clashes(w) == \E a \in Produced(w), b \in rows : SameIdentity(a, b) /\ a # b

Commit(w) ==
  /\ At(w, "commit")
  /\ IF Current(w) /\ ~Clashes(w)
     THEN /\ job' = worker[w].next
          /\ rows' = IF worker[w].next.status = "tombstoned" THEN {} ELSE rows \cup Produced(w)
     ELSE UNCHANGED <<job, rows>>
  /\ Leave(w)
  /\ UNCHANGED <<files, barred, approved>>

Crash(w) ==
  /\ worker[w] # Nil /\ Leave(w)
  /\ UNCHANGED <<job, rows, files, barred, approved>>

(***************************************************************************)
(* Operators: each command replaces the row at the version it was read at, *)
(* so that it is one step, and a repeated command finds its result.        *)
(***************************************************************************)
RequestDeletion ==
  /\ job.generation < MaxGeneration
  /\ job' = Advance(ForDeletion(job))
  /\ UNCHANGED <<rows, files, barred, approved, worker>>

ReplayDeadLetter ==
  /\ job.status = "dead_lettered" /\ approved /\ job.replays < MaxReplays
  /\ job' = Advance([job EXCEPT !.status = "queued", !.attempt = 0, !.replays = @ + 1])
  /\ UNCHANGED <<rows, files, barred, approved, worker>>

RevokeSource ==
  /\ approved /\ approved' = FALSE
  /\ UNCHANGED <<job, rows, files, barred, worker>>

LapseCopy(w) ==
  /\ worker[w] # Nil /\ ~worker[w].lapsed
  /\ worker' = [worker EXCEPT ![w].lapsed = TRUE]
  /\ UNCHANGED <<job, rows, files, barred, approved>>

LapseRow ==
  /\ job.status \in {"running", "deleting"} /\ ~job.lapsed
  /\ \A w \in Worker : worker[w] # Nil /\ Current(w) => worker[w].lapsed
  /\ job' = [job EXCEPT !.lapsed = TRUE]
  /\ UNCHANGED <<rows, files, barred, approved, worker>>

Next ==
  \/ \E w \in Worker :
       \/ Claim(w) \/ Heartbeat(w) \/ Approve(w) \/ Work(w) \/ DeleteFiles(w)
       \/ Finish(w) \/ Abandon(w) \/ Commit(w) \/ Crash(w) \/ LapseCopy(w)
  \/ RequestDeletion \/ ReplayDeadLetter \/ RevokeSource \/ LapseRow

Spec == Init /\ [][Next]_vars

(***************************************************************************)
(* Properties.                                                             *)
(***************************************************************************)

\* A candidate is whole: every unit of every stage that derives something is
\* committed once, under the job's generation, and its file is there, though
\* units were redone by workers whose predecessors were lost on the way.
CandidateIsWhole ==
  job.status = "candidate_ready" =>
    \A stage \in ToSet(StageOrder) \ Scans : \A unit \in 1..UnitsOf(stage) :
      \E a \in files : /\ a.stage = stage /\ a.unit = unit /\ a.generation = job.generation
                       /\ {b \in rows : SameIdentity(a, b)} = {a}

\* Nothing is left of a tombstoned job, neither rows nor files, though a worker
\* that lost its lease may still be writing.
TombstoneLeavesNothing == job.status = "tombstoned" => rows = {} /\ files = {}

\* Once deletion was requested, by an operator or by a failure, the job is never
\* a candidate, retried or replayed again.
DeletionIsFinal == job.generation > 0 => job.status \in Deletion

\* A worker that still owns the row never finds its artifact's identity taken by
\* what an earlier worker committed: resuming derives nothing twice.
ResumeIsClean == \A w \in Worker : At(w, "commit") /\ Current(w) => ~Clashes(w)

\* tests/unit/knowledge/test_ingestion_runner.py:277-296: a stage that outlasts
\* the lease it was claimed with commits, because its heartbeats renewed it.  The
\* transition looks at the worker's copy of the lease, which no heartbeat moves.
RenewedLeaseCommits ==
  [][\A w \in Worker : At(w, "finish") /\ Current(w) /\ ~job.lapsed => ~Abandon(w)]_vars

=============================================================================
