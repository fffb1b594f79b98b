--------------------------- MODULE LocalKnowledge ---------------------------
(***************************************************************************)
(* The three scripts that keep a local knowledge corpus on disk: a batch   *)
(* is imported into quarantine, a batch is deleted leaving a tombstone,    *)
(* and candidates that no release may use are moved to a trash directory.  *)
(* Import and deletion lock the batch, retirement has a lock of its own;   *)
(* content is stored once for all batches.  A process may end at any step: *)
(* a crash, or an error the step before it left behind.                    *)
(***************************************************************************)
EXTENDS Naturals

CONSTANTS
  Process,     \* operators; each runs one script at a time under its actor reference
  Batch,
  File,        \* the paths of the source corpus
  Digest,
  Tree,        \* contents of a candidate directory
  MaxChanges,  \* bound on what the outside changes: source files, candidates
  Nil

VARIABLES
  corpus,      \* per file of the source root: its content, Nil where there is none
  changes,     \* how often the outside changed something
  object,      \* contents in quarantine, with what is derived from them
  receipt,     \* per batch: batch-receipt.json, or Nil
  documents,   \* per batch: documents.jsonl, or Nil
  tombstone,   \* per batch: the record of its deletion, or Nil
  candidate,   \* per batch: its candidate directory, or Nil
  retirement,  \* per batch: the state of the record of the candidate's retirement, or Nil
  trash,       \* per batch: the retired directory, or Nil
  job,         \* per process: what it is about
  overlapped   \* history: batches imported while a deletion was removing contents

vars == <<corpus, changes, object, receipt, documents, tombstone, candidate,
          retirement, trash, job, overlapped>>
outside == <<corpus, changes>>
intakes == <<receipt, documents>>
trees == <<candidate, retirement, trash>>

Listing == [actor : Process, listed : UNION {[F -> Digest] : F \in SUBSET File}]
Idle == [at |-> "idle", batch |-> Nil, seen |-> <<>>, todo |-> {}]
Content(f) == {f[x] : x \in DOMAIN f}

TypeOK ==
  /\ corpus \in [File -> Digest \cup {Nil}] /\ changes \in 0..MaxChanges /\ object \subseteq Digest
  /\ receipt \in [Batch -> Listing \cup {Nil}] /\ documents \in [Batch -> Listing \cup {Nil}]
  /\ \A b \in Batch :
       /\ tombstone[b] # Nil => /\ tombstone[b].state \in {"pending", "complete"}
                                /\ tombstone[b].digests \subseteq Digest
       /\ retirement[b] \in {Nil, "pending", "complete"}
  /\ candidate \in [Batch -> Tree \cup {Nil}] /\ trash \in [Batch -> Tree \cup {Nil}]
  /\ overlapped \subseteq Batch

Init ==
  /\ corpus \in [File -> Digest \cup {Nil}] /\ changes = 0 /\ object = {}
  /\ receipt = [b \in Batch |-> Nil] /\ documents = receipt /\ tombstone = receipt
  /\ candidate = receipt /\ retirement = receipt /\ trash = receipt
  /\ job = [p \in Process |-> Idle] /\ overlapped = {}

At(p, at) == job[p].at = at
Set(p, record) == job' = [job EXCEPT ![p] = record]
Goto(p, at) == job' = [job EXCEPT ![p].at = at]
End(p) == Set(p, Idle)

Importing(p) == job[p].at \in {"copy", "receipt", "documents"}
Deleting(p) == job[p].at \in {"objects", "intake"}
\* flock on the batch's lock file, held to the end of an import or a deletion.
BatchLocked(b) ==
  \E p \in Process : job[p].batch = b /\ (Importing(p) \/ Deleting(p) \/ At(p, "share"))
RetirementLocked == \E p \in Process : job[p].at \in {"next", "move", "settle"}

-----------------------------------------------------------------------------
(* Import.                                                                  *)

\* The files to import are listed once the batch is locked.
SourceFiles == {f \in File : corpus[f] # Nil}
Import(p, b) ==
  /\ At(p, "idle") /\ ~BatchLocked(b) /\ tombstone[b] = Nil
  /\ SourceFiles # {}
  /\ Set(p, [Idle EXCEPT !.at = "copy", !.batch = b, !.todo = SourceFiles])
  /\ overlapped' = IF \E q \in Process : Deleting(q) THEN overlapped \cup {b} ELSE overlapped
  /\ UNCHANGED <<outside, object, intakes, tombstone, trees>>

\* One file is stored under its digest; a source that changes meanwhile ends the import.
CopyFile(p) ==
  /\ At(p, "copy")
  /\ \E f \in job[p].todo :
       IF corpus[f] = Nil THEN End(p) /\ UNCHANGED object
       ELSE /\ object' = object \cup {corpus[f]}
            /\ Set(p, [job[p] EXCEPT
                 !.seen = [x \in DOMAIN @ \cup {f} |-> IF x = f THEN corpus[f] ELSE @[x]],
                 !.todo = @ \ {f}, !.at = IF job[p].todo = {f} THEN "receipt" ELSE @])
  /\ UNCHANGED <<outside, intakes, tombstone, trees, overlapped>>

\* Both files are written once: a second import of the batch lists the same or ends.
Listed(p) == [actor |-> p, listed |-> job[p].seen]
NoConflict(file, p) == file[job[p].batch] \in {Nil, Listed(p)}
WriteReceipt(p) ==
  /\ At(p, "receipt")
  /\ IF NoConflict(receipt, p)
     THEN receipt' = [receipt EXCEPT ![job[p].batch] = Listed(p)] /\ Goto(p, "documents")
     ELSE End(p) /\ UNCHANGED receipt
  /\ UNCHANGED <<outside, object, documents, tombstone, trees, overlapped>>
WriteDocuments(p) ==
  /\ At(p, "documents")
  /\ documents' = IF NoConflict(documents, p)
                  THEN [documents EXCEPT ![job[p].batch] = Listed(p)] ELSE documents
  /\ End(p) /\ UNCHANGED <<outside, object, receipt, tombstone, trees, overlapped>>

-----------------------------------------------------------------------------
(* Deletion.                                                                *)

\* A deletion begins with the listed documents, or goes on where the same actor's
\* was interrupted.
Tombstone(p, b) ==
  /\ At(p, "idle") /\ ~BatchLocked(b)
  /\ \/ /\ tombstone[b] = Nil /\ documents[b] # Nil
        /\ tombstone' = [tombstone EXCEPT ![b] =
             [state |-> "pending", actor |-> p, digests |-> Content(documents[b].listed)]]
     \/ /\ tombstone[b] # Nil
        /\ tombstone[b].state = "pending" /\ tombstone[b].actor = p
        /\ UNCHANGED tombstone
  /\ Set(p, [Idle EXCEPT !.at = "share", !.batch = b])
  /\ UNCHANGED <<outside, object, intakes, trees, overlapped>>

\* _shared_digests: what batches that are not being deleted list is kept; the
\* candidate goes first.
Shared(b) ==
  UNION {Content(documents[c].listed) :
           c \in {c \in Batch \ {b} : documents[c] # Nil /\ tombstone[c] = Nil}}
Share(p) ==
  /\ At(p, "share")
  /\ Set(p, [job[p] EXCEPT !.at = "objects",
                           !.todo = tombstone[job[p].batch].digests \ Shared(job[p].batch)])
  /\ candidate' = [candidate EXCEPT ![job[p].batch] = Nil]
  /\ overlapped' = overlapped \cup {job[q].batch : q \in {q \in Process : Importing(q)}}
  /\ UNCHANGED <<outside, object, intakes, tombstone, retirement, trash>>

DropObject(p) ==
  /\ At(p, "objects")
  /\ IF job[p].todo = {} THEN Goto(p, "intake") /\ UNCHANGED object
     ELSE \E d \in job[p].todo :
            object' = object \ {d} /\ job' = [job EXCEPT ![p].todo = @ \ {d}]
  /\ UNCHANGED <<outside, intakes, tombstone, trees, overlapped>>
\* rmtree takes the files of the intake one by one, the record is completed last.
DropIntake(p) ==
  /\ At(p, "intake")
  /\ LET b == job[p].batch IN
     \/ receipt[b] # Nil /\ receipt' = [receipt EXCEPT ![b] = Nil]
        /\ UNCHANGED <<documents, tombstone, job>>
     \/ documents[b] # Nil /\ documents' = [documents EXCEPT ![b] = Nil]
        /\ UNCHANGED <<receipt, tombstone, job>>
     \/ /\ receipt[b] = Nil /\ documents[b] = Nil
        /\ tombstone' = [tombstone EXCEPT ![b].state = "complete"]
        /\ End(p) /\ UNCHANGED intakes
  /\ UNCHANGED <<outside, object, trees, overlapped>>

-----------------------------------------------------------------------------
(* Retirement of candidates.                                                *)

\* The inventory is taken before the lock.
AsFound(p, b) == candidate[b] = job[p].seen[b]
Survey(p) ==
  /\ At(p, "idle")
  /\ LET found == {b \in Batch : candidate[b] # Nil} IN
     /\ found # {}
     /\ Set(p, [Idle EXCEPT !.at = "wait", !.todo = found, !.seen = candidate])
  /\ UNCHANGED <<outside, object, intakes, tombstone, trees, overlapped>>
LockRetirement(p) ==
  /\ At(p, "wait") /\ ~RetirementLocked /\ Goto(p, "next")
  /\ UNCHANGED <<outside, object, intakes, tombstone, trees, overlapped>>

\* A candidate that is no longer as it was found, or that was retired before, ends
\* the run, whatever else there was to retire.
Retire(p) ==
  /\ At(p, "next")
  /\ IF job[p].todo = {} THEN End(p) /\ UNCHANGED retirement
     ELSE \E b \in job[p].todo :
            IF AsFound(p, b) /\ trash[b] = Nil /\ retirement[b] = Nil
            THEN /\ retirement' = [retirement EXCEPT ![b] = "pending"]
                 /\ Set(p, [job[p] EXCEPT !.at = "move", !.batch = b, !.todo = @ \ {b}])
            ELSE End(p) /\ UNCHANGED retirement
  /\ UNCHANGED <<outside, object, intakes, tombstone, candidate, trash, overlapped>>
\* os.replace moves what is there now.
Move(p) ==
  /\ At(p, "move")
  /\ LET b == job[p].batch IN
     IF candidate[b] = Nil THEN End(p) /\ UNCHANGED <<candidate, trash>>
     ELSE /\ trash' = [trash EXCEPT ![b] = candidate[b]]
          /\ candidate' = [candidate EXCEPT ![b] = Nil] /\ Goto(p, "settle")
  /\ UNCHANGED <<outside, object, intakes, tombstone, retirement, overlapped>>
Settle(p) ==
  /\ At(p, "settle")
  /\ retirement' = [retirement EXCEPT ![job[p].batch] = "complete"]
  /\ Set(p, [job[p] EXCEPT !.at = "next", !.batch = Nil])
  /\ UNCHANGED <<outside, object, intakes, tombstone, candidate, trash, overlapped>>

-----------------------------------------------------------------------------
(* The outside, and the end of a process.                                   *)

Change == changes < MaxChanges /\ changes' = changes + 1
EditCorpus ==
  /\ Change /\ \E f \in File, d \in Digest \cup {Nil} : corpus' = [corpus EXCEPT ![f] = d]
  /\ UNCHANGED <<object, intakes, tombstone, trees, job, overlapped>>
\* The pipeline that builds candidates works on imported batches.
Build(b) ==
  /\ Change /\ documents[b] # Nil /\ tombstone[b] = Nil
  /\ \E t \in Tree : candidate' = [candidate EXCEPT ![b] = t]
  /\ UNCHANGED <<corpus, object, intakes, tombstone, retirement, trash, job, overlapped>>

Crash(p) ==
  /\ ~At(p, "idle") /\ End(p)
  /\ UNCHANGED <<outside, object, intakes, tombstone, trees, overlapped>>

Step(p) ==
  \/ CopyFile(p) \/ WriteReceipt(p) \/ WriteDocuments(p)
  \/ Share(p) \/ DropObject(p) \/ DropIntake(p)
  \/ Survey(p) \/ LockRetirement(p) \/ Retire(p) \/ Move(p) \/ Settle(p)
  \/ Crash(p)
Next ==
  \/ \E p \in Process : Step(p) \/ \E b \in Batch : Import(p, b) \/ Tombstone(p, b)
  \/ EditCorpus \/ \E b \in Batch : Build(b)

Spec == Init /\ [][Next]_vars

-----------------------------------------------------------------------------
(* Properties.                                                             *)

\* A batch whose record of deletion is complete has neither an intake nor a
\* candidate left, and a retired candidate is in the trash: whatever crashed on
\* the way, a record never says more than what happened to the directories.
RecordsAreTrue ==
  \A b \in Batch :
    /\ tombstone[b] # Nil /\ tombstone[b].state = "complete" =>
         receipt[b] = Nil /\ documents[b] = Nil /\ candidate[b] = Nil
    /\ retirement[b] = "complete" => trash[b] # Nil
    /\ retirement[b] = "pending" =>
         candidate[b] # Nil \/ trash[b] # Nil \/ tombstone[b] # Nil

\* What a batch lists is in quarantine as long as nobody deletes the batch, however
\* many batches that share its contents are deleted: unless it was imported while
\* one of those deletions was removing contents.
ListedIsStored ==
  \A b \in Batch \ overlapped :
    documents[b] # Nil /\ tombstone[b] = Nil => Content(documents[b].listed) \subseteq object

\* From the first record of its deletion a batch only loses files, and the record
\* of a finished deletion is final.
BatchesStayGone ==
  \A b \in Batch : tombstone[b] # Nil =>
    /\ receipt'[b] \in {Nil, receipt[b]} /\ documents'[b] \in {Nil, documents[b]}
    /\ candidate'[b] \in {Nil, candidate[b]}
    /\ tombstone'[b] \in {tombstone[b], [tombstone[b] EXCEPT !.state = "complete"]}

=============================================================================
