-------------------------- MODULE MCReleaseWorkflows --------------------------
(***************************************************************************)
(* Small instances of the workflows that carry content to customers:       *)
(* the intake of datasets, the local corpus, knowledge ingestion, the      *)
(* ledger of cloud extractions, knowledge releases and product releases.   *)
(* They share no state: a behaviour takes one of them up and leaves the    *)
(* others where they began.                                                *)
(***************************************************************************)
EXTENDS Naturals, FiniteSets, TLC

CONSTANTS
  Component, \* the workflows this run takes up
  Actor,     \* workers, dispatchers, reconcilers and operators
  Item,      \* documents, and the releases of a market
  Officer,   \* the operators of the market; one of them submitted everything
  Candidate, \* knowledge releases
  Critical,
  Source,    \* what a knowledge release is made of
  Command,   \* idempotency keys of the knowledge plane
  Retrieval,
  MaxPointer, MaxSource, MaxMarket, \* bounds: versions of pointer, source, release
  MaxUploads, MaxEdits,             \* bounds: generations of an object, outside changes
  MaxClaims, MaxFailures,           \* bounds: claims of documents, failures of each
  Units, MaxAttempts,               \* units of a source, attempts of an ingestion stage
  MaxFence, MaxGeneration, MaxReplays, \* bounds: claims, deletions and replays of a job
  Nil

VARIABLES
  component,
  job, rows, files, barred, approved, worker,
  submission, operation, dispatcher, claim, observed, extracted, failure,
  reconciler,
  release, pointer, source, command, done, query,
  product, eligible, seen, transaction,
  way, body, object, file, disk, unpacked, intake, fetched, replayed, reported, stray,
  corpus, changes, stored, receipt, documents, tombstone, candidate, retirement, trash,
  script, overlapped

ingestionVars == <<job, rows, files, barred, approved, worker>>
ledgerVars == <<submission, operation, dispatcher, claim, observed, extracted,
                failure, reconciler>>
knowledgeVars == <<release, pointer, source, command, done, query>>
productVars == <<product, eligible, seen, transaction>>
intakeVars ==
  <<way, body, object, file, disk, unpacked, intake, fetched, replayed, reported, stray>>
corpusVars ==
  <<corpus, changes, stored, receipt, documents, tombstone, candidate, retirement, trash,
    script, overlapped>>

Stages == <<"quarantine", "pre_scan", "parse", "verify">>
Papers == Item \cup {"long"}
Pages == [d \in Papers |-> IF d = "long" THEN 2 ELSE 1]
Submitter == [r \in Item |-> CHOOSE o \in Officer : TRUE]

Ingestion == INSTANCE KnowledgeIngestion WITH
  Worker <- Actor, StageOrder <- Stages

Ledger == INSTANCE DocumentLedger WITH
  Document <- Papers, PagesOf <- Pages, MaxPages <- 2, Dispatcher <- Actor,
  Reconciler <- Actor, BatchLimit <- 2, MaxAttempts <- MaxFailures

Knowledge == INSTANCE KnowledgeRelease WITH
  Release <- Candidate, Operator <- Actor, Key <- Command, Query <- Retrieval,
  MaxVersion <- MaxPointer, MaxRevision <- MaxSource

Product == INSTANCE ProductRelease WITH
  release <- product, Release <- Item, Operator <- Officer,
  SubmitterOf <- Submitter, MaxRevision <- MaxMarket

ASSUME ReleasesAssumption ==
  /\ MaxPointer \in Nat /\ MaxSource \in Nat \ {0} /\ MaxMarket \in Nat
  /\ IsFiniteSet(Item) /\ Nil \notin Candidate \cup Item
  /\ MaxUploads \in Nat /\ MaxFailures \in Nat \ {0} /\ MaxClaims \in Nat
  /\ Units \in Nat \ {0} /\ MaxGeneration \in Nat \ {0}
  /\ MaxFence \in Nat /\ MaxReplays \in Nat
  /\ Nil \notin {"t1", "pending", "complete"}
  /\ Nil \notin [state : {"pending", "complete"}, actor : Actor, digests : SUBSET Item]

\* All contents have the same size and checksum; one archive is refused.
Archives == "good" :> {1, 2} @@ "bomb" :> {}
Intake == INSTANCE DatasetIntake WITH
  job <- intake, Process <- Actor, Content <- Item, Sum <- [c \in Item |-> 1],
  Flawed <- {}, Path <- {"f1"}, Entries <- Archives,
  MaxGeneration <- MaxUploads, MaxStray <- [fetch |-> 1, files |-> 2, archives |-> 0], MaxResults <- 1

\* The set of two serves for batches and for contents.
Corpus == INSTANCE LocalKnowledge WITH
  object <- stored, job <- script, Process <- Actor, Batch <- Item, File <- {"f1"},
  Digest <- Item, Tree <- {"t1"}, MaxChanges <- MaxEdits

Init ==
  /\ component \in Component
  /\ Ingestion!Init /\ Ledger!Init /\ Knowledge!Init /\ Product!Init /\ Intake!Init
  /\ Corpus!Init
  /\ component # "intake" => way = "archives"
  /\ component # "corpus" => corpus = [f \in {"f1"} |-> Nil]

Next ==
  /\ UNCHANGED component
  /\ \/ /\ component = "ingestion" /\ Ingestion!Next
        /\ UNCHANGED <<ledgerVars, knowledgeVars, productVars, intakeVars, corpusVars>>
     \/ /\ component = "ledger" /\ Ledger!Next
        /\ UNCHANGED <<ingestionVars, knowledgeVars, productVars, intakeVars, corpusVars>>
     \/ /\ component = "knowledge" /\ Knowledge!Next
        /\ UNCHANGED <<ingestionVars, ledgerVars, productVars, intakeVars, corpusVars>>
     \/ /\ component = "product" /\ Product!Next
        /\ UNCHANGED <<ingestionVars, ledgerVars, knowledgeVars, intakeVars, corpusVars>>
     \/ /\ component = "intake" /\ Intake!Next
        /\ UNCHANGED <<ingestionVars, ledgerVars, knowledgeVars, productVars, corpusVars>>
     \/ /\ component = "corpus" /\ Corpus!Next
        /\ UNCHANGED <<ingestionVars, ledgerVars, knowledgeVars, productVars, intakeVars>>

vars ==
  <<component, ingestionVars, ledgerVars, knowledgeVars, productVars, intakeVars, corpusVars>>

Spec == Init /\ [][Next]_vars

Interchangeable == Permutations(Actor) \cup Permutations(Item)

-----------------------------------------------------------------------------
(* Properties.                                                             *)

\* The rows of the workflow at work keep their types.
TypeOK ==
  /\ component = "ingestion" => Ingestion!TypeOK
  /\ component = "ledger" => Ledger!TypeOK
  /\ component = "knowledge" => Knowledge!TypeOK
  /\ component = "product" => Product!TypeOK
  /\ component = "intake" => Intake!TypeOK
  /\ component = "corpus" => Corpus!TypeOK

\* Both release planes implement ActiveRelease: for knowledge releases the
\* authoritative one is the pointer's, tombstoned ones are gone; for the
\* releases of a market it is the row in state active.
KnowledgePlane == INSTANCE ActiveRelease WITH
  Release <- Candidate, None <- Nil, active <- pointer.active,
  ready <- {r \in Candidate :
              release[r].status \in {"ready", "active", "superseded"}},
  gone <- {r \in Candidate : release[r].status = "tombstoned"}

ActiveProduct ==
  IF Product!ActiveIn(product) = {} THEN Nil
  ELSE CHOOSE r \in Item : product[r].state = "active"

ProductPlane == INSTANCE ActiveRelease WITH
  Release <- Item, None <- Nil, active <- ActiveProduct, gone <- {},
  ready <- {r \in Item : product[r].state # "draft"}

ReleasePlanes == KnowledgePlane!Spec /\ ProductPlane!Spec

\* The pointer and the releases' own status agree, every version of the pointer
\* has the one committed command that wrote it, and no command took effect twice;
\* the revision of a product release counts exactly the moves it made.
PointerExplained ==
  /\ component = "knowledge" =>
       Knowledge!PointerNamesActive /\ Knowledge!TransitionsExplainPointer
  /\ component = "product" => Product!RevisionCountsMoves

\* Retrieval serves evidence under one value of the pointer, and while a critical
\* candidate holds the barrier only its own activation makes the scope readable.
ReadsUnderOnePointer ==
  Knowledge!EvidenceUnderOnePointer /\ Knowledge!CriticalBarrierKept

\* A candidate holds every artifact of its pipeline and none of an attempt that
\* was given up, a resumed unit finds none of its own left over, and a tombstone
\* leaves nothing behind; what the intake reports of a content is what it stored;
\* what a local batch lists is in quarantine, and the records of its deletion and
\* of its candidate's retirement are true.
ArtifactsMatchJob ==
  /\ component = "ingestion" =>
       /\ Ingestion!CandidateIsWhole /\ Ingestion!ResumeIsClean
       /\ Ingestion!TombstoneLeavesNothing /\ Ingestion!DeletionIsFinal
  /\ component = "intake" => Intake!QuarantineHolds /\ Intake!LocalIntakeHolds
  /\ component = "corpus" => Corpus!RecordsAreTrue /\ Corpus!ListedIsStored

\* The provider runs a document at most once within the day's pages, and what
\* the ledger says of an operation is what the provider did.
LedgerTellsTheTruth ==
  component = "ledger" => Ledger!SubmittedOnce /\ Ledger!EvidenceIsSound

\* What is decided stays decided: a document that was extracted, failed or given
\* up, a market that has an active release, an object the intake stored, and the
\* deletion of a local batch.
DecisionsStand ==
  /\ Ledger!FinalStays /\ Product!MarketStaysServed
  /\ [][Intake!CreateOnly]_intakeVars /\ [][Corpus!BatchesStayGone]_corpusVars

\* tests/unit/knowledge/test_ingestion_runner.py:277-296 and
\* docs/knowledge-ingestion.md:65: a stage that renews its lease commits however
\* long it takes.  Only the row's lease is renewed, the commit looks at the copy.
RenewedLeaseCommits == Ingestion!RenewedLeaseCommits

=============================================================================
