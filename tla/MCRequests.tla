------------------------------ MODULE MCRequests ------------------------------
(***************************************************************************)
(* Small instances of the parts whose requests must take effect once and   *)
(* under the authority they were made with: workforce authorization, the   *)
(* keys of idempotent commands, the reservations of controlled apply,      *)
(* evaluation runs and the definitions they rest on, the ledgers of the    *)
(* synthetic smoke and the tuning rehearsal, and the dataset registry with *)
(* the manifests it releases.  They share no state: a behaviour takes one  *)
(* of them up and leaves the others where they began.                      *)
(***************************************************************************)
EXTENDS Naturals, FiniteSets, TLC

CONSTANTS
  Component,   \* the parts this run takes up
  Process,     \* concurrent requests, callers and runners
  Subject, Role, BootRole,
  Assignment,  \* and evaluation cases
  Request, Nil

VARIABLES
  component,
  now, role, assignment, request, revision, serving,
  record, lapsed, step, outcome, executed, reclaims,
  reservation, verified, clock,
  run, task, results, runner, revoked, spent,
  released, withdrawn, today, evaluation, service,
  smokeLedger, smokeAnchor, witness, script, sent,
  tuningLedger, tuningAnchor, caller, granted,
  schema, source, fetch, release, pointer, held,
  manifest, evidenceAge, verifiedShas, counted

grantVars == <<now, role, assignment, request, revision, serving>>
keyVars == <<record, lapsed, step, outcome, executed, reclaims>>
applyVars == <<reservation, verified, clock>>
evaluationVars == <<run, task, results, runner, revoked, spent>>
definitionVars == <<released, withdrawn, today, evaluation, service>>
smokeVars == <<smokeLedger, smokeAnchor, witness, script, sent>>
tuningVars == <<tuningLedger, tuningAnchor, caller, granted>>
registryVars == <<schema, source, fetch, release, pointer, held>>
manifestVars == <<manifest, evidenceAge, verifiedShas, counted>>
requestVars == <<grantVars, keyVars, applyVars, evaluationVars, definitionVars>>
offlineVars == <<smokeVars, tuningVars, registryVars, manifestVars>>

\* The bootstrap role and one other, and the two capability sets that tell a
\* standard role from an administrator's.
Grants == INSTANCE WorkforceAuthorization WITH
  CapabilitySet <- {{"standard"}, {"assignment.create", "approval.approve",
                                   "manage", "standard"}},
  Scope <- {TRUE}, Period <- {[from |-> 0, until |-> 1]},
  RequestTtl <- 1, BootstrapTtl <- 2, Horizon <- 1, MaxVersion <- 2,
  None <- Nil

\* The first of four requests differs in content from the others.
Hashes == [r \in 1..4 |-> IF r = 1 THEN "one" ELSE "other"]
Reservations == INSTANCE CommandReservations WITH
  Request <- 1..4, HashOf <- Hashes, MaxReclaims <- 1,
  Key <- {"k1", "k2"}, Nonce <- {"n1", "n2"}, Content <- {"x"},
  Claim <- {"l1", "l2"}, Receipt <- {"p1", "p2"}, Caller <- Process,
  Expiry <- 1, MaxClock <- 1

Evaluation == INSTANCE EvaluationRun WITH
  Case <- Assignment, Runner <- Process, Budget <- 2, MaxAttempts <- 2

\* One benchmark with a metric, a grader, a policy and a suite; a calibration that
\* expires and one to replace it.  The last calibration does not add up, the last
\* authority is released by its own evaluator, the last suite covers other cases.
Matrix == [tp |-> 1, tn |-> 1, fp |-> 1, fn |-> 0, sample |-> 3,
           balanced |-> <<3, 4>>, f1 |-> <<2, 3>>]
Calibration(rev, until, overall) ==
  [kind |-> "calibration", key |-> "g", rev |-> rev, implementation |-> "i",
   from |-> 0, until |-> until, overall |-> overall,
   slices |-> [s \in {"all", "high-risk"} |-> overall]]
Terms == [class |-> "public-diagnostic", cases |-> {"c"}, heldOut |-> FALSE,
          author |-> "author", evaluator |-> "evaluator", owner |-> "owner"]
Authority(rev, terms) ==
  [kind |-> "suite-authority", key |-> "s", rev |-> rev, terms |-> terms]
Suite(rev, terms) ==
  [kind |-> "suite", key |-> "s", rev |-> rev, authority |-> "a1", terms |-> terms]
AlreadyReleased ==
  {[kind |-> "metric", key |-> "m", rev |-> "m", slices |-> <<"all">>],
   [kind |-> "grader", key |-> "g", rev |-> "g", sort |-> "citation", implementation |-> "i",
    calibrated |-> TRUE],
   [kind |-> "baseline-policy", key |-> "p", rev |-> "p", metrics |-> <<"m">>,
    gates |-> [g \in {"acl-leakage-v1", "citation-validity-v1", "pii-leakage-v1",
                      "tool-authorization-v1"} |-> 0]],
   [kind |-> "benchmark", key |-> "b", rev |-> "1", digest |-> "d", budget |-> 1,
    class |-> "public-diagnostic", metrics |-> <<"m">>, graders |-> <<"g">>, policy |-> "p",
    suite |-> [key |-> "s", rev |-> "s1"]],
   Authority("a1", Terms), Calibration("c1", 1, Matrix)}
Submittable ==
  AlreadyReleased \cup
    {Suite("s1", Terms), Suite("s2", [Terms EXCEPT !.cases = {"d"}]),
     Calibration("c2", 2, Matrix), Calibration("c3", 2, [Matrix EXCEPT !.sample = 4]),
     Authority("a2", [Terms EXCEPT !.evaluator = "owner"])}
Definitions == INSTANCE EvaluationAuthority WITH
  revoked <- withdrawn, now <- today, Service <- {"service"}, Subject <- {"owner"},
  Seeded <- AlreadyReleased, Document <- Submittable,
  MinSample <- 3, MinCases <- 2, Horizon <- 1, MaxRevoked <- 3

\* Two ledger directories, two seconds a script may begin in.
Spend == INSTANCE ProviderSpend WITH
  Runner <- Process, Dir <- {"d1", "d2"}, Manifest <- {"m1", "m2"},
  Cost <- [c \in {"generation", "embedding"} |-> IF c = "generation" THEN 2 ELSE 1],
  SmokeCap <- 3, Caller <- Process,
  Price <- [o \in {"baseline", "training", "post_tune_evaluation", "storage"} |-> 1],
  TuningCap <- 4

\* The symmetric sets of two serve for purposes, contents, cases and reviewers too.
Registry == INSTANCE DatasetRegistry WITH
  Actor <- Process, Source <- {"s1"}, Fetch <- {"f1"}, Release <- {"r1"},
  Digest <- Assignment, Use <- Subject, MaxVersion <- [source |-> 2, fetch |-> 3],
  Sha <- Assignment, Person <- Subject,
  SourceId <- {"s1"}, Purpose <- {"knowledge", "multimodal"}, MaxRecords <- 1

\* What the proofs ask of the constants.
GrantConstants ==
  /\ Nil \notin Role \cup Subject \cup {[from |-> 0, until |-> 1]}
  /\ BootRole \in Role /\ IsFiniteSet(Request) /\ Nil \notin Request
KeyConstants == Nil \notin (1..4) \cup Reservations!KeyRow
ApplyConstants == Nil \notin Reservations!ApplyRow \cup Reservations!VerifiedRequest
SmokeConstants == IsFiniteSet(Process) /\ Nil \notin Spend!Book \cup {"m1", "m2"}
TuningConstants == Nil \notin UNION {[S -> Spend!OperationState] : S \in SUBSET Spend!Operation}
EvaluationConstants == IsFiniteSet(Assignment) /\ Nil \notin [Assignment -> Evaluation!Task]
RegistryConstants ==
  Nil \notin Registry!SourceRow \cup Registry!FetchRow \cup Registry!ReleaseRow
             \cup Assignment \cup Registry!Copy

ASSUME RequestsAssumption ==
  /\ GrantConstants /\ KeyConstants /\ ApplyConstants /\ SmokeConstants /\ TuningConstants
  /\ EvaluationConstants /\ RegistryConstants

Init ==
  /\ component \in Component
  /\ Grants!Init /\ Reservations!KeyInit /\ Reservations!ApplyInit
  /\ Evaluation!Init /\ Definitions!Init /\ Spend!SmokeInit
  /\ Spend!TuningInit /\ Registry!RegistryInit /\ Registry!ManifestInit

Next ==
  /\ UNCHANGED component
  /\ \/ /\ component = "grants" /\ Grants!Next
        /\ UNCHANGED <<keyVars, applyVars, evaluationVars, definitionVars, offlineVars>>
     \/ /\ component = "keys" /\ Reservations!KeyNext
        /\ UNCHANGED <<grantVars, applyVars, evaluationVars, definitionVars, offlineVars>>
     \/ /\ component = "apply" /\ Reservations!ApplyNext
        /\ UNCHANGED <<grantVars, keyVars, evaluationVars, definitionVars, offlineVars>>
     \/ /\ component = "evaluation" /\ Evaluation!Next
        /\ UNCHANGED <<grantVars, keyVars, applyVars, definitionVars, offlineVars>>
     \/ /\ component = "definitions" /\ Definitions!Next
        /\ UNCHANGED <<grantVars, keyVars, applyVars, evaluationVars, offlineVars>>
     \/ /\ component = "smoke" /\ Spend!SmokeNext
        /\ UNCHANGED <<requestVars, tuningVars, registryVars, manifestVars>>
     \/ /\ component = "tuning" /\ Spend!TuningNext
        /\ UNCHANGED <<requestVars, smokeVars, registryVars, manifestVars>>
     \/ /\ component = "registry" /\ Registry!RegistryNext
        /\ UNCHANGED <<requestVars, smokeVars, tuningVars, manifestVars>>
     \/ /\ component = "manifest" /\ Registry!ManifestNext
        /\ UNCHANGED <<requestVars, smokeVars, tuningVars, registryVars>>

vars == <<component, requestVars, offlineVars>>

Spec == Init /\ [][Next]_vars

Interchangeable ==
  Permutations(Subject) \cup Permutations(Assignment) \cup Permutations(Process)

(* The revisions of subjects decide nothing and none of the properties     *)
(* checked with this view reads them: states that differ in them only are  *)
(* one state.                                                              *)
WithoutRevision ==
  <<component, now, role, assignment, request, serving, keyVars, applyVars, evaluationVars,
    definitionVars, offlineVars>>

-----------------------------------------------------------------------------
(* Properties.                                                             *)

\* The rows of the part at work keep their types.
TypeOK ==
  /\ component = "grants" => Grants!TypeOK
  /\ component = "keys" => Reservations!KeyTypeOK
  /\ component = "apply" => Reservations!ApplyTypeOK
  /\ component = "evaluation" => Evaluation!TypeOK
  /\ component = "definitions" => Definitions!TypeOK
  /\ component = "smoke" => Spend!SmokeTypeOK
  /\ component = "tuning" => Spend!TuningTypeOK
  /\ component = "registry" => Registry!RegistryTypeOK
  /\ component = "manifest" => Registry!ManifestTypeOK

\* What was asked for once happens once: a change request is applied once, a
\* command commits once per reservation of its key and its replies agree, a
\* nonce is spent by one reservation, a capability is sent to the provider by one
\* script a day, an operation of the rehearsal is granted once.
AppliedOnce ==
  /\ component = "grants" => Grants!AppliedOnce
  /\ component = "keys" =>
       Reservations!ExecutedOncePerReservation /\ Reservations!RepliesAgree
  /\ component = "apply" => Reservations!NonceSpentOnce
  /\ component = "smoke" => Spend!SentOnce
  /\ component = "tuning" => Spend!GrantedOnce

\* Usage recorded covers what was spent, and sealed evidence is exactly the last,
\* valid result of every case; what is released as a definition can be read, and a
\* run is registered on a coherent set of them; a request to the provider is in its
\* ledger, and the packet says of it what is known; a dataset release in force has
\* its provenance, and a manifest that counts as ready was reviewed after its import.
EvaluationAccounts ==
  /\ component = "evaluation" =>
       Evaluation!LedgerCoversSpend /\ Evaluation!SealedFromResults
  /\ component = "definitions" =>
       Definitions!ReleasedIsReadable /\ Definitions!PlanIsCoherent
  /\ component = "smoke" => Spend!SentIsReserved /\ Spend!PacketTellsTheTruth
  /\ component = "registry" => Registry!ProvenanceStands
  /\ component = "manifest" => Registry!ReadyWasReviewed

\* An approved change is the one its author saw, and privileged changes have two
\* administrators; a run is decided under authority in force, and sealed while every
\* definition its plan names is; a reservation keeps its request and its receipt; a
\* ledger torn by a crash is not written again; a row of the dataset registry moves
\* on from where it is, not from where it was read.
ApprovedAsSeen ==
  /\ Grants!ApprovedAsSeen /\ Grants!PrivilegedChangesApproved
  /\ Evaluation!DecidedUnderAuthority
  /\ [][Definitions!SealedUnderAuthority]_definitionVars
  /\ Reservations!SettledReservationStays
  /\ [][Spend!TornStaysTorn]_tuningVars
  /\ [][Registry!RowsMoveOn]_registryVars

\* docs/work/items/VFBIZ-0056.md:72-73: the final active global administrator is
\* not revoked.  Two revocations that read before either commits break it.
LastAdministratorKept == Grants!LastAdministratorKept

=============================================================================
