# VFBiz: TLA+ models and proofs

VFBiz is a Vietnamese automotive platform: customers chat with an assistant, and
staff govern what it may say and do.  This directory holds specifications of the
parts of it that coordinate concurrent, durable state, the TLC configurations that
model-check them, and proofs that TLAPS checks.

Section 1 surveys the whole system, section 2 says how the project is cut into modules
and what comes next, section 3 explains each module against the code, section 4 the
runs and their bounds, section 5 the fairness, section 6 the proofs, section 7 where
the code and its documents part ways, section 8 what is left out.  `PROJECT.json` maps
every definition to the source lines it stands for, and every hazard to a line.

Commands, from this directory:

    tlasany SessionProofs.tla
    tlc -workers 2 -config MCSessions.cfg MCSessions.tla
    tlapm SessionProofs.tla

Paths below are relative to `src/`; `API` is `backend/api/src/modules`, `AI` is
`backend/ai/app`.

## 1. Inventory

### 1.1 The planes and how they talk

- **API plane** (`backend/api`, NestJS on PostgreSQL and Redis).  Any number of
  identical processes.  Each serves HTTP requests and runs a poll timer, the turn
  dispatcher.  Processes share nothing but the database and Redis.
- **AI plane** (`backend/ai`, FastAPI and workers on its own PostgreSQL schema).  The
  API calls it over an internal, signed HTTP interface with a deadline: execute a turn,
  cancel a turn.  It resolves the assistant release that may answer, runs the
  assistant's graph between statements on a gate row, calls models through a mesh, and
  answers under a short lease on the release.  Beside the turn, workers and operators
  ingest knowledge, release it, evaluate models, keep datasets, and spend money at
  cloud providers.
- **Portals** (`apps/customer-portal`, `apps/workforce-portal`, Next.js).  They keep
  the identity provider's tokens in Redis vaults and call the API for a browser.
- **Agent runtime** (`agent-runtime`): a control plane for coding agents with a
  SQLite run store.  It is development tooling and independent of the other planes.

One chat message goes through most of this: the client posts it; the API appends a
turn to the session's inbox (one conditional commit); some process's poll claims the
turn under a new fence and a lease (a second commit), reads the turn's execution
context, calls the AI plane, and commits the answer, a clarification, a refusal or a
handoff under the claim it still has to hold (a third).  A client may cancel at any
moment: that commit leaves a row in an outbox, which a poll delivers to the AI plane,
which must then keep the result back.

### 1.2 Components

| Component | State it keeps | Operations | What makes it correct |
| --- | --- | --- | --- |
| Conversation aggregate, service and repository (`API/engagement`) | runtime row, turn rows, event rows | accept, claim, complete, cancel, hand off, close; load, compute, conditional commit | the version check makes it atomic; inbox order; budget arithmetic; no late result lands |
| Turn dispatcher | in memory: what a process does; in the row: claim, attempts | poll, claim, read context, call, complete, record failure, refuse | every message is settled; no turn runs again without a cause |
| Cancellation outbox | rows with lease and attempts | claim a batch, deliver, complete, retry, give up | every cancellation is delivered or given up |
| Subject's sessions | daily bucket, session rows, erasure fence | create, close, purge, erase | no day is overspent; nothing is created behind the fence |
| Resume gate, graph runtime, turn execution (AI) | gate row, execution fence row | reserve, interrupt, resume, finalize, sweep; execute, cancel | one run; one answer; no worker's result after an acknowledged cancellation |
| Release authority, classifier binding (AI) | activations, pointer, history, outbox, leases; bindings and events | activate, roll back, revoke trust, resolve, lease, answer; insert, supersede, revoke | history explains the pointer; an answer has one release |
| Model mesh and its cache (AI) | breakers, permits, budgets; meshes and leases on them | select, call, validate, cancel; lease, evict, close | limits hold; no probe is stranded; no mesh is closed under a turn |
| Knowledge ingestion, extraction ledger (AI) | jobs with leases and fences, artifacts; ledger rows, evidence | claim, stages, commit, retry, delete, replay; reserve, submit, reconcile | a candidate is whole; a tombstone leaves nothing; a document is submitted once |
| Knowledge releases, product releases | releases, pointer or active row, barriers | approve, materialize, activate, roll back, tombstone, retrieve | one active release; reads under one pointer |
| Dataset registry, manifests, intake, local corpus (AI) | rows with versions; objects, files, receipts, tombstones | promote, review, fetch, store, import, delete, retire | provenance stands; what is recorded is what is stored |
| Evaluation runs and definitions (AI) | run, tasks, results, budget; released documents | plan, register, execute, seal, decide; release, revoke | usage covers spend; sealed evidence is the results; plans are coherent |
| Provider spend (AI) | sealed ledger files, anchors, markers, packets | reserve, send, record, witness; authorize, settle | nothing is sent or granted twice; a torn ledger is not written again |
| Database credentials (AI) | secrets, witness, epoch row, logins | set a password, add versions, commit roles, disable | what is named as the password is the password |
| Workforce authorization (`API/access`) | roles, assignments, change requests, revisions | create, replace, assign, revoke, propose, decide, bootstrap | four eyes on privileged changes, an administrator remains |
| Access sessions, idempotent commands, controlled apply (`API/access`) | session, idempotency and reservation rows | observe, revoke, reconcile; reserve, complete, cancel | a command takes effect once; a revocation ends |
| Portals' token vaults | Redis records, leases, fences, revocation queue | callback, refresh, logout, back-channel logout, drain | no session after logout; stored tokens are the current ones |
| Agent runtime store | run, approvals, checkpoints, operation ledger | enqueue, claim, checkpoint, approve, cancel | an approved call runs once; a cancelled run never resumes |

`PROJECT.json` lists the remaining parts with the reason they are not modelled; section
8 repeats the important ones.

### 1.3 What is hard

- **Read, compute, write.**  Most operations hold no lock from their read to their
  write; a version in the final conditional update ties the two together, where there
  is one.
- **Leases and fences.**  A process that stalls past its lease is indistinguishable
  from a dead one and comes back.
- **Lost replies.**  A statement, a provider's call or a commit may take effect and its
  answer be lost; somebody then repeats it.
- **Several stores, no common transaction.**  Redis and Keycloak, a database and an
  object store, a ledger file and its anchor, a secret and the password it names.
- **Weak isolation.**  The authorization repository runs read committed; other
  transactions are serializable but fix their snapshot in the very statement that
  waits for an advisory lock.
- **Authority that moves meanwhile.**  Releases, bindings, definitions, approvals and
  calibrations are revoked or expire between the check and the act.
- **Settling counters twice.**  Budgets are withheld on accept, partly returned on
  settle, and the remainder returned on close or purge, while turns may still run.

## 2. How the project is cut

    ConversationAggregate            pure transitions, EXTENDed by
      +-- AtomicConversation         what a session promises
      +-- ConversationRuntime        many processes; AtomicSpec == Atomic!Spec
      +-- ConversationDispatch       commits as atomic steps, workers around them
      +-- ConversationSubject        many snapshots, one bucket
    ResumeGateStore                  the two AI rows and their statements
      +-- ConversationGraphRuntime
      +-- TurnExecution
    SessionLifecycle                 what every session store promises
      <-- CustomerSession, WorkforceSession, AccessSession
    ActiveRelease                    what every release plane promises
      <-- KnowledgeRelease, ProductRelease

Every other module is one component.  Components that share no state are instantiated
side by side in an MC module, which gives them their constants and one behaviour to
each: the variable `component` is chosen in the initial state and only that component
moves.  This is no composition of interacting parts and is not meant as one; it keeps
small instances of related parts, and the theorems about them, in one place.
`ConversationDispatch` and `ConversationSubject` do interact with the conversation:
they treat its commit as one step, which is the theorem `RuntimeIsAtomic`.

| MC module | Components |
| --- | --- |
| `MCAtomicConversation`, `MCConversationRuntime` | the conversation, promised and implemented |
| `MCEngagement` | `ConversationDispatch`, `CancellationOutbox` |
| `MCAssistant` | `ConversationGraphRuntime`, `TurnExecution`, `ClassifierBinding`, `ReleaseAuthority`, `AgentRun`, `ModelMesh` |
| `MCReleaseWorkflows` | `KnowledgeIngestion`, `DocumentLedger`, `KnowledgeRelease`, `ProductRelease`, `DatasetIntake`, `LocalKnowledge` |
| `MCSessions` | `ConversationSubject`, `AccessSession`, `CustomerSession`, `ProviderRevocation`, `WorkforceSession`, `Provisioning` |
| `MCRequests` | `WorkforceAuthorization`, `CommandReservations`, `EvaluationRun`, `EvaluationAuthority`, `ProviderSpend`, `DatasetRegistry` |

Of the components not modelled, the public event stream's replay buffer and the task
context are the ones worth a module next.


## 3. The modules against the code

Definitions marked `\* Fault:` are never part of a specification.  Each is a plausible
slip in the definition after it (a dropped guard, an off-by-one, a forgotten reset) and
is there to show that some property would notice; `PROJECT.json` says which.  A provider
or store outside the repository is modelled by what the code relies on and marked
`EXTERNAL` where it is a variable.

### The conversation

**ConversationAggregate** (`conversation-runtime.ts`).  A snapshot is a record; a
transition is an operator from a snapshot to the next one (`AcceptMessage`,
`ClaimTurn`, `CompleteTurn`, `CancelTurn`, `SetStatus`) with its guard apart
(`CanAccept`, ...), in the order of the code's checks where the order matters.
`Advance` is what all share: version and event sequence each go up by one.  Budgets are
functions from resources to naturals, so "within budget" is pointwise, as the code
compares tokens and cost separately.  The module ends with the lemmas on its operators.

**AtomicConversation** is the abstract specification: an operation is one step on the
durable state, with its event and its cancellation signal.  `now` is the caller's
clock; it may be older than the database's by any amount (a slow request) and ahead by
at most `MaxSkew`.

**ConversationRuntime** (`conversation-runtime.service.ts`,
`prisma-conversation-runtime.repository.ts`).  `op[c]` is the transition a process has
computed and not yet committed.  `Begin*` is the load with the transition; `Commit` is
`commitTransaction`: replay detection, version condition, receipt check on the
database's clock, row writes, event row, signal row.  `CommitReplay`, `CommitRejected`,
`ReplayAccepted` and `Crash` are its other ways to end.  `Written` writes only the
runtime row and the event's turn row, as the code does; that this agrees with the whole
computed snapshot is part of what is proved.  The table's unique indexes are
deliberately absent: the invariants show that they never fire.

**ConversationDispatch** (`conversation-turn-dispatcher.ts`,
`execute-conversation-turn.service.ts`).  `work[w]` is a process's program counter and
the values it remembers across awaits: the turn, the fence it claimed, the version its
next write expects, the fence its context named, the attempts it read.  One action per
database call; a failed AI call is classified as the code classifies it.  `RecordRetry`
includes the table's `conversation_turn_claim_shape_check`, which the code's update does
not satisfy: see 7.

**CancellationOutbox** (same repository and dispatcher, and the transport).  One row
per cancellation; a claim reads at most `BatchSize` due rows in creation order and takes
each by a conditional update that still finds it due, which the model makes one step (two
claims that overlap may take fewer rows, and leave the rest to the next poll); dispatches
of a batch run independently of one another.

**ConversationSubject** (`prisma-conversation-session.repository.ts` and the purge and
erasure in the runtime repository).  Sessions hold whole aggregate snapshots; `Engage`
is any aggregate transition of a live session.  Creation and erasure are two steps
each, because both wait for the subject's advisory lock: creation is read committed
and sees what was committed while it waited, erasure is serializable and deletes what
it saw before it waited.

### The AI plane around a turn

**ResumeGateStore** (`platform/checkpoints/*statements.py`).  Each operator is one SQL
statement: its WHERE clause is the guard, its SET list the new row, a row count of zero
is the guard's negation.  **ConversationGraphRuntime** (`graph/runtime.py`) strings
them together as `start` and `resume` do, any number of them on one turn, with
deadlines, crashes, replies lost after the statement committed, and the sweep.
**TurnExecution** (`conversation_router.py`, `graph/nodes.py`, `execution_control.py`)
adds the execution fence, the race of the worker against the invalidation poll and the
deadline (`Invalidate`, `WorkerReturns`, `Expires`), the worker's retries, and
cancellations delivered at any time and any number of times.  There are two ways to an
answer.  A worker's result passes `CheckIn`, the call of `is_current`.  The supervisor,
before the worker and before each retry, may end the graph itself with a refusal, a
clarification or a handoff (`Supervise`); it reads no fence, and what it answers is
answered also when the turn's cancellation was acknowledged.  Whatever the graph ended
with, `CloseSucceeded` closes the gate as a success and then responds, unless the process
dies, the release moved or the sweep (`SweepStart`) expired the gate first.  The turn has
one gate because one revision of the graph runs it: the gate's key holds the revision.

**ReleaseAuthority** (migrations 0011 and 0015, `postgres_release_authority.py`,
`release_resolver.py`).  A writer's transaction is a list of statements (`InsertHistory`,
`MovePointer`, `Publish`) that only its `Commit` makes visible, checked by the triggers
at the statement and by the deferred constraints at the commit (`CommitAdmits`).  A
turn reads the pointer, a snapshot, the trust rows; resolves again after its graph; and
takes the commit lease that holds the pointer (`LiveLeaseOn`) until it answers.

**ClassifierBinding** (migration 0019 and its store).  `Replace` is the atomic
supersession with its event; a resolver reads every row of its activation, as the
store's query does.

**ModelMesh** (`model_mesh.py`, `openai_responses.py`).  A call is cut where it awaits:
`Select` (breaker under its lock, budget, attempts), `Enter` or `Busy` (the bulkhead's
permit), the provider's outcome, `Check` (the validator), `Cancel` anywhere.
The meshes a process keeps (`release_runtime.py`) are in the same module, of which they
are a state machine of their own: turns lease the mesh of the envelope they resolved;
past the limit the least recently used mesh nobody leases is closed, outside the lock that
chose it.

**AgentRun** (`sqlite-run-store.ts`, `execute-run.ts`, the operation ledger).  A worker
claims, checkpoints, asks for approval, calls the tool between two ledger writes and
settles; `Resume` is the command line; a heartbeat may fall silent at any await.

### Content on its way to customers

**KnowledgeIngestion** (`ingestion.py`, `postgres_ingestion.py`,
`ingestion_runner.py`).  One job.  `Claim` takes lease and fence, `Work` and `Finish`
write one unit's artifact, `Commit` is the conditional write; deletion, replay from the
dead letters and revocation of the source come at any time.  There is no clock: the
row's lease and the worker's copy of it lapse at some moment, the copy first.

**DocumentLedger** (`postgres_cloud_ingestion.py` and the worker and reconciliation).
The provider has no idempotency key: the row reserved before the call is all there is.
`Post` may be lost either way.  Reconcilers claim batches, ask, read and write evidence
or a failure, each under the version and the claim it holds.

**KnowledgeRelease** (`release_service.py`, `postgres.py`, migration 0003).  `Begin` is
what the service reads, the action named after the command is its transaction; `done`
keeps the idempotency keys.  Retrieval is two transactions, `ResolveSnapshot` and
`Search`.  **ProductRelease** is the same protocol over a market's rows, by serializable
transactions whose snapshot is older than the lock they wait for.  **ActiveRelease** is
what both promise: publishing one release replaces the other in the same step, and
what is withdrawn is gone for good.

**DatasetIntake** (`gcs_object_store.py`, `quarantine.py`, `local_reconciliation.py`,
`safe_archive.py`).  Three ways in (`way`), each with the objects, files and directories
that others may change between two of its steps.  **LocalKnowledge** (three scripts
under `backend/ai/scripts`): import, tombstone and retirement, each write to disk a step,
with the locks they take and the content they share.

### Sessions and credentials

**CustomerSession** (`redis-token-vault.ts`, `session-coordination.ts`, the auth
routes).  A handler is a sequence of Redis or Keycloak calls, one step each; a Lua script
is one step.  `rotation[s]` is Keycloak's side: it rotates only the token it issued
last.  **WorkforceSession** is the other portal's vault, whose store of a rotated token
asks only that the session is there and unfenced.  **AccessSession** is the API's
projection of a session and its three-step revocation.  **SessionLifecycle** is what
these three promise: opened at most once, what ended never lives again, a fence ends
what it covers in the step that raises it.

**ProviderRevocation** (`provider-revocation-reconciler.ts` and its scripts).  Tasks,
their attempts, the drain under a lease, and the final record of what was given up.
A drainer remembers each task as it read it.

**Provisioning** (two scripts).  Two halves that share no state: the operator's runs,
which set the administrator's password and witness it once, and the identity job, which
publishes login secrets and commits roles and epoch in one transaction that may end in
doubt.  A provider may do what it was asked and not be heard: later, or never.

### Requests that must take effect once

**WorkforceAuthorization** (`prisma-workforce-authorization.repository.ts`, its service
and controller, the bootstrap script).  A request is served in steps: the guard and the
service's checks, the row locks with what is read under them, the commit.  A
conditional update that waited evaluates its condition again, as PostgreSQL does
(`LockReplace`, `LockApprove`).  Revisions are kept modulo two, since only "changed or
not" within one step is asked.  A revoked assignment's identifier may serve again:
nothing reads revoked rows.

**CommandReservations** holds the two tables in which a request reserves before it acts,
which share no state.  Of `prisma-idempotency.repository.ts`, one key: reservation,
command and outcome are three transactions (`KeyNext`).  Of
`controlled-apply-reservation.ts`, keys with nonces, claims and receipts: what the
facade verified may be old when its transaction runs (`ApplyNext`).

**EvaluationRun** (`postgres_execution_repository.py`, `qualification_runner.py`,
migrations 0020 and 0022): registration, tasks under leases, usage and budget, reaping,
sealing from the latest results, and the decision under definitions that may be revoked.
**EvaluationAuthority** (`evaluation_planner.py`, `postgres_definition_registry.py`,
migration 0022): the documents those definitions are, read one transaction at a time by
the planner, checked one statement at a time by the insert.

**ProviderSpend** (`vertex_smoke_authority.py`, `vertex_smoke_runner.py`,
`vertex_tuning_rehearsal_authority.py`): two ledgers in sealed files, each with the
anchor in a second file that a crash may leave behind; scripts of the smoke may be
killed between any two writes, and the file system itself does not fail.  **DatasetRegistry** (`registry.py`,
migrations 0016 and 0018): rows read, decided upon and written back under the triggers,
including the upgrade that installs them; and one manifest (`release_manifest.py`): import,
review, signatures and the status it may claim.

## 4. Runs and bounds

All runs that pass are exhaustive within their bounds.  Bounds are constants or `WITH`
values with names of their own (`MaxVersion`, `MaxClock`, `MaxFaults`, ...), used in
guards or in a `CONSTRAINT`.  Symmetry is used where no liveness is checked.

| Run | Bounds | What it shows |
| --- | --- | --- |
| `atomic_conversation` | 3 turns, 3 messages, 3 fences, 6 versions, clock 0..2, skew 1, two budget dimensions, room for two reservations | the promises of a conversation: inbox order, one turn per message, gapless log, one settlement, conserved budget, final settlements, strictly growing fences |
| `conversation_occ` | 2 processes, 2 turns, 2 messages with 2 contents, 2 fences, 4 versions, clock 0..1, receipts that lapse at 1 | load, compute, commit with crashes is indistinguishable from atomic steps; acknowledgements agree; stale results and lapsed receipts are rejected |
| `engagement` | dispatcher: 2 processes, 2 turns, 4 dispositions, 1 fault; outbox: 2 rows, 2 processes, batches of 1, 2 attempts, 2 faults | liveness: every message and every cancellation is settled; outcomes have causes; late processes do no harm |
| `assistant` | gate: 3 calls, 2 fences, clock 0..3; execution: 2 requests, 2 fences, clock 0..2; classifier: 3 bindings, 2 events; authority: 2 activations, 2 writers, 1 turn, 3 revisions; agent: 2 workers, 2 tool calls, 2 attempts, 5 versions; mesh: 2 calls, 2 deployments, threshold 1, 1 permit, budget 2; cache: 3 turns, 3 envelopes, limit 1 | a turn's gate is passed once, it is answered at most once and under one release, cutovers leave no gap, what is over stays over, costs and limits hold |
| `release_workflows` | 2 actors; ingestion: 4 stages of 1 unit, 1 attempt, 4 fences, 1 deletion, 1 replay; ledger: 3 documents over 2 pages, batches of 2, 2 attempts, 2 claims; knowledge: 2 releases (1 critical), 4 versions, 2 source revisions; product: 2 releases, 4 revisions; intake: 2 contents, 2 generations, 1 or 2 strays; corpus: 2 batches, 1 file, 2 contents, 1 outside change | the two release planes implement one abstract release; artifacts, ledger and records match what was done; decisions stand |
| `sessions` | 2 requests, 2 sessions each; day's limit 3, session budget 2, 2 tokens, clock 0..2, 4 versions, 2 attempts, 1 lapse | the session stores implement one lifecycle; no day is overspent; revocations are tracked; stored credentials are the ones in use |
| `requests` | 2 actors; grants: 2 subjects, 2 roles, 2 assignment rows, 1 change request, 2 versions; keys: 4 requests with 2 contents, 1 reclaim; apply: 2 keys, nonces, claims, receipts; evaluation: 2 cases, budget 2, 2 attempts; definitions: 11 documents, 2 instants, 3 revocations; smoke: 2 scripts, 2 directories, cap 3; tuning: 4 operations, cap 4; registry: 2 and 3 versions | once means once, under the authority asked with, and the books agree with what happened |
| `dispatch_retries`, `classifier_cutover`, `ingestion_renewal`, `half_open_probes`, `workforce_last_administrator` | as small as their counterexample | each finds one disagreement of section 7 |

Why these bounds are enough:

- A version conflict needs two processes and two versions beyond a load; a takeover
  needs two fences; an order violation needs a third turn, which is why the atomic run
  has three while the run of the implementation has two.
- In `atomic_conversation` the initial budget holds two reservations and not three, so
  acceptance at the limit and after a return of budget both happen; one of the two
  reported usages exceeds the reservation in one dimension only, which the code must
  refuse.  In `sessions` a day holds one session's budget and half of another's, and a
  session's turn uses half of what it reserves.
- `engagement` counts failed calls, crashes and lapses of a working process's lease
  together as faults.  With one fault each kind of failure happens in every state of
  either process; a second one repeats it, and `dispatch_retries` allows five.
- Two actors suffice wherever a lease, a lock or a version admits one: the second is
  the one that overlaps, takes over or comes back late.  The gate has three calls
  because a start, its resume and a competitor are the interesting company; the cache
  has three turns because an eviction needs a victim, a lease and a newcomer.
- Versions and fences are bounded just above what a full story of the component needs:
  a knowledge release that is activated, replaced and rolled back to uses four pointer
  versions, an ingestion that is claimed, given up, replayed and deleted four fences.
- `requests` identifies states that differ in revisions only (`VIEW`), because none of
  its properties reads them.  The sets of two symmetric values serve several parts at
  once (cases, contents, reviewers), which the comments in the MC modules say.
- For larger instances of the conversation, its timers, the session stores and the
  workflows the properties
  are proved (section 6), so their runs serve to find out whether they hold and to
  show that they can fail.

`CHECK_DEADLOCK FALSE` stands where the system may come to rest: everything settled,
all calls ended, or a bounded resource (clock, requests, versions) used up.

## 5. Fairness

Fairness is assumed in one specification, `MCEngagement!LiveSpec`, and only of the
system's own scheduling (`TimersFire`): weak fairness of each process's poll (a timer
that keeps firing; `busy` is cleared in a `finally`), of each process's next step (a
database call returns, an AI call ends by its deadline, then the code goes on), and of
time while a lease runs.  A crash resets a process to idle, where its next poll is again
fair: the process is restarted, or another takes its place.  Nothing obliges a client to
act and no fault is obliged to happen.  `Fairness` in the two component modules says
the same of each alone.

A lease lasts the AI call's timeout and 15 seconds more
(`conversation-turn-dispatcher.ts:160-166`, and line 120 for the outbox), so one that
lapses under a working process is a stall and counted among the faults.  Faults are
bounded in number, because a system that fails for ever settles nothing.  No strong
fairness is used.  `EverythingSettled` allows one excuse, that the session was closed or
handed off: turns of such sessions are no longer claimed, which is what the code does.

## 6. Proofs

Checked by TLAPS for every value of the constants.  Eight modules hold theorems; nothing
is assumed but what the modules state about their constants, and TLC evaluates those
assumptions on every run.  An inductive invariant was checked by TLC before it was
proved.

### 6.1 The conversation

For every set of turns, messages, fingerprints, resources, reservations, usages,
fences, receipts, processes, and every clock skew.  The assumptions: the turns are
finitely many, budgets are functions into the naturals, a reservation is positive in each dimension, a lease lasts
at least one tick, fences are positive, and `Nil` is no turn, message, fingerprint or
receipt.

**ConversationAggregate** holds the lemmas about its operators: every transition maps a
well-formed snapshot to a well-formed snapshot.  The point is the budget: `Reserve`
stays natural because `CanAccept` compared first, `ReleaseUnusedBudget` because the
usage fits the reservation whoever cancels (`CancelUsageFits`).

The same module proves that no transition loses any budget or makes more of it.  What the
turns withhold is a sum, and a sum is a fold over a finite set, of which the library
states nothing.  So the lemmas start at the bottom: `SumsExist` and `SumsAgree` show that
the fold's recursive function is there and is one, each by a least counterexample among
the cardinalities of the subsets; `SumUnfolds` and `SumTakes` take an element out;
`SumChanges` says that a sum changes as its one changed element does, `SumFits` that fewer
and smaller elements sum to less.  `Conserved` says of a snapshot that what remains and
what the turns withhold is the session's budget; each transition keeps it, because the
turn it writes withholds as much more as remains less (`ConservedBy`).

**AtomicConversationProofs**: `Spec => []IInv`, from it each invariant of the run
and two action properties.  `IInv` needs its parts together:

- `InboxOrder` is preserved by a claim only because the claim took the *first*
  claimable turn and every running turn's lease had lapsed; by an acceptance only
  because `Numbered` says that all existing turns lie at or below
  `lastReceivedSequence`.
- `OneTurnPerMessage` needs `Numbered` for the same reason, and `Known` for messages.
- `AnsweredOnce` needs `EventLogGapless`, so that the event a settlement adds is new,
  and the terminal statuses to be final.
- `ClaimHoldsNewestFence` needs `InboxOrder`'s consequence that one turn runs at a time;
  otherwise a claim would leave another running turn below the watermark.
- `SettledIsFinal` and `FenceNeverReused` are proved of a single step from `IInv`.

**ConversationRuntimeProofs**: `RuntimeIsAtomic == Spec => AtomicSpec`, the refinement.
The inductive invariant `RInv` says of an operation in flight: it does not expect a
version from the future, *and if the version it expects is still the stored one, then
it was computed on exactly the stored snapshot* (`Computed`).  Every commit raises the
version by one, so this is preserved by other processes' commits; a load establishes
it; and the clock only grows, so an operation judged at some `now` still lies within
the atomic module's window (`ComputedStays`).  A commit under an equal version is
therefore the atomic operation itself: the row-wise write equals the computed snapshot
(`ComputedWritten`), absence of a replay is the atomic module's "message not known",
and the receipt check is the same check.  All other steps stutter or tick.

The same module proves what the atomic module cannot say: `RepliesStayTrue`,
`StaleResultsAreRejected`, `ReceiptsLiveAtCommit`, and type correctness.  They rest on
`CommitRows` (each commit fills one unused row for a message found nowhere else, or
rewrites one row without touching its message, or touches none) and on `RowsInv`.
So every property of the run `conversation_occ` holds of every instance.

### 6.2 The session stores and the credentials

**SessionProofs** proves of `MCSessions!Spec`, for every number of requests, drainers,
sessions, tokens, attempts and ticks, all properties of the run `sessions`.  It
assumes `SessionsAssumption`: bounds are naturals, sessions are finitely many, `Nil` is
nothing else, a day has a length, `ProviderOf` is a function, and the limits the code divides by or counts up to
are positive.  Each store has its own inductive invariant, and the ideas differ:

- **Projection** (`AccessInv`).  A request remembers the state and version it claimed.
  While it is at the provider the row is still `pending` under that version, because
  the compare-and-set raised it and no other transaction may touch a pending row; so
  two requests at the provider would hold one version, and are one.
- **Revocation queue** (`QueueInv`, `CallsCounted`).  What the holder of the lease has
  read of a task is not stale, since all writes happen under the lease; what a drainer
  whose lease lapsed still has in hand is covered by that lapse.  The bound on calls
  counts the two separately: `calls + stale drainers <= attempts + lapses`, one more
  once the holder has made the call whose outcome is not recorded yet.  The proof carries
  the cardinality of
  the set of stale drainers through every step.
- **Customer store** (`CustomerInv`).  Keycloak rotates a refresh token only when it is
  the newest, so of all refreshes of one session at most one has a rotated token to
  store (`Rotated`); and that one still owns what it must replace.  From this follows
  that a stored session's token is the accepted one unless that refresh is on its way.
- **Workforce store** (`StaffInv`).  The same argument has to do without a conditional
  store: the token a refresh is about to write is one above the stored one, and nobody
  else is at that step for the session.
- **Bootstrap credential** (`OperatorInv`).  A witness names a version that holds the
  password of the witness's own run, in every interleaving.  That this is also the
  *current* password holds as long as no second operator ran beside the first
  (`Uncontested`), because a call that timed out may still be applied later.
- **Identity job** (`EpochInv`).  Versions belong to the claim that holds the epoch; an
  epoch is completed only with all logins published; a failed one leaves enabled only
  what nobody could be told about (`DoubtHolds`).
- **Subject** (`SubjectInv`).  A creation under way read a bucket that its budget fits,
  nothing but the return of other budgets changes the bucket meanwhile, and none is
  under way behind the erasure fence.
- **The subject's budget** (`SubjectAccounts`).  What a day has left and what its sessions
  keep of it is the day's limit, exactly, in every state.  That a session keeps enough for
  its turns needs three facts together: its own budget is conserved (`Accounted`); it
  returned nothing before it was closed or purged, and then no more than remained; and
  from then on it cannot accept a turn, so that what remains only grows while the turns
  it still has settle (`Recedes`).  A turn that completes with a handoff takes a closed
  session back to the status `handoff`, and the session may be closed a second time; it
  has returned its budget already and returns none.

`StoresBehave` splits a step of the composition: one store moves, the others stay.
With it `StoresInvariant` collects the seven invariants, and the run's properties follow:
`StoresTyped`, `SubjectBudgetIsKept`, `RevocationsAreTracked`, `CredentialsAreUsable`, and from single steps
`EndsAreFinal`.  `StoresRefineLifecycle` proves the three refinements of
`SessionLifecycle`: under the invariant each handler's write opens an unfenced session,
ends live ones, fences, or is a stutter.  The step that needs the invariant is the
creation: a login's identifier is nobody else's (`NewLogins`, `StaffCreates`), so what
it stores is new and not something that had ended.

### 6.3 The timers that drive a session

**EngagementProofs** proves of `MCEngagement!Spec`, for every number of processes, turns,
rows, faults, attempts and leases, the safety properties of the run `engagement`, whose
specification adds nothing but fairness.  Beyond the assumptions of the aggregate it
assumes `DispatchAssumption` and `OutboxAssumption`: bounds are naturals, the limit of
attempts and the lease are positive.

- **Dispatcher** (`DispatchInv`).  `InboxInv` says that received sequences are distinct
  and bounded, that a claimed turn precedes every other open one, so only one is claimed,
  and that it carries the newest fence.  A claim preserves it because `ClaimedAlone`:
  the first claimable turn has no running turn before it.  `WorkInv` ties what a process
  read to the store: about to claim under a version that is still current, its fence is
  the next one; about to refuse, the fence of the context is the fence of its own claim.
- **Account of the claims** (`Account`).  `ReclaimsHaveCause` is not inductive: between
  a crash and the claim that repairs it the inequality has slack that the next claim
  uses up.  The invariant keeps the slack as a debt.  A claim is *owed* when a turn is
  claimed and no process will still answer for it (`Lost`: crashed, stalled past its
  lease, failed for good, or beaten by a client's version).  Then
  `Owed + 2 * watermark + |Completed| <= |Started| + faults + version`: a first claim
  starts a turn, a later one pays a debt, a debt arises only with a fault or with a
  client's version, and each claim and each completion writes a version of its own.
- **Outbox** (`OutboxInv`).  Every attempt after a row's first was paid for, by a fault
  or by an attempt that could put the row back (`Paid`); processes that still have the
  row in hand have not paid yet, and are counted as a set (`PutBacks`).  `SettledRow` is the
  other half: a settled row is neither claimable nor matched by a late process's write.

`TimersBehave` says that a behaviour of the two is a behaviour of each, and
`TimersTyped`, `OutcomesAreCaused` and `LateProcessesAreHarmless` follow from
`ClaimsHaveCause`, `RefusalsAreOwn`, `AttemptsHaveCause` and `SettledRowsStay`.

### 6.4 The workflows behind a release

**ReleaseProofs** proves of `MCReleaseWorkflows!Spec`, for every set of releases, operators,
keys, retrievals, items and actors and every bound, all properties of the run
`release_workflows` but its types: `PlanesImplementReleases`,
`PointersAreExplained`, `ReadsAreUnderOnePointer`, `ArtifactsAreTrue`, `LedgerIsTrue` and
`DecisionsAreFinal`.  They assume `ReleasesAssumption`: bounds are naturals, a stage has
units, a job may be deleted, a document may fail once, a market's releases are finitely
many, and `Nil` is no release and no record.

- **Knowledge plane** (`KnowledgeInv`).  `PointerNamesActive` is preserved because the
  release that steps aside is the one the pointer names, in the step that moves the
  pointer.  `HistoryInv` says more than the property: events are never of a version to
  come, so the event a command appends is the only one of the version it writes.
  `SnapshotInv` says that what a retrieval resolved *is* the pointer while its version
  stands; from it `EvidenceIsCurrent` follows for all fields, though the search compares
  three of them.  `BarrierInv` ties a critical barrier to the candidate the pointer names,
  and with it only that candidate's activation clears it (`BarriersAreKept`).
- **Market** (`ProductInv`).  A transaction decides on a snapshot.  `CommitMoves` is the
  heart: the rows it writes are unchanged since (first updater), and the unique index
  admits the result; so what it commits are moves of the rows as they are, and `OneActive`
  holds after it although two transactions may each have seen no active release.
- Both refinements of `ActiveRelease` follow step by step, and for the market also that a
  replaced active release has exactly one successor (`MarketsStayServed`).
- **Ledger** (`LedgerInv`).  A document's operation starts only in the step between its
  reservation and its record, and the one dispatcher in that step is the one that made the
  reservation (`PostInv`); so it starts once (`DocumentsStartOnce`).
  A claim is held only of a document of which nothing is final yet, and a reconciler writes
  only under the claim's current fence (`EvidenceInv`); an observation it is about to record
  as terminal is the provider's state and can no longer change (`BatchInv`).  So evidence is
  of operations that succeeded (`EvidenceSound`), and late writes touch no final record
  (`FinalRecordsStay`).  `LedgerIsTrue` adds the counts (`LedgerIsBounded`).  Pages and claims
  are counted as sets of pairs of a document and a number (`UnitsOf`), so a bound on a sum is a fact
  about finite sets: what is started was submitted, what is submitted was reserved, and a
  reservation is admitted only if its own pages still fit.  Failures stay within their limit
  because the failure that reaches it quarantines the document, and a document in
  quarantine is neither claimed nor, in a batch claimed before, failed again.
- **Intake** (`IntakeInv`).  The generations of an object are used in order, each once
  (`GenerationsInv`).  A process that comes back from a read holds a generation that exists
  and whose bytes cannot change, so what it reports is what is stored (`ResultsInv`), even
  where the live object was replaced meanwhile; and nobody replaces one but an upload from
  outside (`ObjectsAreCreatedOnce`).
- **Local corpus** (`CorpusInv`).  Scripts hold different batches (`LocksInv`), so an import
  lists exactly what it copied into quarantine (`ScriptFits`, `ListsInv`), whatever changed
  in the source directory meanwhile.  A deletion drops the objects no other batch listed
  when it looked; an import that ran beside it is the one exception, and the invariant
  carries it as such (`overlapped`).  From the first record of a deletion its batch has no
  import, so it only loses files (`BatchesStayDeleted`).
- **Ingestion** (`IngestionInv`).  A worker's copy of the job is the row while its version
  stands, but for the lease (`WorkerFits`): so what it commits is the next state of the row
  as it is, and what it derived is of the unit the row is at.  Of the job itself, the stage,
  the status and the generation of a deletion come together (`JobFits`).  From the first
  deletion on the stores are barred and only lose files (`GoneInv`), also when the worker
  of a lapsed lease writes late.  Until then the units a job has behind it are whole, file
  and row, and no row is of a unit ahead of it (`WholeInv`, `StoresInv`): so a candidate is
  whole (`CandidatesAreWhole`), a unit done again by the next worker finds no row of its own
  (`ResumesAreClean`), and a tombstone leaves nothing (`TombstonesAreEmpty`).

### 6.5 The AI plane around one turn

**AssistantProofs** proves of `MCAssistant!Spec` all properties of the run `assistant`, for
every number of calls, processes, fences, bindings, activations, writers, turns, tool calls,
deployments and ticks, whatever the windows of the bindings, the costs of the deployments
and the pins of the activations (also pins that form no chain).  It assumes
`AssistantAssumption`: bounds are naturals, calls and turns are finitely many, an activation
pins an activation or nothing, and `Nil` is nothing else.  Each of the seven parts has an
inductive invariant of its own:

- **Gate** (`GraphInv`).  A call that runs the graph holds the reservation or the claim the
  gate says it holds; two calls that held it would be one.  An expired gate is never written
  by the call that comes back to it (`ExpiredGateStays`).
- **Execution** (`ExecutionInv`).  Who answers closes the gate under its own reservation,
  and a closed gate is reserved by nobody again; so there is one answer, whether the
  worker or the supervisor gave it (`AnswerIsLast`).  The row says cancelled exactly when
  a cancellation was acknowledged (`CancelledAsAcknowledged`), no check lifts it, and so
  no worker's result passes after that (`CancelledWorkersStop`).  The supervisor's
  answers are excepted, as section 7 says.
- **Classifier binding** (`BindingInv`).  A row's revision counts its transitions and every
  row that is not active has the one event that retired it; the event of a replacement is
  written in the transaction that makes the next row active (`CutoverLeavesNoGap`).
- **Agent's run** (`AgentInv`).  A worker's copy is the row while its version stands; a
  ledger entry belongs to the attempt that wrote it, and a writing call that ran has the
  approval of its own arguments.  The invariant bounds what the states still add to the
  row's version, since only claims and requests are bounded in the model.
- **Calls of the mesh** (`MeshInv`).  Permits taken and calls in flight add up to the
  bulkhead, a half-open probe is being flown by somebody, and what a call has spent is
  covered by what it reserved.  The proof carries the cardinality of the calls in flight
  through every step.
- **Cache of meshes** (`CacheInv`).  A lease is counted once for each turn that holds it, so
  a mesh with no lease has no user and may be closed; at most `Limit` meshes nobody leases
  are kept.
- **Release authority** (`AuthorityInv`).  Of all open transactions one at most has
  inserted, and what it inserted is the event that follows the committed history; so a
  commit appends (`ToldOn`).  A lease is never issued while the pointer has been moved by a
  transaction, and no transaction moves it under a live lease; so a live lease holds the
  pointer, and `AnswersUnderLease` follows.  That the release in force can always be rolled
  back needs two facts about the whole history: whoever was made the target has a prior
  that was made it earlier (`PriorsFirst`), and no activation the target descends from was
  revoked since (`LineageKept`).  The lineage is the least set closed under the pins, so
  the argument holds of every pin function.

`PartsBehave` splits a step of the composition, and the run's properties follow:
`PartsTyped`, `GatesPassedOnce`, `TurnsAnsweredOrCancelled`, `AuthorityTellsOneStory`,
`PartsStayOver`, `CutoversAreAtomic`, `AnswersUnderOneRelease`.

### 6.6 Requests that must take effect once

**RequestProofs** proves of `MCRequests!Spec` all properties of the run `requests`, for every
number of processes, subjects, roles, assignment rows, change requests, evaluation cases,
contents and reviewers.  What `MCRequests` itself writes into its instances stays as it is
there: the two sets of capabilities, four commands on one key, two reservations of each
kind, the eleven documents, budgets, caps and last instants.  `RequestsAssumption` says that
`Nil` is nothing else, the bootstrap role is a role, and change requests, cases and processes
are finitely many.  Each of the ten parts has an inductive invariant; `RequestsMove` splits a
step of the composition, and `RequestsInvariance` carries them all.

- **Grants** (`GrantInv`).  A row of a role or of a change request is locked by one process
  (`Locked`), so what a process is about to commit stands as it was when it took its locks:
  the request it decides is still pending (`InHand`).  Versions are bounded by the changes
  that were approved, as the model bounds only the direct replacement.
- **What was seen** (`SeenInv`).  For a role other than the bootstrap one, the version a
  replacement was prepared under determines the capabilities: each change raises it, so a
  version that still agrees means that nobody changed them.  The tiers the service looked
  at before the transaction are therefore still the tiers when it commits (`Harmless`).
- **Idempotency keys** (`KeyInv`).  The commands that run and the executions done are no
  more than the reservations made, counted with cardinalities; and while none has lapsed,
  whoever may answer is one (`OneOwner`).  **Controlled apply** (`ApplyInv`): a nonce is of
  one reservation, and a settled one is not touched.
- **Evaluation run** (`EvaluationInv`).  One runner has a lease, and the task it leases
  stands as it claimed it (`RunnersStand`); so unless an attempt is under way the usage
  recorded covers what was spent (`AccountsStand`), also when a reaper charged an attempt
  whose result arrives late.  `UnitsAdded` is the arithmetic, with usage as a set of units.
- **Definitions** (`DefinitionsInv`).  A plan read one transaction at a time is coherent
  because each thing it found is what was asked for, and the questions still open are
  the others (`QuestionsStand`, `ReadKeeps`); a run is sealed under definitions that its
  locks keep.  `MeasuresAgree` is about the two places that recompute the figures of a
  confusion matrix, the database and the service, with and without fractions in lowest
  terms: they accept the same matrices, for all natural figures.
- **Smoke and rehearsal** (`SmokeInv`, `TuningInv`).  Between the anchor and the first file
  there is one script in a directory, and a capability is in the hands of one script, whose
  claim of the witness nobody can repeat (`OneHolder`).  A caller of the rehearsal that has
  written the file waits alone for its anchor, and what it will grant was not granted before
  (`OneAnchors`).
- **Registry and manifest** (`RegistryInv`, `ManifestInv`).  A copy is not ahead of its row,
  and is the row if the versions agree (`CopiesStand`); nothing is accepted or rejected in a
  manifest before somebody decides, and evidence that counts was given by somebody.

The run's properties follow: `RequestsTyped`, `RequestsApplyOnce`, `EvaluationIsAccountedFor`,
`ChangesAreAsSeen`.

The proof of `ChangesAreAsSeen` failed first, for a reason.  The bootstrap script restores all
capabilities of its role and leaves the role's version alone
(`bootstrap-workforce-administrators.ts:161-186`, an upsert that sets the status, and
`createMany` with `skipDuplicates`).  A change request made when the bootstrap role had been
reduced, and approved after the script ran again, replaces capabilities its author never
saw; TLC reaches it in twelve steps with two change requests and four subjects, and not in
the instance of the run, which has one request.  So `ApprovedAsSeen` and
`PrivilegedChangesApproved` of `WorkforceAuthorization` speak of the other roles, for which
they are proved.

### 6.7 What stays with TLC

- Liveness, and everything that rests on fairness or `ENABLED`: `EverythingSettled`
  of `MCEngagement`.  TLAPS does not reach them.
- Of `MCReleaseWorkflows` the types.
- The runs that end in a violation: a counterexample is TLC's to find.

No module of the project declares a recursive operator.

## 7. Where the code and its documents part ways

Five runs end in a counterexample, against a sentence of the repository:

1. **Transient retries are never counted** (`dispatch_retries`).  A transient failure
   writes status `accepted` without clearing `fencingToken`; the table's check
   constraint rejects the row, the transaction fails, no attempt is recorded and no
   delay stored.  The documented limit of three retries is never reached, and the turn
   is retried at every lease expiry.
2. **The last administrator can be revoked** (`workforce_last_administrator`).  Two
   overlapping revocations each count the other's administrator.
3. **A replaced binding cannot be read** (`classifier_cutover`).  The store's query has
   no condition on the state, so the retained row matches beside its replacement.
4. **A renewed lease does not commit** (`ingestion_renewal`).  The heartbeat renews the
   row; the commit looks at the expiry the worker read when it claimed.
5. **A second half-open probe** (`half_open_probes`).  A call admitted before the circuit
   opened ends during the probe and clears the flag the probe had set.

More are stated as definitions and can be reproduced by putting the property into a
configuration with the constants of the one named:

- `ErasureLeavesNoSession` (`MCSessions.cfg`): a session created while an erasure waits
  for the lock survives it.
- `UnusedIsReturned` (same): what a turn settles after its session was closed is never
  returned to the day.
- `RevisionFollows` (`MCLastAdministrator.cfg`, without the view): an assignment that
  commits between a role change's read of its subjects and its commit changes
  entitlements under an old revision.
- `PrivilegedGrantsApproved` (same): a role that becomes privileged between the tier
  check and the insert is assigned without approval.  With one process instead of two
  the last two hold.
- `StaleMeansSuperseded` (`MCAssistant.cfg`): the invalidation poll treats a missing
  execution fence as invalid, so a first attempt nobody superseded may be told it was.
- `CancelledNotAnswered` (same; `docs/conversation-graph.md:180`): the supervisor answers
  a turn whose cancellation was acknowledged before the request arrived.  The answer goes
  to the API plane, where the turn is settled and the late result is turned away
  (`SettledIsFinal`, `StaleResultRejected`).
- `RestartResumes` (`MCRequests.cfg`; `docs/work/items/VFBIZ-0156.md:37-38`): a runner
  restarted after the clock moved plans anew, with a fresh digest, and is refused by the
  run it registered itself.

Observed while modelling and left as observations, because no sentence of the
repository excludes them or no property of these models reaches them:

- A change of the bootstrap role may be approved over capabilities its author never saw,
  because the bootstrap restores them without raising the role's version
  (`bootstrap-workforce-administrators.ts:161-186`; section 6.6).
- A read of the fence that fails while the worker runs ends the turn as stale, although
  nobody superseded it (`nodes.py:150-157`); the model leaves the failing read out.
- A finished answer is replaced by a refusal after a version conflict, because the
  dispatcher files the conflict under `dead-letter`.
- A rollback of a product release compares the active release's revision only, so one
  that went away and came back in between passes
  (`prisma-commercial-release-workflow.repository.ts:389`).
- A scope can be opened for reading by the activation of a release whose barrier is not
  critical (`postgres.py:227`, against `docs/knowledge-release.md:126-129`).
- Commit leases issued one after another can keep a rollback or a revocation of trust
  waiting for as long as they come.
- The workforce vault lists a subject's sessions and deletes what it listed in a second
  step (`redis-token-vault.ts:295`); `WorkforceSession` models it, and the fence covers
  what was listed.
- A refresh token rotated while a logout was under way is never revoked at the provider.
- A document's reservation is lost to the budget if its dispatcher dies between the
  provider's call and the record; nobody may take it over.
- Cancelling an evaluation run drops the usage of a case in flight, and lapsed tasks are
  reaped only when another runner claims.
- An agent's worker that was superseded settles its successor's run, and a run may wait
  for the approval of another worker's checkpoint.
- The finalisation of an object already there is an error for the intake (a 412), and
  two writers of one directory share a temporary name (`artifact_inspection.py:111`,
  `local_scan.py:83`).
- A stored clarification event is rejected by the reader of public events
  (`prisma-conversation-runtime.repository.ts:1779`).

## 8. What is not modelled

- The components marked so in `PROJECT.json`: the public event stream (reads and
  caches), the conversation's task context (validated in the transaction of a
  completion), accounts and garage (single-row writes under a row version), generators,
  parsers and voice calibration (single processes that write one file), configuration,
  tools and user interfaces.
- Within modelled components: the dispatcher's poll over several sessions; what the
  worker answers and the purge of terminal resume gates and old execution fences;
  evidence dropped chunk by chunk from a retrieval (`postgres_retrieval.py:274-277`; a
  release is searchable or not as a whole); delivery of the release authority's outbox; artifact rows of the dataset registry and the deletion of rows;
  the local content scan; a second authority document of the provisioning and
  `_assert_batch_absent`; database roles and views of migration 0022; audit rows and
  metrics; scopes other than the global one; authentication of either plane.
- Production runs the mesh with one route and workers with one attempt; the models keep
  the two of the code's configuration, where the interesting interleavings are.
- Payload formats and digests, except where two contents must be told apart.
- Database failures other than a lost reply or a lost process; the database is taken
  to be durable and its isolation levels to do what PostgreSQL documents.
