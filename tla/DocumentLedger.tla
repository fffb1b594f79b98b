--------------------------- MODULE DocumentLedger ---------------------------
(***************************************************************************)
(* Documents sent to the cloud's Document AI: dispatchers reserve a row of *)
(* the ledger before they call the provider, which has no idempotency key  *)
(* of its own, and reconcilers claim batches of submitted rows, ask what   *)
(* became of the operation and record the evidence of what it extracted.   *)
(*                                                                         *)
(* Whether a reservation has expired decides only whether a message comes  *)
(* back or becomes a dead letter; nobody may take it over.                 *)
(*                                                                         *)
(* One day's page budget.  The content of requests, receipts and evidence  *)
(* is left out: one document is one request, and its output reads the same *)
(* each time it is read.  A cancelled operation is one that failed.        *)
(***************************************************************************)
EXTENDS Naturals, Sequences, FiniteSets, FiniteSetsExt

CONSTANTS
  Document,
  PagesOf,      \* pages of each document
  MaxPages,     \* max_pages_per_day
  Dispatcher,
  Reconciler,
  BatchLimit,   \* reconcile_batch_size
  MaxAttempts,  \* _max_failure_attempts
  MaxClaims,    \* bound on the claims of all documents
  Nil

VARIABLES
  submission,  \* row of the ledger
  operation,   \* what the provider runs
  dispatcher,  \* the document a dispatcher handles and its step
  claim,       \* row of the claim
  observed,    \* last observation of the operation
  extracted,   \* documents with extraction evidence
  failure,     \* rows of failed reconciliations
  reconciler   \* the batch of a reconciler and its step

vars == <<submission, operation, dispatcher, claim, observed, extracted, failure,
          reconciler>>
ledger == <<submission, dispatcher>>
evidence == <<claim, observed, extracted, failure, reconciler>>

OperationState == {"absent", "running", "succeeded", "failed"}
Terminal == {"succeeded", "failed"}
Quarantined(d) == failure[d].disposition = "quarantined"

TypeOK ==
  /\ submission \in [Document -> {"none", "reserved", "submitted"}]
  /\ extracted \subseteq Document
  /\ operation \in [Document -> [starts : Nat, state : OperationState]]
  /\ \A x \in Dispatcher : dispatcher[x] # Nil =>
       dispatcher[x] \in [doc : Document, step : {"reserve", "post", "record"}]
  /\ claim \in [Document -> [fence : 0..MaxClaims, held : BOOLEAN, lapsed : BOOLEAN]]
  /\ observed \in [Document -> OperationState]
  /\ failure \in [Document -> [attempt : 0..MaxAttempts,
                               disposition : {"none", "backoff", "due", "quarantined"}]]
  /\ \A r \in Reconciler : /\ Len(reconciler[r].batch) <= BatchLimit
                           /\ (reconciler[r].batch = <<>>) = (reconciler[r].step = "off")

Off == [step |-> "off", batch |-> <<>>, seen |-> Nil]

Init ==
  /\ submission = [d \in Document |-> "none"]
  /\ extracted = {}
  /\ operation = [d \in Document |-> [starts |-> 0, state |-> "absent"]]
  /\ dispatcher = [x \in Dispatcher |-> Nil]
  /\ claim = [d \in Document |-> [fence |-> 0, held |-> FALSE, lapsed |-> FALSE]]
  /\ observed = [d \in Document |-> "absent"]
  /\ failure = [d \in Document |-> [attempt |-> 0, disposition |-> "none"]]
  /\ reconciler = [r \in Reconciler |-> Off]

(***************************************************************************)
(* CloudIngestionWorker.dispatch: a message is delivered at least once.    *)
(***************************************************************************)
Doc(x) == dispatcher[x].doc
AtStep(x, step) == dispatcher[x] # Nil /\ dispatcher[x].step = step
Continue(x, step) == dispatcher' = [dispatcher EXCEPT ![x].step = step]
End(x) == dispatcher' = [dispatcher EXCEPT ![x] = Nil]

\* A message whose document has a row is answered from it: with the receipt, by
\* coming back while the reservation is in use, or with a dead letter once it has
\* expired and nobody knows what became of it.  None of these changes anything.
Find(x, d) ==
  /\ dispatcher[x] = Nil /\ submission[d] = "none"
  /\ dispatcher' = [dispatcher EXCEPT ![x] = [doc |-> d, step |-> "reserve"]]
  /\ UNCHANGED <<submission, operation, evidence>>

\* What f counts for the documents of S, one by one: its sum is their cardinality.
UnitsOf(f, S) == UNION {{d} \X (1..f[d]) : d \in S}

\* Fault: reservations whose submission is not recorded yet are not counted.
PagesSubmitted == Cardinality(UnitsOf(PagesOf, {d \in Document : submission[d] = "submitted"}))
PagesReserved == Cardinality(UnitsOf(PagesOf, {d \in Document : submission[d] # "none"}))

Reserve(x) ==
  /\ AtStep(x, "reserve")
  /\ IF submission[Doc(x)] # "none" \/ PagesReserved + PagesOf[Doc(x)] > MaxPages
     THEN End(x) /\ UNCHANGED submission
     ELSE submission' = [submission EXCEPT ![Doc(x)] = "reserved"] /\ Continue(x, "post")
  /\ UNCHANGED <<operation, evidence>>

\* The provider runs what it was sent or refuses it; its answer may be lost or
\* unreadable.
Start(d) == operation' = [operation EXCEPT ![d] = [starts |-> @.starts + 1, state |-> "running"]]
Post(x) ==
  /\ AtStep(x, "post")
  /\ \/ Start(Doc(x)) /\ (Continue(x, "record") \/ End(x))
     \/ UNCHANGED operation /\ End(x)
  /\ UNCHANGED <<submission, evidence>>

\* ledger.record; nobody else may have the row, were its reservation expired.
Record(x) ==
  /\ AtStep(x, "record")
  /\ submission' = [submission EXCEPT ![Doc(x)] = "submitted"]
  /\ End(x)
  /\ UNCHANGED <<operation, evidence>>

DispatcherCrash(x) ==
  /\ dispatcher[x] # Nil /\ End(x)
  /\ UNCHANGED <<submission, operation, evidence>>

(***************************************************************************)
(* DocumentAiReconciliationService.reconcile_pending                       *)
(***************************************************************************)
Pending(d) ==
  /\ submission[d] = "submitted"
  /\ ~(observed[d] = "failed" \/ (observed[d] = "succeeded" /\ d \in extracted))
  /\ failure[d].disposition \notin {"backoff", "quarantined"}
  /\ ~claim[d].held \/ claim[d].lapsed

\* list_pending: one statement under an advisory lock claims the whole batch.
List(r) ==
  LET due == {d \in Document : Pending(d)}
      size == Min({BatchLimit, Cardinality(due)})
  IN  /\ reconciler[r].step = "off" /\ due # {}
      /\ size + Cardinality(UnitsOf([d \in Document |-> claim[d].fence], Document)) <= MaxClaims
      /\ \E order \in [1..size -> due] :
           /\ \A i, j \in 1..size : order[i] = order[j] => i = j
           /\ claim' = [d \in Document |->
                IF \E i \in 1..size : order[i] = d
                THEN [fence |-> claim[d].fence + 1, held |-> TRUE, lapsed |-> FALSE]
                ELSE claim[d]]
           /\ reconciler' = [reconciler EXCEPT ![r] =
                [step |-> "find", seen |-> Nil,
                 batch |-> [i \in 1..size |-> [doc |-> order[i],
                                               fence |-> claim[order[i]].fence + 1]]]]
      /\ UNCHANGED <<ledger, operation, observed, extracted, failure>>

Mine(r) == Head(reconciler[r].batch).doc
At(r, step) == reconciler[r].step = step
Goto(r, step) == reconciler' = [reconciler EXCEPT ![r].step = step]
NextDocument(r) ==
  reconciler' = [reconciler EXCEPT ![r] =
    IF Len(@.batch) = 1 THEN Off
    ELSE [step |-> "find", batch |-> Tail(@.batch), seen |-> Nil]]

Owned(r) == claim[Mine(r)].held /\ claim[Mine(r)].fence = Head(reconciler[r].batch).fence
Release(r) == claim' = [claim EXCEPT ![Mine(r)].held = FALSE]

\* find_terminal
FindTerminal(r) ==
  /\ At(r, "find")
  /\ CASE observed[Mine(r)] = "succeeded" -> Goto(r, "extract")
       [] observed[Mine(r)] = "failed"    -> NextDocument(r)
       [] OTHER                           -> Goto(r, "ask")
  /\ UNCHANGED <<ledger, operation, claim, observed, extracted, failure>>

\* The provider answers, or does not, or answers what cannot be read.
Ask(r) ==
  /\ At(r, "ask")
  /\ \/ reconciler' = [reconciler EXCEPT ![r].step = "observe",
                                         ![r].seen = operation[Mine(r)].state]
     \/ Goto(r, "transient") \/ Goto(r, "permanent")
  /\ UNCHANGED <<ledger, operation, claim, observed, extracted, failure>>

\* What a reconciler may write: its claim is there and its lease is not over.
Guarded(r, Write) ==
  IF ~Owned(r) THEN Goto(r, "permanent") /\ UNCHANGED <<claim, observed, extracted>>
  ELSE IF claim[Mine(r)].lapsed
  THEN Goto(r, "transient") /\ UNCHANGED <<claim, observed, extracted>>
  ELSE Write

\* record_operation
Observe(r) ==
  LET d == Mine(r)
      seen == reconciler[r].seen
  IN  /\ At(r, "observe")
      /\ IF observed[d] \in Terminal
         THEN /\ IF observed[d] # seen THEN Goto(r, "permanent")
                 ELSE IF seen = "succeeded" THEN Goto(r, "extract") ELSE NextDocument(r)
              /\ UNCHANGED <<claim, observed, extracted>>
         ELSE Guarded(r, /\ observed' = [observed EXCEPT ![d] = seen]
                         /\ UNCHANGED extracted
                         /\ IF seen = "succeeded" THEN Goto(r, "extract") /\ UNCHANGED claim
                            ELSE Release(r) /\ NextDocument(r))
      /\ UNCHANGED <<ledger, operation, failure>>

\* The objects of the output are listed, and each is read in the generation it was
\* listed in.  A provider that does not answer, or not within the deadline, may be
\* asked again; objects that are missing, too large, doubled or changed may not.
FetchFailures == {"transient", "permanent"}

\* The pages are parsed under the same deadline: text that is short, or of a low or unknown
\* confidence, is evidence for a review; a document that does not parse is given up.
ParseOutcomes == {"write", "transient", "permanent"}

\* find_extraction, and reading the output
Read(r) ==
  /\ At(r, "extract")
  /\ IF Mine(r) \in extracted THEN NextDocument(r)
     ELSE \E outcome \in FetchFailures \cup ParseOutcomes : Goto(r, outcome)
  /\ UNCHANGED <<ledger, operation, claim, observed, extracted, failure>>

\* The trigger on evidence refuses it for a document whose operation is not known to
\* have succeeded, or that was given up; being refused ends the job, as a crash does.
EvidenceAdmitted(d) ==
  submission[d] = "submitted" /\ observed[d] = "succeeded" /\ ~Quarantined(d)

\* record_extraction
Write(r) ==
  /\ At(r, "write")
  /\ IF Mine(r) \in extracted THEN NextDocument(r) /\ UNCHANGED <<claim, observed, extracted>>
     ELSE Guarded(r, /\ EvidenceAdmitted(Mine(r)) /\ extracted' = extracted \cup {Mine(r)}
                     /\ Release(r) /\ NextDocument(r) /\ UNCHANGED observed)
  /\ UNCHANGED <<ledger, operation, failure>>

\* record_failure needs the claim, lapsed or not; without it the whole batch ends.
RecordFailure(r) ==
  LET d == Mine(r)
      attempt == failure[d].attempt + 1
  IN  /\ At(r, "transient") \/ At(r, "permanent")
      /\ IF Owned(r) /\ ~Quarantined(d) /\ d \notin extracted
         THEN /\ failure' = [failure EXCEPT ![d] = [attempt |-> attempt, disposition |->
                   IF At(r, "transient") /\ attempt < MaxAttempts THEN "backoff" ELSE "quarantined"]]
              /\ Release(r) /\ NextDocument(r)
         ELSE reconciler' = [reconciler EXCEPT ![r] = Off] /\ UNCHANGED <<claim, failure>>
      /\ UNCHANGED <<ledger, operation, observed, extracted>>

ReconcilerCrash(r) ==
  /\ ~At(r, "off")
  /\ reconciler' = [reconciler EXCEPT ![r] = Off]
  /\ UNCHANGED <<ledger, operation, claim, observed, extracted, failure>>

(***************************************************************************)
(* The provider and time.                                                  *)
(***************************************************************************)
Complete ==
  /\ \E d \in Document, state \in Terminal :
       operation[d].state = "running" /\ operation' = [operation EXCEPT ![d].state = state]
  /\ UNCHANGED <<ledger, evidence>>

LapseClaim ==
  /\ \E d \in Document :
       /\ claim[d].held /\ ~claim[d].lapsed
       /\ claim' = [claim EXCEPT ![d].lapsed = TRUE]
  /\ UNCHANGED <<ledger, operation, observed, extracted, failure, reconciler>>

RetryDue ==
  /\ \E d \in Document : /\ failure[d].disposition = "backoff"
                         /\ failure' = [failure EXCEPT ![d].disposition = "due"]
  /\ UNCHANGED <<ledger, operation, claim, observed, extracted, reconciler>>

Next ==
  \/ \E x \in Dispatcher :
       \/ \E d \in Document : Find(x, d)
       \/ Reserve(x) \/ Post(x) \/ Record(x) \/ DispatcherCrash(x)
  \/ \E r \in Reconciler :
       \/ List(r) \/ FindTerminal(r) \/ Ask(r) \/ Observe(r) \/ Read(r) \/ Write(r)
       \/ RecordFailure(r) \/ ReconcilerCrash(r)
  \/ Complete \/ LapseClaim \/ RetryDue

Spec == Init /\ [][Next]_vars

(***************************************************************************)
(* Properties.                                                             *)
(***************************************************************************)

\* The provider runs a document at most once and never more pages than a day
\* allows, however often its message is delivered, by however many dispatchers,
\* and whichever of them crash before, during or after the call.
SubmittedOnce ==
  /\ \A d \in Document : operation[d].starts <= 1
  /\ Cardinality(UnitsOf(PagesOf, {d \in Document : operation[d].starts > 0})) <= MaxPages

\* Evidence exists only of an operation that succeeded, at the provider and in
\* the observations, and never of a document that was given up.
EvidenceIsSound ==
  \A d \in Document :
    /\ d \in extracted => observed[d] = "succeeded" /\ ~Quarantined(d)
    /\ observed[d] \in Terminal => operation[d].state = observed[d]

\* What a reconciler recorded as final stays: evidence, the end of an operation,
\* a quarantine; no reconciler that lost its claim to another adds to it.
FinalStays ==
  [][\A d \in Document :
       /\ d \in extracted \/ Quarantined(d) \/ observed[d] = "failed" =>
            failure'[d] = failure[d] /\ ((d \in extracted) <=> (d \in extracted'))
       /\ observed[d] \in Terminal => observed'[d] = observed[d]]_vars

=============================================================================
