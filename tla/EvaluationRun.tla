---------------------------- MODULE EvaluationRun ----------------------------
(***************************************************************************)
(* One evaluation run: runners register its plan, put it in the queue,     *)
(* execute its cases one at a time under leases and a budget, and seal the *)
(* evidence, while operators cancel it or revoke a definition it rests on. *)
(*                                                                         *)
(* The four budgets (tokens in and out, time, money) are one: each is      *)
(* compared, summed and reserved the same way.  A transition reads the     *)
(* row and writes it at the version it read, so it is one step; one that   *)
(* lost a race ends its runner, as a crash does.  The token of a lease is  *)
(* its case and attempt.                                                   *)
(***************************************************************************)
EXTENDS Naturals, FiniteSets, FiniteSetsExt

CONSTANTS
  Case,         \* the cases the suite binds
  Runner,
  Budget,       \* what the plan allows the run to use
  MaxAttempts,  \* attemptPolicy.maxAttempts
  Nil

VARIABLES
  run,      \* the row
  task,     \* the rows of the cases, Nil before the suite is materialized
  results,  \* results of attempts
  runner,   \* what each runner is doing
  revoked,  \* definitions revoked so far
  spent     \* what the handlers of cases used of what their leases allowed

vars == <<run, task, results, runner, revoked, spent>>

States == {"absent", "requested", "queued", "running", "grading", "comparing",
           "decision_ready", "failed", "cancelled"}
Terminal == {"decision_ready", "failed", "cancelled"}
\* "suite" stands for what the service reads again before it seals, "benchmark"
\* for what only the database does.
Definitions == {"benchmark", "suite"}
\* "gated": valid, and below a hard gate of the baseline policy.
Outcomes == {"valid", "gated", "retryable", "failed", "unknown"}

Idle == [step |-> "off", case |-> Nil, attempt |-> 0, allowance |-> 0, used |-> 0,
         version |-> 0, bundle |-> Nil]

Task == [status : {"pending", "running", "completed", "failed", "cancelled"},
         attempt : 0..MaxAttempts, expired : BOOLEAN]
Evidence ==
  [attempts : [Case -> 1..MaxAttempts],
   metrics : [size : 0..Cardinality(Case), passed : 0..Cardinality(Case)],
   recommendation : {"recommend", "reject", "needs-human-decision"}]
Result == [case : Case, attempt : 1..MaxAttempts, outcome : Outcomes, used : 0..Budget]

TypeOK ==
  /\ run.status \in States /\ run.version \in Nat /\ run.completed \in 0..Cardinality(Case)
  /\ run.evidence \in Evidence \cup {Nil}
  /\ task = Nil \/ task \in [Case -> Task]
  /\ results \subseteq Result
  /\ revoked \subseteq Definitions /\ spent \in Nat

Init ==
  /\ run = [status |-> "absent", version |-> 0, completed |-> 0, evidence |-> Nil]
  /\ task = Nil /\ results = {} /\ revoked = {} /\ spent = 0
  /\ runner = [r \in Runner |-> Idle]

At(r, step) == runner[r].step = step
Goto(r, step) == runner' = [runner EXCEPT ![r].step = step]
Stop(r) == runner' = [runner EXCEPT ![r] = Idle]

\* The sum of what the results used, in units of it.
Consumed == Cardinality(UNION {{x} \X (1..x.used) : x \in results})
\* Fault: what attempts consumed is not taken off the budget.
RemainingUntouched == Budget
Remaining == IF Consumed >= Budget THEN 0 ELSE Budget - Consumed

(***************************************************************************)
(* EvaluationQualificationRunner.run up to the cases                       *)
(***************************************************************************)

\* Every definition the plan names is released, and not revoked since.
AuthorityReleased == revoked = {}

\* The planner reads the released definitions, and so does the insert.  A runner
\* that finds the run there joins it with the plan it was made from; one that has
\* planned anew is refused, as the module EvaluationAuthority shows.
Register(r) ==
  /\ At(r, "off") /\ AuthorityReleased
  /\ run' = IF run.status = "absent" THEN [run EXCEPT !.status = "requested"] ELSE run
  /\ Goto(r, "queue")
  /\ UNCHANGED <<task, results, revoked, spent>>

Successor == [requested |-> "queued", queued |-> "running",
              running |-> "grading", grading |-> "comparing"]
Leads(status, target) == status \in DOMAIN Successor /\ Successor[status] = target
Transitions == {<<"queue", "queued", "materialize">>, <<"start", "running", "claim">>,
                <<"grade", "grading", "compare">>, <<"compare", "comparing", "collect">>}

\* The row is locked and must be as it was read; save never decides a run.
Save(status) == run' = [run EXCEPT !.status = status, !.version = @ + 1]

\* EvaluationRunLifecycleService.transition: nothing to do, the next state, or
\* an illegal transition, which ends the runner.
Transition(r) ==
  \E t \in Transitions :
    /\ At(r, t[1])
    /\ \/ run.status = t[2] /\ Goto(r, t[3]) /\ UNCHANGED run
       \/ /\ Leads(run.status, t[2])
          /\ Save(t[2]) /\ Goto(r, t[3])
       \/ /\ run.status # t[2] /\ ~Leads(run.status, t[2])
          /\ Stop(r) /\ UNCHANGED run
    /\ UNCHANGED <<task, results, revoked, spent>>

Materialize(r) ==
  /\ At(r, "materialize")
  /\ IF run.status # "queued" THEN Stop(r) /\ UNCHANGED task
     ELSE /\ Goto(r, "start")
          /\ task' = IF task # Nil THEN task
                     ELSE [c \in Case |-> [status |-> "pending", attempt |-> 0, expired |-> FALSE]]
  /\ UNCHANGED <<run, results, revoked, spent>>

(***************************************************************************)
(* claim_case, which holds the row of the run                              *)
(***************************************************************************)
Running == {c \in Case : task[c].status = "running"}
Expired == {c \in Running : task[c].expired}
Claimable == {c \in Case : task[c].status = "pending" /\ task[c].attempt < MaxAttempts}
Fail == Save("failed")

\* A lease ran out: what its handler used is unknown, so all that remains is
\* written off and the run fails.
Reap ==
  /\ Expired # {}
  /\ results' = results \cup {[case |-> c, attempt |-> task[c].attempt,
                               outcome |-> "unknown", used |-> Remaining] : c \in Expired}
  /\ task' = [c \in Case |-> IF c \in Expired THEN [task[c] EXCEPT !.status = "failed"] ELSE task[c]]
  /\ Fail

Lease(r, c) ==
  /\ Running = {} /\ Remaining > 0 /\ c \in Claimable
  /\ task' = [task EXCEPT ![c] = [status |-> "running", attempt |-> @.attempt + 1,
                                  expired |-> FALSE]]
  /\ runner' = [runner EXCEPT ![r] = [Idle EXCEPT !.step = "handle", !.case = c,
                  !.attempt = task[c].attempt + 1, !.allowance = Remaining]]

Claim(r) ==
  /\ At(r, "claim")
  /\ CASE run.status = "running" ->
            \/ Reap /\ Goto(r, "check")
            \/ Expired = {} /\ (Running # {} \/ Claimable = {})
                 /\ Goto(r, "check") /\ UNCHANGED <<run, task, results>>
            \/ Running = {} /\ Claimable # {} /\ Remaining = 0
                 /\ Fail /\ Goto(r, "check") /\ UNCHANGED <<task, results>>
            \/ \E c \in Case : Lease(r, c) /\ UNCHANGED <<run, results>>
       [] run.status = "cancelled" -> Goto(r, "check") /\ UNCHANGED <<run, task, results>>
       [] OTHER -> Stop(r) /\ UNCHANGED <<run, task, results>>
  /\ UNCHANGED <<revoked, spent>>

\* The handler of a case is told what it may use; one that uses more is one over.
Handle(r) ==
  /\ At(r, "handle")
  /\ \E used \in 0..(runner[r].allowance + 1) :
       /\ runner' = [runner EXCEPT ![r].step = "complete", ![r].used = used]
       /\ spent' = spent + Min({used, runner[r].allowance})
  /\ UNCHANGED <<run, task, results, revoked>>

\* complete_case
Current(r) ==
  LET mine == runner[r] IN
  /\ run.status = "running" /\ task[mine.case].status = "running"
  /\ task[mine.case].attempt = mine.attempt /\ ~task[mine.case].expired
\* The trigger on results refuses one the budget does not cover.
Affordable(r) == Consumed + runner[r].used <= Budget
Retried(r, outcome) == outcome = "retryable" /\ runner[r].attempt < MaxAttempts

\* What a handler may report: outputs with grades, figures and no flags, or flags
\* without outputs.  That nobody knows the usage is recorded of a lease that ran out.
Reported == Outcomes \ {"unknown"}

\* What the handler returned is of no account before it is recorded.
Complete(r) ==
  /\ At(r, "complete")
  /\ IF ~(Current(r) /\ Affordable(r)) THEN Stop(r) /\ UNCHANGED <<run, task, results>>
     ELSE \E outcome \in Reported :
          LET mine == runner[r]
              settled == [task EXCEPT ![mine.case].status =
                            IF Retried(r, outcome) THEN "pending" ELSE "completed"]
          IN  /\ results' = results \cup {[case |-> mine.case, attempt |-> mine.attempt,
                                           outcome |-> outcome, used |-> mine.used]}
              /\ task' = settled
              /\ run' = [run EXCEPT !.version = @ + 1,
                   !.completed = Cardinality({c \in Case : settled[c].status = "completed"})]
              /\ runner' = [runner EXCEPT ![r] = [Idle EXCEPT !.step = "claim"]]
  /\ UNCHANGED <<revoked, spent>>

(***************************************************************************)
(* EvidenceBundleAuthority.seal                                            *)
(***************************************************************************)
Whole == run.completed = Cardinality(Case)

Check(r) ==
  /\ At(r, "check")
  /\ IF run.status = "running" /\ Whole THEN Goto(r, "grade") ELSE Stop(r)
  /\ UNCHANGED <<run, task, results, revoked, spent>>

LastAttempt(c) == Max({0} \cup {x.attempt : x \in {y \in results : y.case = c}})
Latest == {x \in results : x.attempt = LastAttempt(x.case)}
Sound == {x.case : x \in Latest} = Case /\ \A x \in Latest : x.outcome \in {"valid", "gated"}

\* Evidence rejects on a hard gate; it never accepts.
GateFailed == \E x \in Latest : x.outcome = "gated"
Recommendation == IF GateFailed THEN "reject" ELSE "needs-human-decision"

\* A metric is a share of the last results; its interval depends on nothing else.
Metrics == [size |-> Cardinality(Latest),
            passed |-> Cardinality({x \in Latest : x.outcome = "valid"})]
Bundle == [attempts |-> [c \in Case |-> LastAttempt(c)], metrics |-> Metrics,
           recommendation |-> Recommendation]

Collect(r) ==
  /\ At(r, "collect")
  /\ IF run.status = "comparing" /\ Whole /\ "suite" \notin revoked /\ Sound
     THEN runner' = [runner EXCEPT ![r].step = "seal", ![r].version = run.version,
                                   ![r].bundle = Bundle]
     ELSE Stop(r)
  /\ UNCHANGED <<run, task, results, revoked, spent>>

SealedFrom(r) == run.status = "comparing" /\ run.version = runner[r].version

\* Fault: the definitions are not looked at again.
SealableOnRevoked(r) == SealedFrom(r) /\ Sound /\ Whole

\* The database computes the metrics again from the results it holds, and with
\* them derives the whole bundle.
MetricsRederived(r) == runner[r].bundle.metrics = Metrics
Rederived(r) == MetricsRederived(r) /\ runner[r].bundle = Bundle

Sealable(r) ==
  /\ SealedFrom(r) /\ AuthorityReleased /\ Sound /\ Whole /\ Rederived(r)
  /\ \A c \in Case : task[c].status = "completed"

\* Evidence is committed only with the run it decides.
Decided(bundle) ==
  [run EXCEPT !.status = "decision_ready", !.version = @ + 1, !.evidence = bundle]

Seal(r) ==
  /\ At(r, "seal")
  /\ run' = IF Sealable(r) THEN Decided(runner[r].bundle) ELSE run
  /\ Stop(r)
  /\ UNCHANGED <<task, results, revoked, spent>>

Crash(r) ==
  /\ ~At(r, "off") /\ Stop(r)
  /\ UNCHANGED <<run, task, results, revoked, spent>>

(***************************************************************************)
(* Operators and time                                                      *)
(***************************************************************************)
Cancel ==
  /\ run.status \notin Terminal \cup {"absent"}
  /\ Save("cancelled")
  /\ task' = IF task = Nil THEN Nil
             ELSE [c \in Case |-> IF task[c].status \in {"pending", "running"}
                                  THEN [task[c] EXCEPT !.status = "cancelled"] ELSE task[c]]
  /\ UNCHANGED <<results, runner, revoked, spent>>

Revoke ==
  /\ \E d \in Definitions \ revoked : revoked' = revoked \cup {d}
  /\ UNCHANGED <<run, task, results, runner, spent>>

Lapse ==
  /\ task # Nil
  /\ \E c \in Running : ~task[c].expired /\ task' = [task EXCEPT ![c].expired = TRUE]
  /\ UNCHANGED <<run, results, runner, revoked, spent>>

Next ==
  \/ \E r \in Runner :
       \/ Register(r) \/ Transition(r) \/ Materialize(r) \/ Claim(r) \/ Handle(r)
       \/ Complete(r) \/ Check(r) \/ Collect(r) \/ Seal(r) \/ Crash(r)
  \/ Cancel \/ Revoke \/ Lapse

Spec == Init /\ [][Next]_vars

(***************************************************************************)
(* Properties.                                                             *)
(***************************************************************************)

\* What the handlers used of their allowances never exceeds the budget, and the
\* results account for it whenever no case is in flight, though runners die with
\* their usage unknown, go on spending after they lost their lease, or have a
\* result refused because it overran.  Cancelling is the exception: nobody records
\* what the case it interrupted had used.
LedgerCoversSpend ==
  /\ spent <= Budget
  /\ run.status # "cancelled" /\ (task = Nil \/ Running = {}) => spent <= Consumed

\* Evidence is sealed from the last attempt of every case, each valid, rejects when
\* one of them is below a hard gate, and stays what it was sealed from: no late
\* result joins it.
SealedFromResults ==
  run.status = "decision_ready" =>
    /\ Sound /\ run.evidence = Bundle
    /\ \A c \in Case : task[c].status = "completed"

\* Nothing changes a run that was decided, failed or cancelled, and none is
\* decided on a definition revoked after the service read it.
DecidedUnderAuthority ==
  [][/\ run.status \in Terminal => run' = run /\ results' = results
     /\ run'.status = "decision_ready" /\ run.status # "decision_ready" => revoked = {}]_vars

=============================================================================
