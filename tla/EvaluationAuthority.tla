------------------------- MODULE EvaluationAuthority -------------------------
(***************************************************************************)
(* The definitions an evaluation rests on, and the plan made from them.    *)
(* Release owners release documents and revoke them for good; a planner    *)
(* reads them one transaction at a time, the insert of the run checks them *)
(* again one statement at a time, and the sealing of its evidence locks    *)
(* what is left of them first.  What a run does in between is the module   *)
(* EvaluationRun.                                                          *)
(*                                                                         *)
(* A document that is named by the digest of its content is named here by  *)
(* any value that no other content has.                                    *)
(***************************************************************************)
EXTENDS Naturals, Sequences, FiniteSets, SequencesExt, Functions

CONSTANTS
  Document,   \* what may be submitted for release
  Seeded,     \* documents released before
  Subject,    \* release owners
  Service,    \* processes that plan and register, and that seal
  MinSample,  \* labelled samples a calibration needs: 30
  MinCases,   \* cases an acceptance suite needs: 500
  Horizon,    \* the last instant of the clock
  MaxRevoked, \* bound on revocations
  Nil

VARIABLES
  released,  \* the rows
  revoked,   \* those with revoked_at
  now,
  evaluation,  \* the run registered under the key, or Nil
  service    \* what each process is doing

vars == <<released, revoked, now, evaluation, service>>

Kinds == {"benchmark", "metric", "grader", "calibration", "suite", "suite-authority",
          "baseline-policy"}
MandatoryGates == {"acl-leakage-v1", "citation-validity-v1", "pii-leakage-v1",
                   "tool-authorization-v1"}

\* The name of a row is read in its document: a policy, say, has its digest for both.
Identity(d) == <<d.kind, d.key, d.rev>>

Active == released \ revoked
Named(kind, key, rev) ==
  {d \in Active : Identity(d) = <<kind, key, rev>>}

NoPlan == [benchmark |-> Nil, found |-> {}, at |-> 0]
Idle == [step |-> "off", todo |-> <<>>, plan |-> NoPlan, gone |-> {}, locked |-> {}]

At(p, step) == service[p].step = step
Stop(p) == service' = [service EXCEPT ![p] = Idle]
Names(plan) == {plan.benchmark} \cup plan.found
Of(plan, kind) == {d \in plan.found : d.kind = kind}

TypeOK ==
  /\ released \subseteq Document /\ revoked \subseteq released /\ now \in 0..Horizon
  /\ \A d \in released : d.kind \in Kinds
  /\ \A d, e \in released : Identity(d) = Identity(e) => d = e
  /\ evaluation # Nil => Names(evaluation.plan) \subseteq released /\ evaluation.sealed \in BOOLEAN
  /\ \A p \in Service : service[p].locked \subseteq released

Init ==
  /\ released = Seeded /\ revoked = {} /\ now = 0 /\ evaluation = Nil
  /\ service = [p \in Service |-> Idle]

(***************************************************************************)
(* What the database admits                                                *)
(***************************************************************************)

\* Ratios are pairs, a numerator over a denominator.
Equal(a, b) == a[1] * b[2] = b[1] * a[2]
Plus(a, b) == <<a[1] * b[2] + b[1] * a[2], a[2] * b[2]>>
Half(a) == <<a[1], 2 * a[2]>>

\* A confusion matrix with the figures claimed for it.
MeasureAdmitted(m) ==
  /\ m.tp + m.tn + m.fp + m.fn = m.sample
  /\ m.tp + m.fn > 0 /\ m.tn + m.fp > 0 /\ 2 * m.tp + m.fp + m.fn > 0
  /\ Equal(m.balanced, Half(Plus(<<m.tp, m.tp + m.fn>>, <<m.tn, m.tn + m.fp>>)))
  /\ Equal(m.f1, <<2 * m.tp, 2 * m.tp + m.fp + m.fn>>)

\* Fault: the counts need not add up to the sample.
MeasureAdmittedPartial(m) ==
  /\ m.tp + m.fn > 0 /\ m.tn + m.fp > 0
  /\ Equal(m.balanced, Half(Plus(<<m.tp, m.tp + m.fn>>, <<m.tn, m.tn + m.fp>>)))
  /\ Equal(m.f1, <<2 * m.tp, 2 * m.tp + m.fp + m.fn>>)

CalibrationAdmitted(c) ==
  /\ c.overall.sample >= MinSample /\ c.from < c.until
  /\ MeasureAdmitted(c.overall)
  /\ \A s \in DOMAIN c.slices :
       MeasureAdmitted(c.slices[s]) /\ c.slices[s].sample <= c.overall.sample
  /\ {"all", "high-risk"} \subseteq DOMAIN c.slices
  /\ c.slices["all"] = c.overall

\* Hard gates, each with the value it requires, and the metrics protected.
PolicyAdmitted(d) ==
  /\ MandatoryGates \subseteq DOMAIN d.gates /\ \A g \in MandatoryGates : d.gates[g] = 0
  /\ d.metrics # <<>>

Apart(t) == Cardinality({t.author, t.evaluator, t.owner}) = 3

\* An authority over acceptance suites is not admitted at all.
AuthorityAdmitted(d, owner) ==
  d.terms.class = "public-diagnostic" /\ d.terms.owner = owner /\ Apart(d.terms)

Large(t) == t.class = "vinfast-acceptance" => Cardinality(t.cases) >= MinCases /\ t.heldOut

\* A suite repeats the terms of an authority in force, the cases included.
SuiteAdmitted(d, owner) ==
  /\ d.terms.cases # {} /\ d.terms.owner = owner /\ Apart(d.terms) /\ Large(d.terms)
  /\ \E a \in Named("suite-authority", d.key, d.authority) : a.terms = d.terms

BudgetAdmitted(d) == d.budget > 0

Admitted(d, owner) ==
  CASE d.kind = "calibration"     -> CalibrationAdmitted(d)
    [] d.kind = "baseline-policy" -> PolicyAdmitted(d)
    [] d.kind = "suite-authority" -> AuthorityAdmitted(d, owner)
    [] d.kind = "suite"           -> SuiteAdmitted(d, owner)
    [] d.kind = "benchmark"       -> BudgetAdmitted(d)
    [] OTHER                      -> TRUE

\* An identity is taken for good, revoked or not.
Unused(d) == \A e \in released : Identity(e) # Identity(d)

Release ==
  /\ \E d \in Document \ released, owner \in Subject :
       Unused(d) /\ Admitted(d, owner) /\ released' = released \cup {d}
  /\ UNCHANGED <<revoked, now, evaluation, service>>

\* Rows a sealing transaction has locked FOR SHARE.
Held == UNION {service[p].locked : p \in Service}
\* Fault: the sealing transaction only reads them.
HeldByNobody == {}

Revoke ==
  /\ Cardinality(revoked) < MaxRevoked
  /\ \E d \in Active \ Held : revoked' = revoked \cup {d}
  /\ UNCHANGED <<released, now, evaluation, service>>

Tick ==
  /\ now < Horizon /\ now' = now + 1
  /\ UNCHANGED <<released, revoked, evaluation, service>>

(***************************************************************************)
(* What the service reads back                                             *)
(***************************************************************************)

\* The service multiplies the ratios out in another order.
MeasureReadable(m) ==
  LET positives == m.tp + m.fn
      negatives == m.tn + m.fp
      Unit(r) == r[1] <= r[2]
  IN  /\ positives + negatives = m.sample /\ Unit(m.balanced) /\ Unit(m.f1)
      /\ positives > 0 /\ negatives > 0
      /\ Equal(m.balanced, <<m.tp * negatives + m.tn * positives, 2 * positives * negatives>>)
      /\ Equal(m.f1, <<2 * m.tp, 2 * m.tp + m.fp + m.fn>>)

CalibrationReadable(c) ==
  /\ c.overall.sample >= MinSample /\ MeasureReadable(c.overall)
  /\ {"all", "high-risk"} \subseteq DOMAIN c.slices /\ c.slices["all"] = c.overall
  /\ \A s \in DOMAIN c.slices :
       /\ c.slices[s].sample \in 1..c.overall.sample /\ MeasureReadable(c.slices[s])
  /\ c.from < c.until

\* Unlike the database, the service wants every gate at zero and no metric twice.
PolicyReadable(d) ==
  /\ MandatoryGates \subseteq DOMAIN d.gates /\ \A g \in DOMAIN d.gates : d.gates[g] = 0
  /\ d.metrics # <<>> /\ IsInjective(d.metrics)

AuthorityReadable(a) == Apart(a.terms)

SuiteSound(t) == t.cases # {} /\ Apart(t) /\ Large(t)

\* The suite is issued again from its own cases and the terms of its authority.
SuiteReadable(d, a) ==
  /\ a.key = d.key /\ a.terms.cases = d.terms.cases
  /\ d.terms = a.terms /\ SuiteSound(d.terms)

\* The database does not look into metrics and graders.
MetricReadable(m) == m.slices # <<>> /\ IsInjective(m.slices)
GraderReadable(g) == g.sort \in {"nli", "model-judge"} => g.calibrated

BenchmarkReadable(b) ==
  /\ b.metrics # <<>> /\ b.graders # <<>> /\ b.budget > 0
  /\ IsInjective(b.metrics) /\ IsInjective(b.graders)

(***************************************************************************)
(* EvaluationPlanner.plan: one transaction a read                          *)
(***************************************************************************)
Ask(kind, key, rev) == [kind |-> kind, key |-> key, rev |-> rev]

\* The clock is read between the metrics and the graders, each of these before its
\* calibration.
Reads(b) ==
  [i \in DOMAIN b.metrics |-> Ask("metric", b.metrics[i], b.metrics[i])]
  \o <<Ask("clock", Nil, Nil)>>
  \o [i \in 1..(2 * Len(b.graders)) |->
       LET g == b.graders[(i + 1) \div 2]
       IN IF i % 2 = 1 THEN Ask("grader", g, g) ELSE Ask("calibration", g, Nil)]
  \o <<Ask("suite", b.suite.key, b.suite.rev), Ask("suite-authority", b.suite.key, Nil),
       Ask("baseline-policy", b.policy, b.policy)>>

Benchmarks == {b \in Active : b.kind = "benchmark" /\ BenchmarkReadable(b)}

Plan(p) ==
  /\ At(p, "off")
  /\ \E b \in Benchmarks : service' = [service EXCEPT ![p] = [Idle EXCEPT
       !.step = "plan", !.plan.benchmark = b, !.todo = Reads(b)]]
  /\ UNCHANGED <<released, revoked, now, evaluation>>

\* _read_latest: two definitions in force under one key are an error.
TheOnly(kind, key) ==
  LET known == {d \in Active : d.kind = kind /\ d.key = key} IN
  IF Cardinality(known) = 1 THEN known ELSE {}

Fits(plan, c) ==
  /\ CalibrationReadable(c) /\ c.from <= plan.at /\ plan.at < c.until
  /\ \E g \in Of(plan, "grader") : g.key = c.key /\ g.implementation = c.implementation

FoundCalibration(plan, key) == {c \in TheOnly("calibration", key) : Fits(plan, c)}

\* The authority of the suite found, as read in the transaction after the suite's.
FoundAuthority(plan) ==
  {a \in Active :
    /\ a.kind = "suite-authority" /\ AuthorityReadable(a)
    /\ \E s \in Of(plan, "suite") :
         s.authority = a.rev /\ SuiteReadable(s, a) /\ s.terms.class = plan.benchmark.class}

FoundPolicy(key) == {d \in TheOnly("baseline-policy", key) : PolicyReadable(d)}

\* What the read of a definition returns; nothing, when it ends the planning.
Found(plan, ask) ==
  CASE ask.kind = "metric" -> {m \in Named("metric", ask.key, ask.rev) : MetricReadable(m)}
    [] ask.kind = "grader" -> {g \in Named("grader", ask.key, ask.rev) : GraderReadable(g)}
    [] ask.kind = "calibration"     -> FoundCalibration(plan, ask.key)
    [] ask.kind = "suite"           -> Named("suite", ask.key, ask.rev)
    [] ask.kind = "suite-authority" -> FoundAuthority(plan)
    [] ask.kind = "baseline-policy" -> FoundPolicy(ask.key)

Statements == <<"benchmark", "graders", "suite", "policy", "metrics">>

Read(p) ==
  LET mine == service[p]
      ask == Head(mine.todo)
      plan == mine.plan
  IN  /\ At(p, "plan") /\ mine.todo # <<>>
      /\ IF ask.kind = "clock"
         THEN service' = [service EXCEPT ![p].todo = Tail(@), ![p].plan.at = now]
         ELSE IF Found(plan, ask) = {} THEN Stop(p)
         ELSE \E d \in Found(plan, ask) :
                service' = [service EXCEPT ![p].todo = Tail(@), ![p].plan.found = @ \cup {d}]
      /\ UNCHANGED <<released, revoked, now, evaluation>>

(***************************************************************************)
(* EvaluationRunRegistrationService.register, and the trigger of the insert *)
(***************************************************************************)
\* A plan has metrics, graders and a policy, and names none twice.
WellFormed(plan) ==
  /\ plan.benchmark.metrics # <<>> /\ IsInjective(plan.benchmark.metrics)
  /\ plan.benchmark.graders # <<>> /\ IsInjective(plan.benchmark.graders)
  /\ Of(plan, "baseline-policy") # {}

Submit(p) ==
  /\ At(p, "plan") /\ service[p].todo = <<>>
  /\ IF WellFormed(service[p].plan)
     THEN service' = [service EXCEPT ![p].step = "insert", ![p].todo = Statements,
                                     ![p].gone = revoked \cap Names(service[p].plan)]
     ELSE Stop(p)
  /\ UNCHANGED <<released, revoked, now, evaluation>>

\* Exactly one benchmark in force has the digest of the plan's.
BenchmarkStands(plan) ==
  {b \in Active : b.kind = "benchmark" /\ b.digest = plan.benchmark.digest} = {plan.benchmark}

InForce(plan, kind) == Of(plan, kind) \subseteq Active

\* Calibrations and graders in force, in date and of one implementation, and not
\* all of them model judges.
GradersStand(plan) ==
  /\ \A c \in Of(plan, "calibration") :
       /\ c \in Active /\ c.from <= now /\ now < c.until
       /\ \E g \in Named("grader", c.key, c.key) : g.implementation = c.implementation
  /\ InForce(plan, "grader")
  /\ \E g \in Of(plan, "grader") : g.sort # "model-judge"

SuiteStands(plan) ==
  /\ InForce(plan, "suite")
  /\ \A s \in Of(plan, "suite") :
       /\ s.terms.class = plan.benchmark.class /\ Large(s.terms)
       /\ Named("suite-authority", s.key, s.authority) # {}

PolicyStands(plan) == InForce(plan, "baseline-policy")
\* Fault: the policy is not looked at again.
PolicyStandsUnread(plan) == TRUE

MetricsStand(plan) == InForce(plan, "metric") /\ InForce(plan, "grader")

Stands(plan, statement) ==
  CASE statement = "benchmark" -> BenchmarkStands(plan)
    [] statement = "graders"   -> GradersStand(plan)
    [] statement = "suite"     -> SuiteStands(plan)
    [] statement = "policy"    -> PolicyStands(plan)
    [] statement = "metrics"   -> MetricsStand(plan)

\* That the row repeats its plan is checked first; it always does.
Check(p) ==
  LET mine == service[p] IN
  /\ At(p, "insert") /\ mine.todo # <<>>
  /\ IF Stands(mine.plan, Head(mine.todo))
     THEN service' = [service EXCEPT ![p].todo = Tail(@)]
     ELSE Stop(p)
  /\ UNCHANGED <<released, revoked, now, evaluation>>

\* The insert does nothing when the key is taken.
Insert(plan) ==
  IF evaluation = Nil
  THEN evaluation' = [plan |-> plan, sealed |-> FALSE]
  ELSE UNCHANGED evaluation

\* The plan found under the key must be this one, its time included.
Register(p) ==
  LET plan == service[p].plan IN
  /\ At(p, "insert") /\ service[p].todo = <<>>
  /\ Insert(plan)
  /\ IF evaluation = Nil \/ evaluation.plan = plan
     THEN Stop(p)
     ELSE service' = [service EXCEPT ![p].step = "conflict"]
  /\ UNCHANGED <<released, revoked, now>>

(***************************************************************************)
(* The insert of the evidence                                              *)
(***************************************************************************)

\* The row of the run is locked, then the definitions still in force; that of the
\* suite's authority only beside its suite.
Lockable(plan) ==
  {d \in Names(plan) \cap Active : d.kind = "suite-authority" => InForce(plan, "suite")}

Lock(p) ==
  /\ At(p, "off") /\ evaluation # Nil
  /\ ~evaluation.sealed /\ \A q \in Service : ~At(q, "verify") /\ ~At(q, "commit")
  /\ service' = [service EXCEPT ![p] = [Idle EXCEPT
       !.step = "verify", !.plan = evaluation.plan, !.locked = Lockable(evaluation.plan)]]
  /\ UNCHANGED <<released, revoked, now, evaluation>>

Verify(p) ==
  LET plan == service[p].plan IN
  /\ At(p, "verify")
  /\ IF \A i \in DOMAIN Statements : Stands(plan, Statements[i])
     THEN service' = [service EXCEPT ![p].step = "commit"]
     ELSE Stop(p)
  /\ UNCHANGED <<released, revoked, now, evaluation>>

Commit(p) ==
  /\ At(p, "commit") /\ evaluation' = [evaluation EXCEPT !.sealed = TRUE] /\ Stop(p)
  /\ UNCHANGED <<released, revoked, now>>

\* A process dies, or its transaction is rolled back with its locks.
Crash(p) ==
  /\ ~At(p, "off") /\ Stop(p)
  /\ UNCHANGED <<released, revoked, now, evaluation>>

Next ==
  \/ Release \/ Revoke \/ Tick
  \/ \E p \in Service :
       \/ Plan(p) \/ Read(p) \/ Submit(p) \/ Check(p) \/ Register(p)
       \/ Lock(p) \/ Verify(p) \/ Commit(p) \/ Crash(p)

Spec == Init /\ [][Next]_vars

(***************************************************************************)
(* Properties.                                                             *)
(***************************************************************************)

\* The database and the service check a calibration and a suite each in its own
\* way, and agree: what is released can be read.
ReleasedIsReadable ==
  /\ \A c \in released : c.kind = "calibration" => CalibrationReadable(c)
  /\ \A s \in Active : s.kind = "suite" =>
       \A a \in Named("suite-authority", s.key, s.authority) : SuiteReadable(s, a)

\* A run registered rests on one coherent set of definitions, though they were
\* read one by one while others were released and revoked: a calibration in date
\* for the implementation of every grader, a suite under its authority, and more
\* than model judges.
PlanIsCoherent ==
  evaluation # Nil =>
    LET plan == evaluation.plan
        b == plan.benchmark
    IN  /\ \A i \in DOMAIN b.graders :
             \E g \in Of(plan, "grader"), c \in Of(plan, "calibration") :
               /\ g.key = b.graders[i] /\ c.key = g.key
               /\ c.implementation = g.implementation /\ c.from <= plan.at /\ plan.at < c.until
        /\ \A i \in DOMAIN b.metrics : \E m \in Of(plan, "metric") : m.key = b.metrics[i]
        /\ \E s \in Of(plan, "suite"), a \in Of(plan, "suite-authority") :
             s.rev = b.suite.rev /\ s.authority = a.rev /\ s.terms = a.terms
        /\ \E g \in Of(plan, "grader") : g.sort # "model-judge"

\* A run is registered on nothing that was revoked before its insert began, and its
\* evidence is sealed while every definition its plan names is in force: one
\* revoked while the seal is being checked waits for it.
SealedUnderAuthority ==
  /\ evaluation = Nil /\ evaluation' # Nil =>
       \E p \in Service : evaluation'.plan = service[p].plan /\ service[p].gone = {}
  /\ evaluation' # Nil /\ evaluation # evaluation' /\ evaluation # Nil =>
       Names(evaluation'.plan) \cap revoked' = {}

\* docs/work/items/VFBIZ-0156.md:37-38: a run resumes after its worker restarts.
\* The runner plans again when it does, and the plan it makes of the same
\* definitions at a later instant is refused as another one.
RestartResumes ==
  \A p \in Service : At(p, "conflict") => Names(service[p].plan) # Names(evaluation.plan)

=============================================================================
