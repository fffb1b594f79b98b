------------------------------ MODULE ModelMesh -----------------------------
(***************************************************************************)
(* The model mesh of a process: the calls made through a mesh, and the     *)
(* meshes it keeps.                                                        *)
(*                                                                         *)
(* Calls: concurrent ones try the deployments of one policy in the order   *)
(* of their priority, under a circuit breaker and a bulkhead per           *)
(* deployment and a budget per call.  A call is cut into steps where it    *)
(* awaits: for a permit of the bulkhead, for the provider, for the         *)
(* validator.  The lock of a circuit is never held over an await, so what  *)
(* is done under it is part of the step.                                   *)
(*                                                                         *)
(* Meshes: one per activation envelope.  A turn leases the mesh of the     *)
(* release it resolved, calls providers through it, resolves again before  *)
(* it commits and gives its lease back; past the limit the least recently  *)
(* used mesh nobody leases is closed.  The cache is changed under a lock;  *)
(* closing a mesh comes after it, and is seen by the turns that still use  *)
(* that mesh.                                                              *)
(***************************************************************************)
EXTENDS Naturals, Sequences, FiniteSets, SequencesExt, FiniteSetsExt

CONSTANTS
  Call,         \* calls under way at the same time
  Routes,       \* deployments, by priority 1..Routes
  CostOf,       \* the worst cost a deployment reserves
  MaxCost,      \* budget.max_cost_microusd of a call
  MaxAttempts,  \* budget.max_attempts
  Threshold,    \* failures in a row that open a circuit
  Permits,      \* max_concurrency of a deployment
  Turn,
  Envelope,
  Limit,        \* meshes kept, 8 in the code
  Nil

VARIABLES
  circuit,
  permits,  \* permits of each bulkhead that can be taken
  request,  \* what each call is doing
  cache,    \* the envelopes whose mesh is kept, least recently used first
  leases,
  turn,
  closed    \* the runtime was shut down

-----------------------------------------------------------------------------
(* Calls.                                                                  *)

callsVars == <<circuit, permits, request>>

\* The deployments of the policy that the request requires.
Route == 1..Routes
Over == {"answered", "unavailable", "over_budget", "failed", "cancelled"}

\* consecutive_failures matters up to the threshold only.
Circuit == [failures : 0..Threshold, open : {"no", "yes", "elapsed"}, probe : BOOLEAN]
\* committed is what the ledger of attempts counts, spent what providers did, in
\* all and at the last attempt; probing, whether the call was let in as a probe.
Request == [at : {"select", "waiting", "calling", "checking"} \cup Over,
            route : 1..(Routes + 1), attempts : 0..(MaxAttempts + 1),
            committed : Nat, last : Nat, spent : Nat, probing : BOOLEAN]

CallsTypeOK ==
  /\ circuit \in [Route -> Circuit] /\ permits \in [Route -> 0..Permits]
  /\ \A c \in Call : request[c] \in Request

New == [at |-> "select", route |-> 1, attempts |-> 0, committed |-> 0, last |-> 0,
        spent |-> 0, probing |-> FALSE]

Healthy == [failures |-> 0, open |-> "no", probe |-> FALSE]
Bulkheads == [r \in Route |-> Permits]

CallsInit ==
  /\ circuit = [r \in Route |-> Healthy] /\ permits = Bulkheads
  /\ request = [c \in Call |-> New]

At(c, at) == request[c].at = at
Goto(c, at) == request' = [request EXCEPT ![c].at = at]
Here(c) == request[c].route
InFlight(c) == request[c].at \in {"waiting", "calling", "checking"}

\* On to the next deployment.
NextRoute(c, committed) ==
  request' = [request EXCEPT ![c].at = "select", ![c].route = @ + 1,
                             ![c].committed = committed, ![c].last = 0]

Permitted(r) == circuit[r].open = "no" \/ (circuit[r].open = "elapsed" /\ ~circuit[r].probe)
TakesProbe(r) ==
  circuit' = [circuit EXCEPT ![r].probe = @ \/ circuit[r].open = "elapsed"]

\* _release_probe clears the flag whoever set it, and so do the two others.
ReleaseProbe(r) == circuit' = [circuit EXCEPT ![r].probe = FALSE]
\* Fault: a call that ends early keeps the probe it took.
KeepProbe(r) == UNCHANGED circuit

RecordSuccess(r) ==
  circuit' = [circuit EXCEPT ![r] = Healthy]

RecordFailure(r) ==
  LET failures == IF circuit[r].failures = Threshold THEN Threshold
                  ELSE circuit[r].failures + 1 IN
  circuit' = [circuit EXCEPT ![r] =
    [failures |-> failures, probe |-> FALSE,
     open |-> IF failures = Threshold THEN "yes" ELSE @.open]]

\* A call that is over makes room for another.
Start(c) ==
  /\ request[c].at \in Over /\ request' = [request EXCEPT ![c] = New]
  /\ UNCHANGED <<circuit, permits>>

\* The loop's head up to the call of the deployment: permission, attempts, the
\* estimate and the budget.
Affordable(c) == request[c].committed + CostOf[Here(c)] <= MaxCost
\* Fault: what earlier attempts may have cost is not counted.
AffordableAlone(c) == CostOf[Here(c)] <= MaxCost

Select(c) ==
  /\ At(c, "select") /\ Here(c) \in Route
  /\ LET r == Here(c) IN
     \/ ~Permitted(r) /\ NextRoute(c, request[c].committed) /\ UNCHANGED circuit
     \/ /\ Permitted(r) /\ request[c].attempts = MaxAttempts
        /\ ReleaseProbe(r) /\ Goto(c, "unavailable")
     \/ /\ Permitted(r) /\ request[c].attempts < MaxAttempts
        /\ \/ Affordable(c) /\ TakesProbe(r)
              /\ request' = [request EXCEPT ![c].at = "waiting", ![c].attempts = @ + 1,
                                            ![c].probing = circuit[r].open = "elapsed"]
           \/ ~Affordable(c) /\ ReleaseProbe(r) /\ Goto(c, "over_budget")
           \/ /\ ReleaseProbe(r)  \* the estimate failed
              /\ request' = [request EXCEPT ![c].at = "select", ![c].route = @ + 1,
                                            ![c].attempts = @ + 1]
  /\ UNCHANGED permits

Exhausted(c) ==
  /\ At(c, "select") /\ Here(c) \notin Route /\ Goto(c, "unavailable")
  /\ UNCHANGED <<circuit, permits>>

Take(r) == permits' = [permits EXCEPT ![r] = @ - 1]
Return(r) == permits' = [permits EXCEPT ![r] = @ + 1]
\* A permit granted in the turn of the loop in which its waiter gives up is returned
\* by nobody.
LostOrLeft(r) == UNCHANGED permits \/ (permits[r] > 0 /\ Take(r))

Enter(c) ==
  /\ At(c, "waiting") /\ permits[Here(c)] > 0
  /\ Take(Here(c)) /\ Goto(c, "calling") /\ UNCHANGED circuit

\* The deadline passes before a permit is there: no health matter of the provider.
Busy(c) ==
  /\ At(c, "waiting") /\ LostOrLeft(Here(c))
  /\ ReleaseProbe(Here(c)) /\ NextRoute(c, request[c].committed)

\* The deployment refuses the request, or its caller cancelled it by the signal.
Refuse(c) ==
  /\ At(c, "waiting") /\ LostOrLeft(Here(c))
  /\ ReleaseProbe(Here(c)) /\ Goto(c, "failed")

\* What a provider may have charged for a call that failed: up to all that was
\* reserved, which is what the mesh counts when the failure does not say.
MayCharge(c) == 0..CostOf[Here(c)]
Incurred(c) == CostOf[Here(c)]
\* What an answer says it cost; the adapter's own limit on tokens, which the
\* estimate uses, does not bind what the provider reports.
Usage(c) == 0..(CostOf[Here(c)] + 1)

\* The time is up, the transport broke, the provider is overloaded, or the adapter
\* raised something of its own: another deployment may be tried.
FailTransiently(c) ==
  /\ At(c, "calling") /\ Return(Here(c)) /\ RecordFailure(Here(c))
  /\ \E cost \in MayCharge(c) :
       request' = [request EXCEPT ![c].at = "select", ![c].route = @ + 1,
         ![c].committed = @ + Incurred(c), ![c].spent = @ + cost]

\* The provider rejects the request, or its response is too large, not well formed
\* or not of the approved model.
FailFinally(c) ==
  /\ At(c, "calling") /\ Return(Here(c)) /\ ReleaseProbe(Here(c))
  /\ \E cost \in MayCharge(c) :
       request' = [request EXCEPT ![c].at = "failed", ![c].spent = @ + cost]

Answer(c) ==
  /\ At(c, "calling") /\ Return(Here(c)) /\ UNCHANGED circuit
  /\ \E cost \in Usage(c) :
       request' = [request EXCEPT ![c].at = "checking", ![c].last = cost,
                                  ![c].spent = @ + cost]

\* Of a result: it is of this deployment and request, or not; the evidence supports
\* its claims, or not; or the validator breaks.
Verdict == {"sound", "of_another", "unsupported", "broken"}

WithinBudget(c) == request[c].committed + request[c].last <= MaxCost
\* Fault: only the last attempt is held against the budget.
WithinBudgetAlone(c) == request[c].last <= MaxCost

Check(c) ==
  /\ At(c, "checking") /\ UNCHANGED permits
  /\ \E verdict \in Verdict :
       IF verdict = "sound" /\ WithinBudget(c)
       THEN /\ RecordSuccess(Here(c))
            /\ request' = [request EXCEPT ![c].at = "answered", ![c].last = 0,
                                          ![c].committed = @ + request[c].last]
       ELSE ReleaseProbe(Here(c)) /\ Goto(c, "failed")

\* The task of the call is cancelled while it awaits.
Cancel(c) ==
  /\ InFlight(c) /\ ReleaseProbe(Here(c)) /\ Goto(c, "cancelled")
  /\ \/ At(c, "waiting") /\ LostOrLeft(Here(c))
     \/ At(c, "calling") /\ Return(Here(c))
     \/ At(c, "checking") /\ UNCHANGED permits

\* circuit_recovery_seconds pass.
Elapse(r) ==
  /\ circuit[r].open = "yes" /\ circuit' = [circuit EXCEPT ![r].open = "elapsed"]
  /\ UNCHANGED <<permits, request>>

CallsNext ==
  \/ \E c \in Call :
       \/ Start(c) \/ Select(c) \/ Exhausted(c) \/ Enter(c) \/ Busy(c) \/ Refuse(c)
       \/ FailTransiently(c) \/ FailFinally(c) \/ Answer(c) \/ Check(c) \/ Cancel(c)
  \/ \E r \in Route : Elapse(r)

CallsSpec == CallsInit /\ [][CallsNext]_callsVars

\* What a call counts covers what its providers may have charged, and an answer is
\* never given over the call's budget or attempts.
CostIsCovered ==
  \A c \in Call :
    /\ request[c].at \in {"answered", "unavailable", "over_budget"} =>
         request[c].spent <= request[c].committed /\ request[c].committed <= MaxCost
    /\ request[c].attempts <= MaxAttempts

\* No way out of a call leaves a probe behind: a deployment whose circuit has to
\* be probed always has the probe free or a call under way.
NoStrandedProbe ==
  \A r \in Route : circuit[r].probe => \E c \in Call : InFlight(c) /\ Here(c) = r

\* The permits that can be taken and those in use are never more than there are.
ConcurrencyBounded ==
  \A r \in Route :
    permits[r] + Cardinality({c \in Call : At(c, "calling") /\ Here(c) = r}) <= Permits

\* docs/inference-serving.md:63-64: on recovery exactly one half-open probe may
\* run.  A call let in before the circuit opened clears the flag of the probe.
ProbesAlone ==
  \A c, d \in Call :
    c # d /\ InFlight(c) /\ InFlight(d) /\ Here(c) = Here(d)
      => ~(request[c].probing /\ request[d].probing)

-----------------------------------------------------------------------------
(* Meshes.                                                                 *)

cacheVars == <<cache, leases, turn, closed>>

Kept == ToSet(cache)
\* mesh is "none", or whether the turn's transport can still be used.
Idle == [at |-> "idle", envelope |-> Nil, mesh |-> "none"]

CacheTypeOK ==
  /\ cache \in Seq(Envelope) /\ Len(cache) = Cardinality(Kept)
  /\ leases \in [Envelope -> 0..Cardinality(Turn)]
  /\ \A t \in Turn : turn[t].at \in {"idle", "retiring", "using", "ended"}

CacheInit ==
  /\ cache = <<>> /\ leases = [e \in Envelope |-> 0] /\ closed = FALSE
  /\ turn = [t \in Turn |-> Idle]

\* _retire_oldest_inactive, of what the cache and the leases have become.
Retirable(kept, held, excluded) ==
  {i \in DOMAIN kept : held[kept[i]] = 0 /\ kept[i] # excluded}
\* Fault: leases are not asked for.
RetirableAnyway(kept, held, excluded) == {i \in DOMAIN kept : kept[i] # excluded}

Retired(kept, held, excluded) ==
  LET candidates == Retirable(kept, held, excluded) IN
  IF Len(kept) <= Limit \/ candidates = {} THEN Nil
  ELSE kept[CHOOSE i \in candidates : \A j \in candidates : i <= j]

\* The mapping keeps an envelope once.
Position(kept, e) == CHOOSE i \in DOMAIN kept : kept[i] = e
Without(kept, e) == IF e \in ToSet(kept) THEN RemoveAt(kept, Position(kept, e)) ELSE kept

\* Every turn on the mesh that is closed loses its transport.
Losing(turns, e) ==
  [t \in Turn |-> IF turns[t].envelope = e /\ turns[t].mesh = "open"
                  THEN [turns[t] EXCEPT !.mesh = "closed"] ELSE turns[t]]

Moved(e) == Append(Without(cache, e), e)

\* _mesh_for with a lease, at the end of a resolution.
Resolve(t) ==
  /\ turn[t].at = "idle" /\ ~closed
  /\ \E e \in Envelope :
       LET held == [leases EXCEPT ![e] = @ + 1]
           evicted == IF e \in Kept THEN Nil ELSE Retired(Moved(e), held, e)
           taken == [turn EXCEPT ![t] = [at |-> "using", envelope |-> e, mesh |-> "open"]]
       IN /\ leases' = held /\ cache' = Without(Moved(e), evicted)
          /\ IF evicted = Nil THEN turn' = taken
             \* Closing the evicted mesh is awaited before the lease is handed over.
             ELSE turn' = Losing([taken EXCEPT ![t].at = "retiring"], evicted)
  /\ UNCHANGED closed

\* The turn gets its mesh; cancelled while it waits for another to close, it ends
\* without knowing of the lease that was counted for it.
Retire(t) ==
  /\ turn[t].at = "retiring"
  /\ \E at \in {"using", "ended"} :
       turn' = [turn EXCEPT ![t] = IF at = "using" THEN [@ EXCEPT !.at = at]
                                   ELSE [Idle EXCEPT !.at = at]]
  /\ UNCHANGED <<cache, leases, closed>>

\* assert_current resolves without a lease: it may add a mesh nobody uses, and
\* drops another, or that one, for it.
AssertCurrent(t) ==
  /\ turn[t].at = "using" /\ ~closed
  /\ \E e \in Envelope :
       LET evicted == IF e \in Kept THEN Nil ELSE Retired(Moved(e), leases, Nil) IN
       /\ cache' = Without(Moved(e), evicted) /\ turn' = Losing(turn, evicted)
  /\ UNCHANGED <<leases, closed>>

GivenBack(e) == [leases EXCEPT ![e] = IF @ > 0 THEN @ - 1 ELSE 0]

\* The turn's runtime is closed, whatever came of it.
Release(t) ==
  /\ turn[t].at = "using"
  /\ LET e == turn[t].envelope
         held == GivenBack(e)
         retired == Retired(cache, held, Nil)
     IN /\ leases' = held /\ cache' = Without(cache, retired)
        /\ turn' = Losing([turn EXCEPT ![t] = Idle], retired)
  /\ UNCHANGED closed

\* Shutdown closes every mesh, leased or not.
Close ==
  /\ ~closed /\ closed' = TRUE
  /\ cache' = <<>> /\ leases' = [e \in Envelope |-> 0]
  /\ turn' = [t \in Turn |-> IF turn[t].mesh = "open"
                             THEN [turn[t] EXCEPT !.mesh = "closed"] ELSE turn[t]]

CacheNext ==
  \/ \E t \in Turn : Resolve(t) \/ Retire(t) \/ AssertCurrent(t) \/ Release(t)
  \/ Close

CacheSpec == CacheInit /\ [][CacheNext]_cacheVars

\* Until the process shuts down no turn's mesh is closed under it, and every turn
\* of an envelope shares the one that is kept.
TurnKeepsMesh ==
  ~closed => \A t \in Turn :
    turn[t].at \in {"retiring", "using"} => turn[t].mesh = "open" /\ turn[t].envelope \in Kept

\* The cache outgrows its limit only by meshes that are leased.
CacheBounded ==
  Len(cache) > Limit => Len(cache) - Limit <= Cardinality({e \in Kept : leases[e] > 0})

=============================================================================
