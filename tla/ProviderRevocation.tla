------------------------- MODULE ProviderRevocation -------------------------
(***************************************************************************)
(* Revocation of refresh tokens at Keycloak after a logout in the customer *)
(* portal: one direct attempt, then a queue in Redis that a worker drains  *)
(* under a lease, with a bounded number of attempts and a last record of   *)
(* what could not be revoked.                                              *)
(*                                                                         *)
(* The delays between attempts are abstracted to "later": a queued task    *)
(* may be due at any poll.  The seven days after which a task is given up  *)
(* and the seven days its data live are one event, Age.                    *)
(***************************************************************************)
EXTENDS Naturals

CONSTANTS
  Task,         \* refresh tokens of ended sessions
  Drainer,      \* workers of the reconciliation route
  MaxAttempts,  \* MAX_RETRY_ATTEMPTS
  MaxLapses,    \* bound on the leases that lapse
  Nil

VARIABLES
  status,   \* new, confirmed, unqueued, queued, completed, terminal or lost
  attempts, \* the attempts recorded with a queued task
  aged,     \* tasks older than MAX_RETRY_AGE
  revoked,  \* EXTERNAL: the tokens Keycloak has revoked
  calls,    \* calls made to Keycloak for a queued task
  lease,    \* the drainer that holds the lease, or Nil
  drainer,  \* what a drainer does next
  lapses    \* leases that lapsed

vars == <<status, attempts, aged, revoked, calls, lease, drainer, lapses>>
tasks == <<status, attempts, aged>>

Status == {"new", "confirmed", "unqueued", "queued", "completed", "terminal", "lost"}
Step == {"idle", "read", "loop", "call", "decide", "release"}
Snapshot == [task : Task, attempts : 0..MaxAttempts, aged : BOOLEAN]
Drain == [step : Step, todo : SUBSET Snapshot, current : Snapshot \cup {Nil},
          answer : BOOLEAN]
Idle == [step |-> "idle", todo |-> {}, current |-> Nil, answer |-> FALSE]

TypeOK ==
  /\ status \in [Task -> Status]
  /\ attempts \in [Task -> 0..MaxAttempts]
  /\ aged \subseteq Task /\ revoked \subseteq Task
  /\ calls \in [Task -> Nat]
  /\ lease \in Drainer \cup {Nil}
  /\ drainer \in [Drainer -> Drain]
  /\ lapses \in 0..MaxLapses

Init ==
  /\ status = [t \in Task |-> "new"] /\ attempts = [t \in Task |-> 0]
  /\ aged = {} /\ revoked = {} /\ calls = [t \in Task |-> 0]
  /\ lease = Nil /\ drainer = [d \in Drainer |-> Idle] /\ lapses = 0

\* Keycloak revokes the token and says so, revokes it and the answer is lost, or
\* does not revoke it.
Revoke(t, answer) ==
  \/ revoked' = revoked \cup {t}
  \/ ~answer /\ UNCHANGED revoked

(***************************************************************************)
(* revokeOrEnqueueProviderToken: confirmed, pending, or retry_required     *)
(* when Redis refused the task.                                            *)
(***************************************************************************)
RevokeOrEnqueue(t, answer) ==
  /\ status[t] = "new"
  /\ Revoke(t, answer)
  /\ \E s \in IF answer THEN {"confirmed"} ELSE {"queued", "unqueued"} :
       status' = [status EXCEPT ![t] = s]
  /\ UNCHANGED <<attempts, aged, calls, lease, drainer, lapses>>

(***************************************************************************)
(* One drain: the lease, the tasks that are due, then each task in turn.   *)
(***************************************************************************)
AcquireLease(d) ==
  /\ drainer[d].step = "idle" /\ lease = Nil
  /\ lease' = d
  /\ drainer' = [drainer EXCEPT ![d].step = "read"]
  /\ UNCHANGED <<tasks, revoked, calls, lapses>>

Due(t) == [task |-> t, attempts |-> attempts[t], aged |-> t \in aged]
\* readDueProviderRevocations; the entry of a task whose data expired is removed.
ReadDue(d, due) ==
  /\ drainer[d].step = "read"
  /\ due \subseteq {t \in Task : status[t] = "queued"}
  /\ drainer' = [drainer EXCEPT ![d].step = "loop", ![d].todo = {Due(t) : t \in due}]
  /\ UNCHANGED <<tasks, revoked, calls, lease, lapses>>

Stop(d) == drainer' = [drainer EXCEPT ![d] = [Idle EXCEPT !.step = "release"]]
Continue(d) == drainer' = [drainer EXCEPT ![d] = [Idle EXCEPT !.step = "loop", !.todo = drainer[d].todo]]
Leave(t, s) == status' = [status EXCEPT ![t] = s]

\* Renew the lease, then give the task up or call Keycloak for it.
Take(d, x) ==
  /\ drainer[d].step = "loop" /\ x \in drainer[d].todo
  /\ IF lease # d THEN Stop(d)
     ELSE drainer' = [drainer EXCEPT
            ![d].step = IF x.attempts >= MaxAttempts \/ x.aged THEN "decide" ELSE "call",
            ![d].todo = @ \ {x}, ![d].current = x, ![d].answer = FALSE]
  /\ UNCHANGED <<tasks, revoked, calls, lease, lapses>>

CallProvider(d, answer) ==
  /\ drainer[d].step = "call"
  /\ Revoke(drainer[d].current.task, answer)
  /\ calls' = [calls EXCEPT ![drainer[d].current.task] = @ + 1]
  /\ drainer' = [drainer EXCEPT ![d].step = "decide", ![d].answer = answer]
  /\ UNCHANGED <<tasks, lease, lapses>>

\* completeProviderRevocation, abandonProviderRevocation and
\* rescheduleProviderRevocation: each script first checks the lease.  A task
\* given up because of its age or attempts was not called for.
Decide(d) ==
  /\ drainer[d].step = "decide"
  /\ LET x == drainer[d].current
         t == x.task
     IN  IF lease # d THEN Stop(d) /\ UNCHANGED tasks
         ELSE \/ /\ drainer[d].answer
                 /\ Leave(t, "completed") /\ Continue(d) /\ UNCHANGED <<attempts, aged>>
              \/ /\ ~drainer[d].answer /\ (x.aged \/ x.attempts + 1 >= MaxAttempts)
                 /\ Leave(t, "terminal") /\ Continue(d) /\ UNCHANGED <<attempts, aged>>
              \/ /\ ~drainer[d].answer /\ ~x.aged /\ x.attempts + 1 < MaxAttempts
                 /\ IF status[t] = "queued"
                    THEN /\ attempts' = [attempts EXCEPT ![t] = x.attempts + 1]
                         /\ Continue(d)
                    ELSE UNCHANGED attempts /\ Stop(d)
                 /\ UNCHANGED <<status, aged>>
  /\ UNCHANGED <<revoked, calls, lease, lapses>>

EndLoop(d) ==
  /\ drainer[d].step = "loop" /\ drainer[d].todo = {}
  /\ Stop(d)
  /\ UNCHANGED <<tasks, revoked, calls, lease, lapses>>

ReleaseLease(d) ==
  /\ drainer[d].step = "release"
  /\ lease' = IF lease = d THEN Nil ELSE lease
  /\ drainer' = [drainer EXCEPT ![d] = Idle]
  /\ UNCHANGED <<tasks, revoked, calls, lapses>>

(***************************************************************************)
(* Time: the lease of a slow drainer lapses; a task grows old, and then    *)
(* its data may expire before a drain sees its age.                        *)
(***************************************************************************)
LapseLease ==
  /\ lease # Nil /\ lapses < MaxLapses
  /\ lease' = Nil /\ lapses' = lapses + 1
  /\ UNCHANGED <<tasks, revoked, calls, drainer>>

Age(t) ==
  /\ status[t] = "queued" /\ t \notin aged
  /\ aged' = aged \cup {t}
  /\ UNCHANGED <<status, attempts, revoked, calls, lease, drainer, lapses>>

ExpireData(t) ==
  /\ status[t] = "queued" /\ t \in aged
  /\ Leave(t, "lost")
  /\ UNCHANGED <<attempts, aged, revoked, calls, lease, drainer, lapses>>

DrainStep(d) ==
  \/ AcquireLease(d) \/ EndLoop(d) \/ ReleaseLease(d) \/ Decide(d)
  \/ \E due \in SUBSET Task : ReadDue(d, due)
  \/ \E x \in drainer[d].todo : Take(d, x)
  \/ \E answer \in BOOLEAN : CallProvider(d, answer)

Next ==
  \/ \E t \in Task : \/ \E answer \in BOOLEAN : RevokeOrEnqueue(t, answer)
                     \/ Age(t) \/ ExpireData(t)
  \/ \E d \in Drainer : DrainStep(d)
  \/ LapseLease

Spec == Init /\ [][Next]_vars

(***************************************************************************)
(* Properties.                                                             *)
(***************************************************************************)

\* A task leaves the queue as completed only when Keycloak revoked its token, and
\* is given up only after its attempts are used or its days are over.
NoRevocationDropped ==
  \A t \in Task :
    /\ status[t] \in {"confirmed", "completed"} => t \in revoked
    /\ status[t] = "terminal" => t \in aged \/ attempts[t] + 1 >= MaxAttempts
    /\ status[t] = "lost" => t \in aged

\* Keycloak is called once per recorded attempt: only a drainer that lost its
\* lease after the call leaves a call unrecorded.
CallsBounded == \A t \in Task : calls[t] <= MaxAttempts + lapses

\* What a drain decided about a task is final: a drainer that lost its lease does
\* not bring a settled task back, nor settle it differently.
SettledTaskStays ==
  [][\A t \in Task : status[t] \in {"completed", "terminal"} => status'[t] = status[t]]_vars

=============================================================================
