---------------------------- MODULE SessionProofs ----------------------------
(***************************************************************************)
(* What the session stores promise, for every number of sessions, requests *)
(* and drainers and every limit.  Each section takes one store up: the     *)
(* invariant its steps preserve, the lemmas on its operators, and what     *)
(* follows from them.  The last section puts the stores together, which    *)
(* share no state, and proves the properties of MCSessions.                *)
(***************************************************************************)
EXTENDS MCSessions, FiniteSetTheorems, SequenceTheorems, TLAPS


-----------------------------------------------------------------------------
(* The API's projection of an access session and its revocation.           *)

\* A request that claimed the revocation and has not recorded its outcome.
AtProvider(c) == call[c].step \in {"dispatch", "complete"}
\* A row whose revocation was asked for is revoked, and it says confirmed only if
\* Keycloak did confirm.
RowTellsTruth ==
  row # Nil =>
    /\ row.state # "none" => row.revoked
    /\ row.state = "confirmed" => confirmed
\* What a request remembers of the row is what the row still says, by the version
\* its claim wrote.
CallsFollowRow ==
  \A c \in Process :
    /\ call[c].step = "claim" => row # Nil /\ call[c].state \in {"none", "retry_required"}
    /\ AtProvider(c) =>
         row # Nil /\ row.state = "pending" /\ row.version = call[c].version
    /\ call[c].step = "complete" => call[c].state \in Access!Answer
    /\ call[c].step = "complete" /\ call[c].state = "confirmed" => confirmed
\* The compare-and-set of the claim lets one request at a time to the provider.
OneAtProvider == \A c, d \in Process : AtProvider(c) /\ AtProvider(d) => c = d
AccessInv == Access!TypeOK /\ RowTellsTruth /\ CallsFollowRow /\ OneAtProvider

\* A request at rest is a row of the calls in flight.
LEMMA CallIdle == ASSUME AccessConstants PROVE Access!Idle \in Access!CallRow
BY DEF AccessConstants, Access!Idle, Access!CallRow, Access!State

\* Every transaction of the projection, and every answer of Keycloak, keeps the
\* types, and a row once written stays a row.
LEMMA AccessTypesStep ==
  ASSUME AccessConstants, AccessInv, [Access!Next]_accessVars
  PROVE  Access!TypeOK' /\ (row # Nil => row' \in Access!Row)
<1>0. row \in Access!Row \cup {Nil} /\ call \in [Process -> Access!CallRow] /\ confirmed \in BOOLEAN
  BY DEF AccessInv, Access!TypeOK
<1>i. Access!Idle \in Access!CallRow
  BY CallIdle
<1>c. MaxVersion \in Nat /\ MaxRevision \in Nat /\ Nil \notin Access!Row
  BY DEF AccessConstants
<1>m. ASSUME NEW c \in Process, NEW x \in Access!CallRow
      PROVE [call EXCEPT ![c] = x] \in [Process -> Access!CallRow]
  BY <1>0
<1>1. ASSUME NEW v \in 1..MaxRevision, NEW gone \in BOOLEAN, NEW known \in BOOLEAN,
             Access!Reconcile(v, gone, known)
      PROVE Access!TypeOK' /\ (row # Nil => row' \in Access!Row)
  <2>1. CASE row = Nil
    <3>1. row' = [state |-> "none", revoked |-> gone, expired |-> FALSE, version |-> 0,
                  revision |-> v, reference |-> known]
      BY <1>1, <2>1 DEF Access!Reconcile
    <3>2. row' \in Access!Row
      BY <1>c, <3>1 DEF Access!Row, Access!State
    <3> QED BY <1>0, <1>1, <3>2 DEF Access!TypeOK, Access!Reconcile
  <2>2. CASE row # Nil
    <3>1. row' = [row EXCEPT !.revision = v, !.revoked = gone, !.reference = known]
      BY <1>1, <2>2 DEF Access!Reconcile
    <3>2. row' \in Access!Row
      BY <1>0, <2>2, <3>1 DEF Access!Row
    <3> QED BY <1>0, <1>1, <3>2 DEF Access!TypeOK, Access!Reconcile
  <2> QED BY <2>1, <2>2
<1>2. CASE Access!Expire
  BY <1>0, <1>2, <1>c DEF Access!TypeOK, Access!Expire, Access!Row
<1>3. CASE Access!RevokeCurrent \/ Access!RevokeAll
  <2>1. PICK state \in Access!State : Access!RevokeLocally(state)
    BY <1>3 DEF Access!RevokeCurrent, Access!RevokeAll, Access!State
  <2>2. row' = [row EXCEPT !.revoked = TRUE, !.state = state, !.version = row.version + 1]
    BY <2>1 DEF Access!RevokeLocally
  <2>3. row \in Access!Row /\ row.version + 1 \in 0..MaxVersion
    BY <1>0, <1>c, <2>1 DEF Access!RevokeLocally, Access!Row
  <2>4. row' \in Access!Row
    BY <2>2, <2>3 DEF Access!Row
  <2> QED BY <1>0, <2>1, <2>4 DEF Access!TypeOK, Access!RevokeLocally
<1>4. ASSUME NEW c \in Process, Access!ReadRow(c) PROVE Access!TypeOK' /\ (row # Nil => row' \in Access!Row)
  <2> DEFINE x == [step |-> "claim", state |-> row.state,
                   version |-> row.version, reference |-> row.reference]
  <2>1. x \in Access!CallRow
    BY <1>0, <1>4, <1>c DEF Access!ReadRow, Access!Row, Access!CallRow
  <2> QED BY <1>0, <1>4, <1>m, <2>1 DEF Access!TypeOK, Access!ReadRow
<1>5. ASSUME NEW c \in Process, Access!Claim(c) PROVE Access!TypeOK' /\ (row # Nil => row' \in Access!Row)
  <2>1. row # Nil /\ row \in Access!Row /\ call[c] \in Access!CallRow
    BY <1>0, <1>5 DEF AccessInv, CallsFollowRow, Access!Claim
  <2>2. row.version + 1 \in 0..MaxVersion
    BY <1>5, <1>c, <2>1 DEF Access!Claim, Access!Row
  <2>3. row' \in Access!Row
    BY <1>5, <2>1, <2>2 DEF Access!Claim, Access!Row, Access!State
  <2>4. [call[c] EXCEPT !.step = "dispatch", !.version = row.version + 1] \in Access!CallRow
    BY <2>1, <2>2 DEF Access!CallRow
  <2>5. call' \in [Process -> Access!CallRow]
    BY <1>0, <1>5, <1>i, <2>4 DEF Access!Claim
  <2> QED BY <1>0, <1>5, <2>3, <2>5 DEF Access!TypeOK, Access!Claim
<1>6. ASSUME NEW c \in Process, Access!Dispatch(c) PROVE Access!TypeOK' /\ (row # Nil => row' \in Access!Row)
  <2>1. PICK answer \in Access!Answer :
          call' = [call EXCEPT ![c] = [call[c] EXCEPT !.step = "complete", !.state = answer]]
    BY <1>0, <1>6 DEF Access!Dispatch
  <2>2. [call[c] EXCEPT !.step = "complete", !.state = answer] \in Access!CallRow
    BY <1>0 DEF Access!CallRow, Access!Answer, Access!State
  <2>3. confirmed' \in BOOLEAN /\ row' = row
    BY <1>0, <1>6 DEF Access!Dispatch
  <2> QED BY <1>0, <1>m, <2>1, <2>2, <2>3 DEF Access!TypeOK
<1>7. ASSUME NEW c \in Process, Access!Complete(c) PROVE Access!TypeOK' /\ (row # Nil => row' \in Access!Row)
  <2>1. row' \in Access!Row
    BY <1>0, <1>7 DEF Access!Complete, Access!Row, Access!CallRow, AccessInv, CallsFollowRow, AtProvider
  <2> QED BY <1>0, <1>7, <1>i, <1>m, <2>1 DEF Access!TypeOK, Access!Complete
<1>8. ASSUME NEW c \in Process, Access!Crash(c) PROVE Access!TypeOK' /\ (row # Nil => row' \in Access!Row)
  BY <1>0, <1>8, <1>i, <1>m DEF Access!TypeOK, Access!Crash
<1>9. CASE UNCHANGED accessVars
  BY <1>0, <1>9 DEF accessVars, Access!TypeOK
<1> QED BY <1>1, <1>2, <1>3, <1>4, <1>5, <1>6, <1>7, <1>8, <1>9 DEF Access!Next

\* Every step keeps the invariant: the claim finds the row free and leaves it
\* pending in a version of its own, which only its completion moves on.
LEMMA AccessStep ==
  ASSUME AccessConstants, AccessInv, [Access!Next]_accessVars
  PROVE  AccessInv'
<1>0. /\ row \in Access!Row \cup {Nil} /\ call \in [Process -> Access!CallRow]
      /\ confirmed \in BOOLEAN /\ Nil \notin Access!Row
  BY DEF AccessInv, Access!TypeOK, AccessConstants
<1>h. RowTellsTruth /\ CallsFollowRow /\ OneAtProvider
  BY DEF AccessInv
<1>t. Access!TypeOK' /\ (row # Nil => row' \in Access!Row)
  BY AccessTypesStep
<1>i. Access!Idle.step = "idle"
  BY DEF Access!Idle
<1> SUFFICES RowTellsTruth' /\ CallsFollowRow' /\ OneAtProvider'
  BY <1>t DEF AccessInv
<1> USE DEF RowTellsTruth, CallsFollowRow, OneAtProvider, AtProvider
<1>1. ASSUME NEW v \in 1..MaxRevision, NEW gone \in BOOLEAN, NEW known \in BOOLEAN,
             Access!Reconcile(v, gone, known)
      PROVE  RowTellsTruth' /\ CallsFollowRow' /\ OneAtProvider'
  <2>1. call' = call /\ confirmed' = confirmed
    BY <1>1 DEF Access!Reconcile
  <2>2. CASE row = Nil
    <3>1. row'.state = "none"
      BY <1>1, <2>2 DEF Access!Reconcile
    <3>2. \A c \in Process : call[c].step # "claim" /\ ~AtProvider(c)
      BY <1>h, <2>2
    <3> QED BY <1>h, <2>1, <3>1, <3>2
  <2>3. CASE row # Nil
    <3>1. row' = [row EXCEPT !.revision = v, !.revoked = gone, !.reference = known] /\ ~row.revoked
      BY <1>1, <2>3 DEF Access!Reconcile
    <3>2. row' \in Access!Row /\ row'.state = row.state /\ row'.version = row.version
      BY <1>0, <2>3, <3>1 DEF Access!Row
    <3>3. row.state = "none"
      BY <1>h, <2>3, <3>1
    <3> QED BY <1>0, <1>h, <2>1, <2>3, <3>2, <3>3
  <2> QED BY <2>2, <2>3
<1>2. CASE Access!Expire
  <2>1. row' \in Access!Row /\ row # Nil /\ row'.state = row.state /\ row'.version = row.version
        /\ row'.revoked = row.revoked
    BY <1>0, <1>2 DEF Access!Expire, Access!Row
  <2> QED BY <1>0, <1>2, <1>h, <2>1 DEF Access!Expire
<1>3. CASE Access!RevokeCurrent \/ Access!RevokeAll
  <2>1. PICK state \in {"manual_review_required", "pending"} : Access!RevokeLocally(state)
    BY <1>3 DEF Access!RevokeCurrent, Access!RevokeAll
  <2>2. row # Nil /\ row.state = "none"
    BY <1>h, <2>1 DEF Access!RevokeLocally
  <2>3. row' \in Access!Row /\ row'.revoked /\ row'.state = state
    BY <1>t, <1>0, <2>1, <2>2 DEF Access!RevokeLocally, Access!TypeOK, Access!Row
  <2>4. row' # Nil /\ call' = call /\ confirmed' = confirmed
    BY <1>0, <2>1, <2>3 DEF Access!RevokeLocally
  <2> QED BY <1>h, <2>2, <2>3, <2>4
<1>4. ASSUME NEW c \in Process, Access!ReadRow(c)
      PROVE  RowTellsTruth' /\ CallsFollowRow' /\ OneAtProvider'
  BY <1>0, <1>4, <1>h DEF Access!ReadRow
<1>5. ASSUME NEW c \in Process, Access!Claim(c)
      PROVE  RowTellsTruth' /\ CallsFollowRow' /\ OneAtProvider'
  <2>1. row # Nil /\ row \in Access!Row /\ call[c].state \in {"none", "retry_required"}
    BY <1>0, <1>5, <1>h DEF Access!Claim
  <2>2. CASE ~Access!AsRead(c)
    BY <1>0, <1>5, <1>h, <1>i, <2>2 DEF Access!Claim
  <2>3. CASE Access!AsRead(c)
    <3>1. row.state # "pending" /\ \A d \in Process : ~AtProvider(d)
      BY <1>h, <2>1, <2>3 DEF Access!AsRead
    <3>2. confirmed' = confirmed
      BY <1>5 DEF Access!Claim
    <3>3. CASE call[c].reference
      <4>1. row' = [row EXCEPT !.version = row.version + 1, !.revoked = TRUE, !.state = "pending"]
        BY <1>5, <2>3, <3>3 DEF Access!Claim
      <4>2. row' # Nil /\ row'.revoked /\ row'.state = "pending" /\ row'.version = row.version + 1
        BY <1>0, <1>t, <2>1, <4>1 DEF Access!Row, Access!TypeOK
      <4>3. call' = [call EXCEPT ![c] = [call[c] EXCEPT !.step = "dispatch",
                                                        !.version = row.version + 1]]
        BY <1>5, <2>3, <3>3 DEF Access!Claim
      <4>4. call'[c].step = "dispatch" /\ call'[c].version = row.version + 1
        BY <1>0, <4>3 DEF Access!CallRow
      <4> QED BY <1>0, <1>h, <2>1, <3>1, <3>2, <4>2, <4>3, <4>4
    <3>4. CASE ~call[c].reference
      <4>1. row' = [row EXCEPT !.version = row.version + 1, !.revoked = TRUE,
                               !.state = "manual_review_required"]
        BY <1>5, <2>3, <3>4 DEF Access!Claim
      <4>2. row' # Nil /\ row'.revoked /\ row'.state = "manual_review_required"
        BY <1>0, <1>t, <2>1, <4>1 DEF Access!Row, Access!TypeOK
      <4>3. call' = [call EXCEPT ![c] = Access!Idle]
        BY <1>5, <2>3, <3>4 DEF Access!Claim
      <4> QED BY <1>0, <1>h, <1>i, <3>1, <3>2, <4>2, <4>3
    <3> QED BY <3>3, <3>4
  <2> QED BY <2>2, <2>3
<1>6. ASSUME NEW c \in Process, Access!Dispatch(c)
      PROVE  RowTellsTruth' /\ CallsFollowRow' /\ OneAtProvider'
  <2>1. PICK answer \in Access!Answer :
          /\ call' = [call EXCEPT ![c] = [call[c] EXCEPT !.step = "complete", !.state = answer]]
          /\ answer = "confirmed" => confirmed'
    BY <1>0, <1>6 DEF Access!Dispatch
  <2>2. /\ call'[c].step = "complete" /\ call'[c].state = answer
        /\ call'[c].version = call[c].version
        /\ \A d \in Process \ {c} : call'[d] = call[d]
    BY <1>0, <2>1 DEF Access!CallRow
  <2>3. row' = row /\ (confirmed => confirmed') /\ call[c].step = "dispatch"
    BY <1>0, <1>6 DEF Access!Dispatch
  <2> QED BY <1>0, <1>h, <2>1, <2>2, <2>3
<1>7. ASSUME NEW c \in Process, Access!Complete(c)
      PROVE  RowTellsTruth' /\ CallsFollowRow' /\ OneAtProvider'
  <2>1. row # Nil /\ row \in Access!Row /\ row.state = "pending"
        /\ row.version = call[c].version /\ row.revoked
    BY <1>0, <1>7, <1>h DEF Access!Complete
  <2>2. row' = [row EXCEPT !.state = call[c].state]
    BY <1>7, <2>1 DEF Access!Complete
  <2>3. row' # Nil /\ row'.state = call[c].state /\ row'.revoked = row.revoked
    BY <1>0, <1>t, <2>1, <2>2 DEF Access!Row, Access!TypeOK
  <2>4. \A d \in Process \ {c} : ~AtProvider(d)
    BY <1>7, <1>h DEF Access!Complete
  <2>5. call' = [call EXCEPT ![c] = Access!Idle] /\ confirmed' = confirmed
        /\ (call[c].state = "confirmed" => confirmed)
    BY <1>7, <1>h DEF Access!Complete
  <2> QED BY <1>0, <1>h, <1>i, <2>1, <2>3, <2>4, <2>5
<1>8. ASSUME NEW c \in Process, Access!Crash(c)
      PROVE  RowTellsTruth' /\ CallsFollowRow' /\ OneAtProvider'
  BY <1>0, <1>8, <1>h, <1>i DEF Access!Crash
<1>9. CASE UNCHANGED accessVars
  BY <1>h, <1>9 DEF accessVars
<1> QED BY <1>1, <1>2, <1>3, <1>4, <1>5, <1>6, <1>7, <1>8, <1>9 DEF Access!Next

\* The invariant of the projection holds in every reachable state.
THEOREM AccessInvariance == ASSUME AccessConstants PROVE Access!Spec => []AccessInv
<1>1. Access!Init => AccessInv
  <2> SUFFICES ASSUME Access!Init PROVE AccessInv
    OBVIOUS
  <2>1. Access!TypeOK
    BY CallIdle DEF Access!Init, Access!TypeOK
  <2>2. RowTellsTruth /\ CallsFollowRow /\ OneAtProvider
    BY DEF Access!Init, RowTellsTruth, CallsFollowRow, OneAtProvider, AtProvider, Access!Idle
  <2> QED BY <2>1, <2>2 DEF AccessInv
<1>2. AccessInv /\ [Access!Next]_accessVars => AccessInv'
  BY AccessStep
<1> QED BY <1>1, <1>2, PTL DEF Access!Spec, Access!vars, accessVars

\* A revocation is with Keycloak in one request at a time, and a row says confirmed
\* only after Keycloak revoked the session (claimProviderRevocation and
\* completeProviderRevocation of the access session repository).
THEOREM OneRevocationAtATime ==
  ASSUME AccessConstants
  PROVE  Access!Spec => [](Access!OneDispatchAtATime /\ Access!ConfirmedWasRevoked)
<1>1. AccessInv => Access!OneDispatchAtATime /\ Access!ConfirmedWasRevoked
  <2> SUFFICES ASSUME AccessInv PROVE Access!OneDispatchAtATime /\ Access!ConfirmedWasRevoked
    OBVIOUS
  <2> DEFINE at == {c \in Process : call[c].step \in {"dispatch", "complete"}}
  <2>1. \A c, d \in at : c = d
    BY DEF AccessInv, OneAtProvider, AtProvider
  <2>3. \A c \in at : row.state = "pending" /\ row.version = call[c].version
    BY DEF AccessInv, CallsFollowRow, AtProvider
  <2>4. Access!OneDispatchAtATime
    BY <2>1, <2>3 DEF Access!OneDispatchAtATime
  <2>5. Access!ConfirmedWasRevoked
    BY DEF Access!ConfirmedWasRevoked, AccessInv, RowTellsTruth
  <2> QED BY <2>4, <2>5
<1> QED BY <1>1, AccessInvariance, PTL

\* An observation of the provider does not bring a revoked session back, nor does it
\* change the revision the session was revoked at.
THEOREM RevokedSessionStays ==
  ASSUME AccessConstants PROVE Access!Spec => Access!RevokedStaysRevoked
<1> DEFINE Kept == row # Nil /\ row.revoked => row'.revoked /\ row'.revision = row.revision
<1>1. AccessInv /\ [Access!Next]_accessVars => [Kept]_accessVars
  <2> SUFFICES ASSUME AccessInv, Access!Next, row # Nil, row.revoked
               PROVE  row'.revoked /\ row'.revision = row.revision
    OBVIOUS
  <2>1. row \in Access!Row
    BY DEF AccessInv, Access!TypeOK
  <2> QED
    BY <2>1 DEF Access!Next, Access!Reconcile, Access!Expire, Access!RevokeCurrent, Access!RevokeAll,
      Access!RevokeLocally, Access!ReadRow, Access!Claim, Access!Dispatch, Access!Complete,
      Access!Crash, Access!Row
<1> QED BY <1>1, AccessInvariance, PTL DEF Access!Spec, Access!vars, accessVars, Access!RevokedStaysRevoked

\* The projection implements SessionLifecycle: what is revoked or expired stays so.
THEOREM AccessRefinesLifecycle ==
  ASSUME AccessConstants PROVE Access!Spec => AccessLifecycle!Spec
<1> DEFINE stageOf ==
      IF row = Nil THEN "new" ELSE IF row.revoked \/ row.expired THEN "ended" ELSE "live"
<1>1. Access!Init => AccessLifecycle!Init
  BY DEF Access!Init, AccessLifecycle!Init
<1>2. ASSUME AccessInv, Access!Next
      PROVE  \/ stageOf' = stageOf
             \/ stageOf = "new" /\ stageOf' \in {"live", "ended"}
             \/ stageOf = "live" /\ stageOf' = "ended"
  <2>1. row # Nil => row' \in Access!Row
    BY <1>2, AccessTypesStep
  <2>2. row \in Access!Row \cup {Nil} /\ Nil \notin Access!Row
    BY <1>2 DEF AccessInv, Access!TypeOK, AccessConstants
  <2>3. CASE row = Nil
    BY <2>3
  <2>4. CASE row # Nil /\ stageOf = "ended"
    <3>1. row' # Nil /\ (row.revoked => row'.revoked) /\ (row.expired => row'.expired)
      BY <1>2, <2>1, <2>2, <2>4
         DEF Access!Next, Access!Reconcile, Access!Expire, Access!RevokeCurrent, Access!RevokeAll,
      Access!RevokeLocally, Access!ReadRow, Access!Claim, Access!Dispatch, Access!Complete,
      Access!Crash, Access!Row
    <3> QED BY <2>4, <3>1
  <2>5. CASE row # Nil /\ stageOf = "live"
    BY <2>1, <2>2, <2>5
  <2> QED BY <2>3, <2>4, <2>5
<1>3. ASSUME \/ stageOf' = stageOf
             \/ stageOf = "new" /\ stageOf' \in {"live", "ended"}
             \/ stageOf = "live" /\ stageOf' = "ended"
      PROVE  [AccessLifecycle!Next]_(AccessLifecycle!vars)
  <2> DEFINE old == [s \in {"sid"} |-> stageOf]
             new == [s \in {"sid"} |-> stageOf']
  <2>1. CASE stageOf' = stageOf
    BY <2>1 DEF AccessLifecycle!vars
  <2>2. CASE stageOf = "new" /\ stageOf' = "live"
    <3>1. AccessLifecycle!Open("sid")
      BY <2>2 DEF AccessLifecycle!Open
    <3>2. AccessLifecycle!vars' # AccessLifecycle!vars
      BY <2>2 DEF AccessLifecycle!vars
    <3> QED BY <3>1, <3>2 DEF AccessLifecycle!Next
  <2>3. CASE stageOf # "ended" /\ stageOf' = "ended"
    <3>1. AccessLifecycle!End({"sid"})
      BY <2>3 DEF AccessLifecycle!End
    <3>2. AccessLifecycle!vars' # AccessLifecycle!vars
      BY <2>3 DEF AccessLifecycle!vars
    <3> QED BY <3>1, <3>2 DEF AccessLifecycle!Next
  <2> QED BY <1>3, <2>1, <2>2, <2>3
<1>4. AccessInv /\ [Access!Next]_accessVars => [AccessLifecycle!Next]_(AccessLifecycle!vars)
  BY <1>2, <1>3 DEF accessVars, AccessLifecycle!vars
<1> QED BY <1>1, <1>4, AccessInvariance, PTL DEF Access!Spec, Access!vars, accessVars, AccessLifecycle!Spec

-----------------------------------------------------------------------------
(* The revocations owed to the identity provider.                          *)

\* A drainer that took a task from its list: it calls Keycloak or decides what
\* follows from the answer.
Working(d) == drainer[d].step \in {"call", "decide"}
\* The tasks a drainer read and has not decided.
InHand(d) == drainer[d].todo \cup (IF Working(d) THEN {drainer[d].current} ELSE {})

\* A drainer holds each task once, as it read it, calls only for a task with
\* attempts left, and believes in a revocation only after Keycloak revoked.
DrainersConsistent ==
  \A d \in Process :
    /\ drainer[d].step \in {"idle", "read", "release"} => drainer[d].todo = {}
    /\ Working(d) => drainer[d].current \in Queue!Snapshot
    /\ \A x, y \in InHand(d) : x.task = y.task => x = y
    /\ Working(d) => drainer[d].current \notin drainer[d].todo
    /\ \A x \in InHand(d) : x.aged => x.task \in aged
    /\ drainer[d].step = "call" => drainer[d].current.attempts < MaxAttempts
    /\ drainer[d].step = "decide" /\ drainer[d].answer => drainer[d].current.task \in revoked
\* While a drainer holds the lease, nothing it read is stale.
HolderUpToDate ==
  \A d \in Process : drainLease = d =>
    \A x \in InHand(d) :
      x.attempts = attempts[x.task] /\ status[x.task] \in {"queued", "lost"}
\* A task whose attempts are used up is not queued again: it is dead-lettered.
AttemptsLeft == \A t \in Session : attempts[t] < MaxAttempts

\* The invariant of the queue, but for the count of the calls.
QueueInv ==
  /\ Queue!TypeOK /\ Queue!NoRevocationDropped
  /\ DrainersConsistent /\ HolderUpToDate /\ AttemptsLeft

\* What a drainer reads of a due task.
LEMMA DueSnapshot ==
  ASSUME QueueInv, NEW t \in Session
  PROVE  /\ Queue!Due(t) \in Queue!Snapshot /\ Queue!Due(t).task = t
         /\ Queue!Due(t).attempts = attempts[t] /\ (Queue!Due(t).aged => t \in aged)
<1>1. attempts[t] \in 0..MaxAttempts /\ (t \in aged) \in BOOLEAN
  BY DEF QueueInv, Queue!TypeOK
<1> QED BY <1>1 DEF Queue!Due, Queue!Snapshot

\* Every step of the queue keeps the types.
LEMMA QueueTypes ==
  ASSUME QueueConstants, QueueInv, [Queue!Next]_queueVars
  PROVE  Queue!TypeOK'
<1>1. /\ status \in [Session -> Queue!Status] /\ attempts \in [Session -> 0..MaxAttempts]
      /\ aged \subseteq Session /\ revoked \subseteq Session /\ calls \in [Session -> Nat]
      /\ drainLease \in Process \cup {Nil} /\ drainer \in [Process -> Queue!Drain]
      /\ lapses \in 0..MaxLapses
  BY DEF QueueInv, Queue!TypeOK
<1>2. \A d \in Process, x \in Queue!Drain : [drainer EXCEPT ![d] = x] \in [Process -> Queue!Drain]
  BY <1>1
<1>3. \A d \in Process : [Queue!Idle EXCEPT !.step = "release"] \in Queue!Drain
                         /\ Queue!Idle \in Queue!Drain
  BY DEF Queue!Idle, Queue!Drain, Queue!Step
<1>4. \A d \in Process : Queue!Stop(d) => drainer' \in [Process -> Queue!Drain]
  BY <1>2, <1>3 DEF Queue!Stop
<1>5. \A d \in Process : Queue!Continue(d) => drainer' \in [Process -> Queue!Drain]
  <2> SUFFICES ASSUME NEW d \in Process
               PROVE  [Queue!Idle EXCEPT !.step = "loop", !.todo = drainer[d].todo] \in Queue!Drain
    BY <1>2 DEF Queue!Continue
  <2> QED BY <1>1 DEF Queue!Idle, Queue!Drain, Queue!Step
<1>6. MaxAttempts \in Nat /\ MaxLapses \in Nat
  BY DEF QueueConstants
<1> USE DEF Queue!TypeOK, Queue!tasks
<1>7. ASSUME NEW t \in Session, NEW answer \in BOOLEAN, Queue!RevokeOrEnqueue(t, answer)
      PROVE  Queue!TypeOK'
  <2>1. status' \in [Session -> Queue!Status]
    BY <1>1, <1>7 DEF Queue!RevokeOrEnqueue, Queue!Status
  <2>2. revoked' \subseteq Session
    BY <1>1, <1>7 DEF Queue!RevokeOrEnqueue, Queue!Revoke
  <2> QED BY <1>1, <1>7, <2>1, <2>2 DEF Queue!RevokeOrEnqueue
<1>8. ASSUME NEW t \in Session, Queue!Age(t) PROVE Queue!TypeOK'
  BY <1>1, <1>8 DEF Queue!Age
<1>9. ASSUME NEW t \in Session, Queue!ExpireData(t) PROVE Queue!TypeOK'
  <2>1. status' \in [Session -> Queue!Status]
    BY <1>1, <1>9 DEF Queue!ExpireData, Queue!Leave, Queue!Status
  <2> QED BY <1>1, <1>9, <2>1 DEF Queue!ExpireData
<1>10. ASSUME Queue!LapseLease PROVE Queue!TypeOK'
  BY <1>1, <1>6, <1>10 DEF Queue!LapseLease
<1>11. ASSUME NEW d \in Process, Queue!AcquireLease(d) PROVE Queue!TypeOK'
  <2>1. [drainer[d] EXCEPT !.step = "read"] \in Queue!Drain
    BY <1>1 DEF Queue!Drain, Queue!Step
  <2>2. drainer' = [drainer EXCEPT ![d] = [drainer[d] EXCEPT !.step = "read"]]
    BY <1>1, <1>11 DEF Queue!AcquireLease
  <2> QED BY <1>1, <1>2, <1>11, <2>1, <2>2 DEF Queue!AcquireLease
<1>12. ASSUME NEW d \in Process, NEW due \in SUBSET Session, Queue!ReadDue(d, due)
       PROVE  Queue!TypeOK'
  <2> DEFINE read == {Queue!Due(t) : t \in due}
  <2>1. read \subseteq Queue!Snapshot
    BY DueSnapshot
  <2> HIDE DEF read
  <2>2. [drainer[d] EXCEPT !.step = "loop", !.todo = read] \in Queue!Drain
    BY <1>1, <2>1 DEF Queue!Drain, Queue!Step
  <2>3. drainer' = [drainer EXCEPT ![d] = [drainer[d] EXCEPT !.step = "loop", !.todo = read]]
    BY <1>1, <1>12 DEF Queue!ReadDue, read
  <2> QED BY <1>1, <1>2, <1>12, <2>2, <2>3 DEF Queue!ReadDue
<1>13. ASSUME NEW d \in Process, NEW x \in drainer[d].todo, Queue!Take(d, x)
       PROVE  Queue!TypeOK'
  <2>1. CASE drainLease # d
    BY <1>1, <1>4, <1>13, <2>1 DEF Queue!Take
  <2>2. CASE drainLease = d
    <3>1. x \in Queue!Snapshot /\ drainer[d].todo \ {x} \subseteq Queue!Snapshot
      BY <1>1 DEF Queue!Drain
    <3>2. PICK s \in {"decide", "call"} :
            drainer' = [drainer EXCEPT ![d] = [drainer[d] EXCEPT !.step = s,
                          !.todo = drainer[d].todo \ {x}, !.current = x, !.answer = FALSE]]
      BY <1>1, <1>13, <2>2 DEF Queue!Take
    <3>3. [drainer[d] EXCEPT !.step = s, !.todo = drainer[d].todo \ {x}, !.current = x,
                             !.answer = FALSE] \in Queue!Drain
      BY <1>1, <3>1 DEF Queue!Drain, Queue!Step
    <3> QED BY <1>1, <1>2, <1>13, <3>2, <3>3 DEF Queue!Take
  <2> QED BY <2>1, <2>2
<1>14. ASSUME NEW d \in Process, NEW answer \in BOOLEAN, Queue!CallProvider(d, answer)
       PROVE  Queue!TypeOK'
  <2>1. drainer[d].current \in Queue!Snapshot
    BY <1>14 DEF QueueInv, DrainersConsistent, Working, Queue!CallProvider
  <2>2. drainer[d].current.task \in Session
    BY <2>1 DEF Queue!Snapshot
  <2>3. [drainer[d] EXCEPT !.step = "decide", !.answer = answer] \in Queue!Drain
    BY <1>1 DEF Queue!Drain, Queue!Step
  <2>4. drainer' = [drainer EXCEPT ![d] = [drainer[d] EXCEPT !.step = "decide", !.answer = answer]]
    BY <1>1, <1>14 DEF Queue!CallProvider
  <2>5. revoked' \subseteq Session /\ calls' \in [Session -> Nat]
    BY <1>1, <1>14, <2>2 DEF Queue!CallProvider, Queue!Revoke
  <2> QED BY <1>1, <1>2, <1>14, <2>3, <2>4, <2>5 DEF Queue!CallProvider
<1>15. ASSUME NEW d \in Process, Queue!Decide(d) PROVE Queue!TypeOK'
  <2>1. drainer[d].current \in Queue!Snapshot
    BY <1>15 DEF QueueInv, DrainersConsistent, Working, Queue!Decide
  <2>2. drainer[d].current.task \in Session /\ drainer[d].current.attempts \in 0..MaxAttempts
    BY <2>1 DEF Queue!Snapshot
  <2>3. drainer' \in [Process -> Queue!Drain]
    BY <1>4, <1>5, <1>15 DEF Queue!Decide
  <2>4. status' \in [Session -> Queue!Status] /\ aged' = aged
    BY <1>1, <1>15, <2>2 DEF Queue!Decide, Queue!Leave, Queue!Status
  <2>5. attempts' \in [Session -> 0..MaxAttempts]
    BY <1>1, <1>6, <1>15, <2>2 DEF Queue!Decide
  <2> QED BY <1>1, <1>15, <2>3, <2>4, <2>5 DEF Queue!Decide
<1>16. ASSUME NEW d \in Process, Queue!EndLoop(d) \/ Queue!ReleaseLease(d) PROVE Queue!TypeOK'
  BY <1>1, <1>2, <1>3, <1>4, <1>16 DEF Queue!EndLoop, Queue!ReleaseLease
<1>17. CASE UNCHANGED queueVars
  BY <1>1, <1>17 DEF queueVars
<1> QED
  BY <1>7, <1>8, <1>9, <1>10, <1>11, <1>12, <1>13, <1>14, <1>15, <1>16, <1>17
     DEF Queue!Next, Queue!DrainStep

\* Every step of the queue keeps the invariant: only the holder of the lease decides
\* tasks, and a lease that lapses makes the reading of the one before it stale.
LEMMA QueueStep ==
  ASSUME QueueConstants, QueueInv, [Queue!Next]_queueVars
  PROVE  QueueInv'
<1>1. /\ status \in [Session -> Queue!Status] /\ attempts \in [Session -> 0..MaxAttempts]
      /\ aged \subseteq Session /\ revoked \subseteq Session /\ calls \in [Session -> Nat]
      /\ drainer \in [Process -> Queue!Drain] /\ MaxAttempts \in Nat
  BY DEF QueueInv, Queue!TypeOK, QueueConstants
<1>2. DrainersConsistent /\ HolderUpToDate /\ AttemptsLeft /\ Queue!NoRevocationDropped
  BY DEF QueueInv
<1>3. Queue!TypeOK'
  BY QueueTypes
<1> DEFINE Rest == /\ DrainersConsistent /\ HolderUpToDate /\ AttemptsLeft
                   /\ Queue!NoRevocationDropped
<1> SUFFICES Rest'
  BY <1>3 DEF QueueInv
<1>d. \A d \in Process : \A x \in InHand(d) : x \in Queue!Snapshot /\ x.task \in Session
  BY <1>1, <1>2 DEF InHand, DrainersConsistent, Queue!Drain, Queue!Snapshot
<1>4. ASSUME NEW t \in Session, NEW answer \in BOOLEAN, Queue!RevokeOrEnqueue(t, answer)
      PROVE  Rest'
  <2>1. /\ drainer' = drainer /\ aged' = aged /\ attempts' = attempts /\ drainLease' = drainLease
        /\ revoked \subseteq revoked'
    BY <1>4 DEF Queue!RevokeOrEnqueue, Queue!Revoke
  <2>2. DrainersConsistent' /\ AttemptsLeft'
    BY <1>2, <2>1 DEF DrainersConsistent, InHand, Working, AttemptsLeft
  <2>3. /\ status[t] = "new" /\ \A u \in Session \ {t} : status'[u] = status[u]
        /\ status'[t] \in {"confirmed", "queued", "unqueued"}
        /\ status'[t] = "confirmed" => t \in revoked'
    BY <1>1, <1>4 DEF Queue!RevokeOrEnqueue, Queue!Revoke
  <2>4. HolderUpToDate'
    BY <1>2, <1>d, <2>1, <2>3 DEF HolderUpToDate, InHand, Working
  <2>5. Queue!NoRevocationDropped'
    BY <1>2, <2>1, <2>3 DEF Queue!NoRevocationDropped
  <2> QED BY <2>2, <2>4, <2>5
<1>5. ASSUME NEW t \in Session, Queue!Age(t) PROVE Rest'
  BY <1>2, <1>5 DEF Queue!Age, DrainersConsistent, HolderUpToDate, AttemptsLeft, InHand, Working,
     Queue!NoRevocationDropped
<1>6. ASSUME NEW t \in Session, Queue!ExpireData(t) PROVE Rest'
  <2>1. /\ status[t] = "queued" /\ t \in aged /\ status' = [status EXCEPT ![t] = "lost"]
        /\ UNCHANGED <<attempts, aged, revoked, drainLease, drainer>>
    BY <1>6 DEF Queue!ExpireData, Queue!Leave
  <2>2. DrainersConsistent' /\ AttemptsLeft'
    BY <1>2, <2>1 DEF DrainersConsistent, InHand, Working, AttemptsLeft
  <2>3. HolderUpToDate'
    BY <1>1, <1>2, <2>1 DEF HolderUpToDate, InHand, Working
  <2>4. Queue!NoRevocationDropped'
    BY <1>1, <1>2, <2>1 DEF Queue!NoRevocationDropped
  <2> QED BY <2>2, <2>3, <2>4
<1>7. CASE Queue!LapseLease
  BY <1>2, <1>7 DEF Queue!LapseLease, Queue!tasks, DrainersConsistent, HolderUpToDate, AttemptsLeft,
     InHand, Working, Queue!NoRevocationDropped, QueueConstants
<1>8. ASSUME NEW d \in Process, NEW s \in {"read", "release", "idle"},
             drainer'[d].step = s, drainer'[d].todo = {},
             \A e \in Process \ {d} : drainer'[e] = drainer[e] /\ (drainLease' = e => drainLease = e),
             UNCHANGED <<status, attempts, aged, revoked>>
      PROVE  Rest'
  <2>1. InHand(d)' = {} /\ ~Working(d)'
    BY <1>8 DEF InHand, Working
  <2>2. \A e \in Process \ {d} : InHand(e)' = InHand(e) /\ Working(e)' = Working(e)
    BY <1>8 DEF InHand, Working
  <2>3. DrainersConsistent'
    BY <1>2, <1>8, <2>1, <2>2 DEF DrainersConsistent
  <2>4. HolderUpToDate' /\ AttemptsLeft'
    BY <1>2, <1>8, <2>1, <2>2 DEF HolderUpToDate, AttemptsLeft
  <2> QED BY <1>2, <1>8, <2>3, <2>4 DEF Queue!NoRevocationDropped
<1>9. \A d \in Process : Queue!Stop(d) =>
        /\ drainer'[d].step = "release" /\ drainer'[d].todo = {}
        /\ \A e \in Process \ {d} : drainer'[e] = drainer[e]
  BY <1>1 DEF Queue!Stop, Queue!Idle
<1>10. ASSUME NEW d \in Process, Queue!AcquireLease(d) PROVE Rest'
  <2>1. drainer'[d].step = "read" /\ drainer'[d].todo = {}
    BY <1>1, <1>2, <1>10 DEF Queue!AcquireLease, DrainersConsistent, Queue!Drain
  <2> QED BY <1>1, <1>8, <1>10, <2>1 DEF Queue!AcquireLease, Queue!tasks
<1>11. ASSUME NEW d \in Process, Queue!EndLoop(d) PROVE Rest'
  BY <1>8, <1>9, <1>11 DEF Queue!EndLoop, Queue!tasks
<1>12. ASSUME NEW d \in Process, Queue!ReleaseLease(d) PROVE Rest'
  <2>1. drainer'[d].step = "idle" /\ drainer'[d].todo = {}
        /\ \A e \in Process \ {d} : drainer'[e] = drainer[e]
    BY <1>1, <1>12 DEF Queue!ReleaseLease, Queue!Idle
  <2>2. \A e \in Process \ {d} : drainLease' = e => drainLease = e
    BY <1>12 DEF Queue!ReleaseLease, QueueConstants
  <2> QED BY <1>8, <1>12, <2>1, <2>2 DEF Queue!ReleaseLease, Queue!tasks
<1>13. ASSUME NEW d \in Process, NEW due \in SUBSET Session, Queue!ReadDue(d, due)
       PROVE  Rest'
  <2> DEFINE read == {Queue!Due(t) : t \in due}
  <2>1. /\ \A x \in read : /\ x.task \in due /\ x.attempts = attempts[x.task]
                           /\ x.aged => x.task \in aged
        /\ \A x, y \in read : x.task = y.task => x = y
    BY DueSnapshot
  <2> HIDE DEF read
  <2>2. drainer'[d].step = "loop" /\ drainer'[d].todo = read
        /\ \A e \in Process \ {d} : drainer'[e] = drainer[e]
    BY <1>1, <1>13 DEF Queue!ReadDue, Queue!Drain, read
  <2>3. \A t \in due : status[t] = "queued"
    BY <1>13 DEF Queue!ReadDue
  <2>4. InHand(d)' = read /\ ~Working(d)'
    BY <2>2 DEF InHand, Working
  <2>5. \A e \in Process \ {d} : InHand(e)' = InHand(e) /\ Working(e)' = Working(e)
    BY <2>2 DEF InHand, Working
  <2>6. UNCHANGED <<status, attempts, aged, revoked, drainLease>>
    BY <1>13 DEF Queue!ReadDue, Queue!tasks
  <2>7. DrainersConsistent'
    BY <1>2, <2>1, <2>2, <2>4, <2>5, <2>6 DEF DrainersConsistent
  <2>8. HolderUpToDate' /\ AttemptsLeft'
    BY <1>2, <2>1, <2>3, <2>4, <2>5, <2>6 DEF HolderUpToDate, AttemptsLeft
  <2> QED BY <1>2, <2>6, <2>7, <2>8 DEF Queue!NoRevocationDropped
<1>14. ASSUME NEW d \in Process, NEW x \in drainer[d].todo, Queue!Take(d, x) PROVE Rest'
  <2>1. CASE drainLease # d
    BY <1>8, <1>9, <1>14, <2>1 DEF Queue!Take, Queue!tasks
  <2>2. CASE drainLease = d
    <3>1. /\ drainer'[d].step = IF x.attempts >= MaxAttempts \/ x.aged THEN "decide" ELSE "call"
          /\ drainer'[d].todo = drainer[d].todo \ {x} /\ drainer'[d].current = x
          /\ ~drainer'[d].answer
          /\ \A e \in Process \ {d} : drainer'[e] = drainer[e]
      BY <1>1, <1>14, <2>2 DEF Queue!Take, Queue!Drain
    <3>2. UNCHANGED <<status, attempts, aged, revoked, drainLease>>
      BY <1>14 DEF Queue!Take, Queue!tasks
    <3>3. InHand(d) = drainer[d].todo /\ x \in Queue!Snapshot
      BY <1>14, <1>d DEF Queue!Take, InHand, Working
    <3>4. InHand(d)' = InHand(d) /\ Working(d)'
      BY <3>1, <3>3 DEF InHand, Working
    <3>5. \A e \in Process \ {d} : InHand(e)' = InHand(e) /\ Working(e)' = Working(e)
      BY <3>1 DEF InHand, Working
    <3>6. drainer'[d].step = "call" => drainer'[d].current.attempts < MaxAttempts
      BY <1>1, <3>1, <3>3 DEF Queue!Snapshot
    <3>7. DrainersConsistent'
      BY <1>2, <3>1, <3>2, <3>3, <3>4, <3>5, <3>6 DEF DrainersConsistent
    <3>8. HolderUpToDate' /\ AttemptsLeft'
      BY <1>2, <3>2, <3>4, <3>5 DEF HolderUpToDate, AttemptsLeft
    <3> QED BY <1>2, <3>2, <3>7, <3>8 DEF Queue!NoRevocationDropped
  <2> QED BY <2>1, <2>2
<1>15. ASSUME NEW d \in Process, NEW answer \in BOOLEAN, Queue!CallProvider(d, answer)
       PROVE  Rest'
  <2>1. /\ drainer[d].step = "call" /\ drainer'[d].step = "decide"
        /\ drainer'[d].todo = drainer[d].todo /\ drainer'[d].current = drainer[d].current
        /\ drainer'[d].answer = answer
        /\ \A e \in Process \ {d} : drainer'[e] = drainer[e]
    BY <1>1, <1>15 DEF Queue!CallProvider, Queue!Drain
  <2>2. /\ UNCHANGED <<status, attempts, aged, drainLease>>
        /\ revoked \subseteq revoked' /\ (answer => drainer[d].current.task \in revoked')
    BY <1>15 DEF Queue!CallProvider, Queue!Revoke, Queue!tasks
  <2>3. \A e \in Process : InHand(e)' = InHand(e) /\ Working(e)' = Working(e)
    BY <2>1 DEF InHand, Working
  <2>4. DrainersConsistent'
    BY <1>2, <2>1, <2>2, <2>3 DEF DrainersConsistent
  <2>5. HolderUpToDate' /\ AttemptsLeft'
    BY <1>2, <2>2, <2>3 DEF HolderUpToDate, AttemptsLeft
  <2> QED BY <1>2, <2>2, <2>4, <2>5 DEF Queue!NoRevocationDropped
<1>16. ASSUME NEW d \in Process, Queue!Decide(d) PROVE Rest'
  <2> DEFINE x == drainer[d].current
             t == x.task
  <2>0. drainer[d].step = "decide" /\ UNCHANGED <<revoked, drainLease>>
    BY <1>16 DEF Queue!Decide
  <2>1. x \in InHand(d) /\ x \in Queue!Snapshot /\ t \in Session /\ x \notin drainer[d].todo
    BY <1>2, <1>d, <2>0 DEF InHand, Working, DrainersConsistent
  <2>2. CASE drainLease # d
    BY <1>8, <1>9, <1>16, <2>2 DEF Queue!Decide, Queue!tasks
  <2>3. CASE drainLease = d /\ Queue!Stop(d) /\ UNCHANGED <<status, attempts, aged>>
    BY <1>8, <1>9, <2>0, <2>3
  <2>4. CASE drainLease = d /\ Queue!Continue(d)
    <3>1. x.attempts = attempts[t] /\ status[t] \in {"queued", "lost"}
      BY <1>2, <2>1, <2>4 DEF HolderUpToDate
    <3>2. drainer'[d].step = "loop" /\ drainer'[d].todo = drainer[d].todo
          /\ \A e \in Process \ {d} : drainer'[e] = drainer[e]
      BY <1>1, <2>4 DEF Queue!Continue, Queue!Idle
    <3>3. InHand(d)' = drainer[d].todo /\ ~Working(d)' /\ drainer[d].todo \subseteq InHand(d)
      BY <3>2 DEF InHand, Working
    <3>4. \A e \in Process \ {d} : InHand(e)' = InHand(e) /\ Working(e)' = Working(e)
      BY <3>2 DEF InHand, Working
    <3>5. aged' = aged
      BY <1>16, <2>4 DEF Queue!Decide, Queue!tasks
    <3>6. DrainersConsistent'
      BY <1>2, <2>0, <3>2, <3>3, <3>4, <3>5 DEF DrainersConsistent
    <3>7. \A y \in drainer[d].todo : y.task # t
      BY <1>2, <2>1, <3>3 DEF DrainersConsistent
    <3>8. /\ \A u \in Session \ {t} : status'[u] = status[u] /\ attempts'[u] = attempts[u]
          /\ \/ attempts'[t] = attempts[t]
             \/ attempts'[t] = attempts[t] + 1 /\ attempts[t] + 1 < MaxAttempts
                /\ status' = status /\ status[t] = "queued"
          /\ status'[t] # status[t] =>
               /\ attempts' = attempts
               /\ \/ status'[t] = "completed" /\ drainer[d].answer
                  \/ status'[t] = "terminal" /\ (x.aged \/ x.attempts + 1 >= MaxAttempts)
      BY <1>1, <1>16, <2>1, <2>4, <3>1 DEF Queue!Decide, Queue!Leave, Queue!tasks
    <3>9. HolderUpToDate'
      BY <1>2, <1>d, <2>0, <2>4, <3>3, <3>4, <3>7, <3>8 DEF HolderUpToDate
    <3>10. AttemptsLeft'
      BY <1>2, <2>1, <3>8 DEF AttemptsLeft
    <3>11. Queue!NoRevocationDropped'
      BY <1>1, <1>2, <2>0, <2>1, <3>1, <3>5, <3>8 DEF Queue!NoRevocationDropped, DrainersConsistent
    <3> QED BY <3>6, <3>9, <3>10, <3>11
  <2> QED BY <1>16, <2>2, <2>3, <2>4 DEF Queue!Decide, Queue!tasks
<1>17. CASE UNCHANGED queueVars
  BY <1>2, <1>17 DEF queueVars, DrainersConsistent, HolderUpToDate, AttemptsLeft,
     InHand, Working, Queue!NoRevocationDropped
<1> QED
  BY <1>4, <1>5, <1>6, <1>7, <1>10, <1>11, <1>12, <1>13, <1>14, <1>15, <1>16, <1>17
     DEF Queue!Next, Queue!DrainStep

\* The drainers that lost the lease and still call Keycloak for a task.
Stale(t) == {d \in Process : drainLease # d /\ drainer[d].step = "call"
                                /\ drainer[d].current.task = t}
\* The holder of the lease has Keycloak's answer for a task.
Deciding(t) == \E d \in Process :
  drainLease = d /\ drainer[d].step = "decide" /\ drainer[d].current.task = t
\* A task that Keycloak may still be called for by the holder of the lease.
StillDue(t) ==
  \/ status[t] \notin {"completed", "terminal", "lost"}
  \/ \E d \in Process : drainLease = d /\ \E x \in InHand(d) : x.task = t
\* Every call but those of drainers whose lease lapsed was counted as an attempt.
Counted(t) ==
  /\ IsFiniteSet(Stale(t))
  /\ calls[t] + Cardinality(Stale(t)) <= attempts[t] + lapses + 1
  /\ StillDue(t) /\ ~Deciding(t) =>
       calls[t] + Cardinality(Stale(t)) <= attempts[t] + lapses
CallsCounted == \A t \in Session : Counted(t)

\* Every step keeps the count: a call adds to it what the attempt it stands for, or
\* the lapse that let it happen, allows.
LEMMA CallsStep ==
  ASSUME QueueConstants, QueueInv, CallsCounted, [Queue!Next]_queueVars
  PROVE  CallsCounted'
<1>1. /\ status \in [Session -> Queue!Status] /\ attempts \in [Session -> Nat]
      /\ calls \in [Session -> Nat] /\ lapses \in Nat
      /\ drainer \in [Process -> Queue!Drain] /\ MaxAttempts \in Nat
  BY DEF QueueInv, Queue!TypeOK, QueueConstants
<1>2. DrainersConsistent /\ HolderUpToDate
  BY DEF QueueInv
<1>3. \A t \in Session : IsFiniteSet(Stale(t)) => Cardinality(Stale(t)) \in Nat
  BY FS_CardinalityType
<1>4. \A d \in Process : Queue!Stop(d) =>
        /\ drainer'[d].step = "release" /\ drainer'[d].todo = {}
        /\ \A e \in Process \ {d} : drainer'[e] = drainer[e]
  BY <1>1 DEF Queue!Stop, Queue!Idle
(* A step that leaves the counters and whoever is at a call as they are. *)
<1>5. ASSUME UNCHANGED <<calls, lapses>>,
             \A t \in Session : Stale(t)' = Stale(t),
             \A t \in Session :
               \/ attempts'[t] = attempts[t] /\ (StillDue(t)' /\ ~Deciding(t)' => StillDue(t) /\ ~Deciding(t))
               \/ attempts'[t] = attempts[t] + 1
               \/ attempts'[t] = attempts[t] /\ ~(StillDue(t)' /\ ~Deciding(t)')
      PROVE  CallsCounted'
  <2> SUFFICES ASSUME NEW t \in Session PROVE Counted(t)'
    BY DEF CallsCounted
  <2>1. Stale(t)' = Stale(t) /\ IsFiniteSet(Stale(t)) /\ Cardinality(Stale(t)) \in Nat
    BY <1>3, <1>5 DEF CallsCounted, Counted
  <2>2. Counted(t)
    BY DEF CallsCounted
  <2>3. calls[t] \in Nat /\ attempts[t] \in Nat /\ lapses \in Nat
    BY <1>1
  <2> QED BY <1>5, <2>1, <2>2, <2>3 DEF Counted
<1>6. ASSUME UNCHANGED <<calls, lapses, attempts, drainer, drainLease>>,
             \A t \in Session : status'[t] = status[t]
               \/ status[t] \notin {"completed", "terminal", "lost"}
      PROVE  CallsCounted'
  BY <1>5, <1>6 DEF Stale, StillDue, Deciding, InHand, Working
<1>7. ASSUME NEW t \in Session, NEW answer \in BOOLEAN, Queue!RevokeOrEnqueue(t, answer)
      PROVE  CallsCounted'
  BY <1>1, <1>6, <1>7 DEF Queue!RevokeOrEnqueue
<1>8. ASSUME NEW t \in Session, Queue!Age(t) \/ Queue!ExpireData(t) PROVE CallsCounted'
  BY <1>1, <1>6, <1>8 DEF Queue!Age, Queue!ExpireData, Queue!Leave
(* A step of a drainer that is at no call before or after it, and no longer holds   *)
(* a task, or holds what is queued.                                               *)
<1>9. ASSUME NEW d \in Process, UNCHANGED <<calls, lapses, attempts>>,
             drainer[d].step # "call", drainer'[d].step \notin {"call", "decide"},
             \A e \in Process \ {d} : drainer'[e] = drainer[e],
             \A e \in Process \ {d} : (drainLease' = e => drainLease = e) /\ (drainLease = e => drainLease' = e),
             status' = status,
             \A x \in drainer'[d].todo : 
               \/ status[x.task] \notin {"completed", "terminal", "lost"}
               \/ x \in drainer[d].todo /\ drainLease = d,
             drainer[d].step # "decide" \/ drainLease # d
      PROVE  CallsCounted'
  <2>1. \A t \in Session : Stale(t)' = Stale(t)
    BY <1>9 DEF Stale
  <2>2. \A t \in Session : StillDue(t)' => StillDue(t)
    BY <1>9 DEF StillDue, InHand, Working
  <2>3. \A t \in Session : Deciding(t) => Deciding(t)'
    BY <1>9 DEF Deciding
  <2> QED BY <1>5, <1>9, <2>1, <2>2, <2>3
<1>10. ASSUME NEW d \in Process, Queue!AcquireLease(d) PROVE CallsCounted'
  <2>1. drainer'[d].step = "read" /\ drainer'[d].todo = {}
        /\ \A e \in Process \ {d} : drainer'[e] = drainer[e]
    BY <1>1, <1>2, <1>10 DEF Queue!AcquireLease, DrainersConsistent, Queue!Drain
  <2> QED BY <1>9, <1>10, <2>1 DEF Queue!AcquireLease, Queue!tasks, QueueConstants
<1>11. ASSUME NEW d \in Process, Queue!EndLoop(d) PROVE CallsCounted'
  BY <1>4, <1>9, <1>11 DEF Queue!EndLoop, Queue!tasks
<1>12. ASSUME NEW d \in Process, Queue!ReleaseLease(d) PROVE CallsCounted'
  <2>1. drainer'[d].step = "idle" /\ drainer'[d].todo = {}
        /\ \A e \in Process \ {d} : drainer'[e] = drainer[e]
    BY <1>1, <1>12 DEF Queue!ReleaseLease, Queue!Idle
  <2> QED BY <1>9, <1>12, <2>1 DEF Queue!ReleaseLease, Queue!tasks, QueueConstants
<1>13. ASSUME NEW d \in Process, NEW due \in SUBSET Session, Queue!ReadDue(d, due)
       PROVE  CallsCounted'
  <2> DEFINE read == {Queue!Due(t) : t \in due}
  <2>1. \A x \in read : status[x.task] = "queued"
    BY <1>13, DueSnapshot DEF Queue!ReadDue
  <2> HIDE DEF read
  <2>2. drainer'[d].step = "loop" /\ drainer'[d].todo = read
        /\ \A e \in Process \ {d} : drainer'[e] = drainer[e]
    BY <1>1, <1>13 DEF Queue!ReadDue, Queue!Drain, read
  <2>3. /\ UNCHANGED <<status, calls, lapses, attempts, drainLease>>
        /\ drainer[d].step = "read"
    BY <1>13 DEF Queue!ReadDue, Queue!tasks
  <2>4. \A x \in drainer'[d].todo : status[x.task] \notin {"completed", "terminal", "lost"}
    BY <2>1, <2>2
  <2>5. drainer[d].step # "call" /\ drainer'[d].step \notin {"call", "decide"}
        /\ (drainer[d].step # "decide" \/ drainLease # d)
    BY <2>2, <2>3
  <2>6. \A e \in Process \ {d} : (drainLease' = e => drainLease = e) /\ (drainLease = e => drainLease' = e)
    BY <2>3
  <2> QED BY <1>9, <2>2, <2>3, <2>4, <2>5, <2>6
<1>14. ASSUME NEW d \in Process, NEW x \in drainer[d].todo, Queue!Take(d, x) PROVE CallsCounted'
  <2>1. CASE drainLease # d
    BY <1>4, <1>9, <1>14, <2>1 DEF Queue!Take, Queue!tasks
  <2>2. CASE drainLease = d
    <3>1. /\ drainer[d].step = "loop" /\ drainer'[d].step \in {"decide", "call"}
          /\ drainer'[d].todo = drainer[d].todo \ {x} /\ drainer'[d].current = x
          /\ \A e \in Process \ {d} : drainer'[e] = drainer[e]
          /\ UNCHANGED <<calls, lapses, attempts, status, drainLease>>
      BY <1>1, <1>14, <2>2 DEF Queue!Take, Queue!Drain, Queue!tasks
    <3>2. \A t \in Session : Stale(t)' = Stale(t)
      BY <2>2, <3>1 DEF Stale
    <3>3. \A e \in Process : InHand(e)' = InHand(e)
      BY <1>14, <3>1 DEF InHand, Working
    <3>4. \A t \in Session : (StillDue(t)' => StillDue(t)) /\ ~Deciding(t)
      BY <2>2, <3>1, <3>3 DEF StillDue, Deciding
    <3> QED BY <1>5, <3>1, <3>2, <3>4
  <2> QED BY <2>1, <2>2
<1>15. ASSUME NEW d \in Process, NEW answer \in BOOLEAN, Queue!CallProvider(d, answer)
       PROVE  CallsCounted'
  <2>1. /\ drainer[d].step = "call" /\ drainer'[d].step = "decide"
        /\ drainer'[d].todo = drainer[d].todo /\ drainer'[d].current = drainer[d].current
        /\ \A e \in Process \ {d} : drainer'[e] = drainer[e]
    BY <1>1, <1>15 DEF Queue!CallProvider, Queue!Drain
  <2>2. UNCHANGED <<status, attempts, lapses, drainLease>>
    BY <1>15 DEF Queue!CallProvider, Queue!tasks
  <2>3. PICK t \in Session : t = drainer[d].current.task /\ drainer[d].current \in InHand(d)
    BY <1>2, <2>1 DEF InHand, Working, DrainersConsistent, Queue!Snapshot
  <2>4. calls'[t] = calls[t] + 1 /\ \A u \in Session \ {t} : calls'[u] = calls[u]
    BY <1>1, <1>15, <2>3 DEF Queue!CallProvider
  <2>5. \A e \in Process : InHand(e)' = InHand(e)
    BY <2>1 DEF InHand, Working
  <2>6. \A u \in Session : StillDue(u)' = StillDue(u)
    BY <2>2, <2>5 DEF StillDue
  <2>7. \A u \in Session \ {t} : Stale(u)' = Stale(u) /\ (Deciding(u)' <=> Deciding(u))
    BY <2>1, <2>2, <2>3 DEF Stale, Deciding
  <2>10. \A u \in Session \ {t} : Counted(u)'
    BY <2>2, <2>4, <2>6, <2>7 DEF CallsCounted, Counted
  <2>8. CASE drainLease = d
    <3>1. Stale(t)' = Stale(t) /\ StillDue(t) /\ ~Deciding(t) /\ Deciding(t)'
      BY <2>1, <2>2, <2>3, <2>8 DEF Stale, StillDue, Deciding
    <3>2. Counted(t)'
      BY <1>1, <1>3, <2>2, <2>3, <2>4, <3>1 DEF CallsCounted, Counted
    <3> QED BY <2>10, <3>2 DEF CallsCounted
  <2>9. CASE drainLease # d
    <3>1. d \in Stale(t) /\ Stale(t)' = Stale(t) \ {d} /\ (Deciding(t)' <=> Deciding(t))
      BY <2>1, <2>2, <2>3, <2>9 DEF Stale, Deciding
    <3>2. IsFiniteSet(Stale(t))
      BY <2>3 DEF CallsCounted, Counted
    <3>3. IsFiniteSet(Stale(t)') /\ Cardinality(Stale(t)') = Cardinality(Stale(t)) - 1
      BY <3>1, <3>2, FS_RemoveElement
    <3>4. Cardinality(Stale(t)) \in Nat
      BY <1>3, <2>3, <3>2
    <3>5. calls'[t] + Cardinality(Stale(t)') = calls[t] + Cardinality(Stale(t))
      BY <1>1, <2>3, <2>4, <3>3, <3>4
    <3>6. Counted(t)
      BY <2>3 DEF CallsCounted
    <3>7. Counted(t)'
      BY <2>2, <2>3, <2>6, <3>1, <3>3, <3>5, <3>6 DEF Counted
    <3> QED BY <2>10, <3>7 DEF CallsCounted
  <2> QED BY <2>8, <2>9
<1>16. ASSUME NEW d \in Process, Queue!Decide(d) PROVE CallsCounted'
  <2>0. drainer[d].step = "decide" /\ UNCHANGED <<calls, lapses, drainLease>>
    BY <1>16 DEF Queue!Decide
  <2>1. PICK x \in InHand(d), t \in Session :
          /\ x = drainer[d].current /\ t = x.task
          /\ x \notin drainer[d].todo /\ drainer[d].todo \subseteq InHand(d)
    BY <1>2, <2>0 DEF InHand, Working, DrainersConsistent, Queue!Snapshot
  <2>2. CASE drainLease # d
    BY <1>4, <1>9, <1>16, <2>0, <2>2 DEF Queue!Decide, Queue!tasks
  <2>3. CASE drainLease = d
    <3>1. x.attempts = attempts[t] /\ status[t] \in {"queued", "lost"}
          /\ \A y \in drainer[d].todo : y.task # t
      BY <1>2, <2>1, <2>3 DEF HolderUpToDate, DrainersConsistent
    <3>2. drainer'[d].step \in {"release", "loop"} /\ drainer'[d].todo \subseteq drainer[d].todo
          /\ \A e \in Process \ {d} : drainer'[e] = drainer[e]
      BY <1>1, <1>4, <1>16, <2>3 DEF Queue!Decide, Queue!Continue, Queue!Idle
    <3>3. \A u \in Session : Stale(u)' = Stale(u)
      BY <2>0, <3>2 DEF Stale
    <3>4. \/ attempts'[t] = attempts[t] + 1
          \/ attempts'[t] = attempts[t] /\ status'[t] \in {"completed", "terminal", "lost"}
      BY <1>1, <1>16, <2>1, <2>3, <3>1 DEF Queue!Decide, Queue!Leave, Queue!tasks
    <3>5. \A u \in Session \ {t} : attempts'[u] = attempts[u] /\ status'[u] = status[u]
      BY <1>1, <1>16, <2>1, <2>3 DEF Queue!Decide, Queue!Leave, Queue!tasks
    <3>6. \A e \in Process : drainLease' = e => e = d
      BY <2>0, <2>3
    <3>7. InHand(d)' \subseteq drainer[d].todo
      BY <3>2 DEF InHand, Working
    <3>8. ~(\E e \in Process : drainLease' = e /\ \E y \in InHand(e)' : y.task = t)
      BY <3>1, <3>6, <3>7
    <3>9. attempts'[t] = attempts[t] + 1 \/ (attempts'[t] = attempts[t] /\ ~StillDue(t)')
      <4>1. CASE attempts'[t] = attempts[t] + 1
        BY <4>1
      <4>2. CASE attempts'[t] = attempts[t] /\ status'[t] \in {"completed", "terminal", "lost"}
        <5>1. ~StillDue(t)'
          BY <3>8, <4>2 DEF StillDue
        <5> QED BY <4>2, <5>1
      <4> QED BY <3>4, <4>1, <4>2
    <3>10. \A u \in Session \ {t} : (StillDue(u)' => StillDue(u)) /\ ~Deciding(u)
      BY <2>0, <2>1, <2>3, <3>5, <3>6, <3>7 DEF StillDue, Deciding
    <3>11. \A u \in Session :
             \/ attempts'[u] = attempts[u] /\ (StillDue(u)' /\ ~Deciding(u)' => StillDue(u) /\ ~Deciding(u))
             \/ attempts'[u] = attempts[u] + 1
             \/ attempts'[u] = attempts[u] /\ ~(StillDue(u)' /\ ~Deciding(u)')
      BY <3>5, <3>9, <3>10
    <3> QED BY <1>5, <2>0, <3>3, <3>11
  <2> QED BY <2>2, <2>3
<1>17. CASE Queue!LapseLease
  <2> SUFFICES ASSUME NEW t \in Session PROVE Counted(t)'
    BY DEF CallsCounted, Counted
  <2>1. PICK h \in Process :
        /\ h = drainLease /\ drainLease' = Nil /\ lapses' = lapses + 1
        /\ UNCHANGED <<status, attempts, calls, drainer>> /\ Nil \notin Process
    BY <1>17 DEF Queue!LapseLease, Queue!tasks, QueueInv, Queue!TypeOK, QueueConstants
  <2>2. IsFiniteSet(Stale(t)) /\ Cardinality(Stale(t)) \in Nat
    BY <1>3 DEF CallsCounted, Counted
  <2>3. CASE drainer[h].step = "call" /\ drainer[h].current.task = t
    <3>1. Stale(t)' = Stale(t) \cup {h} /\ h \notin Stale(t)
      BY <2>1, <2>3 DEF Stale
    <3>2. IsFiniteSet(Stale(t)') /\ Cardinality(Stale(t)') = Cardinality(Stale(t)) + 1
      BY <2>2, <3>1, FS_AddElement
    <3>3. StillDue(t) /\ ~Deciding(t)
      BY <2>1, <2>3 DEF StillDue, Deciding, InHand, Working
    <3> QED BY <1>1, <2>1, <2>2, <3>2, <3>3 DEF CallsCounted, Counted
  <2>4. CASE ~(drainer[h].step = "call" /\ drainer[h].current.task = t)
    <3>1. Stale(t)' = Stale(t)
      BY <2>1, <2>4 DEF Stale
    <3> QED BY <1>1, <2>1, <2>2, <3>1 DEF CallsCounted, Counted
  <2> QED BY <2>3, <2>4
<1>18. CASE UNCHANGED queueVars
  BY <1>6, <1>18 DEF queueVars
<1> QED
  BY <1>7, <1>8, <1>10, <1>11, <1>12, <1>13, <1>14, <1>15, <1>16, <1>17, <1>18
     DEF Queue!Next, Queue!DrainStep

\* The invariant of the queue holds in every reachable state.
THEOREM QueueInvariance ==
  ASSUME QueueConstants PROVE Queue!Spec => [](QueueInv /\ CallsCounted)
<1>1. Queue!Init => QueueInv /\ CallsCounted
  <2> SUFFICES ASSUME Queue!Init PROVE QueueInv /\ CallsCounted
    OBVIOUS
  <2>0. Queue!Idle \in Queue!Drain /\ Queue!Idle.step = "idle" /\ Queue!Idle.todo = {}
    BY DEF Queue!Idle, Queue!Drain, Queue!Step
  <2>1. MaxAttempts \in Nat \ {0} /\ MaxLapses \in Nat /\ Nil \notin Process
    BY DEF QueueConstants
  <2>2. Queue!TypeOK
    BY <2>0, <2>1 DEF Queue!Init, Queue!TypeOK, Queue!Status
  <2>d. \A d \in Process : /\ drainer[d].step = "idle" /\ drainer[d].todo = {}
                            /\ ~Working(d) /\ InHand(d) = {}
    BY <2>0 DEF Queue!Init, InHand, Working
  <2>3. DrainersConsistent
    BY <2>d DEF DrainersConsistent
  <2>6. HolderUpToDate
    BY <2>d DEF HolderUpToDate
  <2>4. AttemptsLeft /\ Queue!NoRevocationDropped
    BY <2>1 DEF Queue!Init, AttemptsLeft, Queue!NoRevocationDropped
  <2>5. ASSUME NEW t \in Session PROVE Counted(t)
    <3>1. Stale(t) = {}
      BY <2>0 DEF Queue!Init, Stale
    <3> QED BY <3>1, FS_EmptySet DEF Queue!Init, Counted
  <2> QED BY <2>2, <2>3, <2>4, <2>5, <2>6 DEF QueueInv, CallsCounted
<1>2. QueueInv /\ CallsCounted /\ [Queue!Next]_queueVars => (QueueInv /\ CallsCounted)'
  BY QueueStep, CallsStep
<1> QED BY <1>1, <1>2, PTL DEF Queue!Spec, Queue!vars, queueVars

\* A revocation leaves the queue as completed only when Keycloak revoked, and is given
\* up only when its attempts are used up or its days are over; Keycloak is called
\* for it no more often than its attempts, and the lapses of the lease, allow.
THEOREM RevocationsAccounted ==
  ASSUME QueueConstants
  PROVE  Queue!Spec => [](Queue!NoRevocationDropped /\ Queue!CallsBounded)
<1>1. QueueInv /\ CallsCounted => Queue!NoRevocationDropped /\ Queue!CallsBounded
  <2> SUFFICES ASSUME QueueInv, CallsCounted, NEW t \in Session
               PROVE  calls[t] <= MaxAttempts + lapses
    BY DEF Queue!CallsBounded, QueueInv
  <2>1. IsFiniteSet(Stale(t)) /\ calls[t] + Cardinality(Stale(t)) <= attempts[t] + lapses + 1
    BY DEF CallsCounted, Counted
  <2>2. Cardinality(Stale(t)) \in Nat
    BY <2>1, FS_CardinalityType
  <2>3. calls[t] \in Nat /\ attempts[t] \in Nat /\ lapses \in Nat /\ attempts[t] < MaxAttempts
        /\ MaxAttempts \in Nat
    BY DEF QueueInv, Queue!TypeOK, AttemptsLeft, QueueConstants
  <2> QED BY <2>1, <2>2, <2>3
<1> QED BY <1>1, QueueInvariance, PTL

\* What a drain decided about a task is final: every script of a decision checks the
\* lease first, and a task in its final state is not due.
THEOREM DecidedTaskStays == ASSUME QueueConstants PROVE Queue!Spec => Queue!SettledTaskStays
<1> DEFINE Stays == \A t \in Session : status[t] \in {"completed", "terminal"} => status'[t] = status[t]
<1>1. QueueInv /\ [Queue!Next]_queueVars => [Stays]_queueVars
  <2> SUFFICES ASSUME QueueInv, Queue!Next PROVE Stays
    OBVIOUS
  <2>0. status \in [Session -> Queue!Status] /\ DrainersConsistent /\ HolderUpToDate
    BY DEF QueueInv, Queue!TypeOK
  <2>1. ASSUME NEW t \in Session, NEW answer \in BOOLEAN, Queue!RevokeOrEnqueue(t, answer)
        PROVE  Stays
    BY <2>0, <2>1 DEF Queue!RevokeOrEnqueue
  <2>2. ASSUME NEW t \in Session, Queue!ExpireData(t) PROVE Stays
    BY <2>0, <2>2 DEF Queue!ExpireData, Queue!Leave
  <2>3. ASSUME NEW d \in Process, Queue!Decide(d) PROVE Stays
    <3>1. drainer[d].step = "decide"
      BY <2>3 DEF Queue!Decide
    <3>2. PICK x \in InHand(d) : x = drainer[d].current
      BY <3>1 DEF InHand, Working
    <3>3. drainLease = d => status[x.task] \in {"queued", "lost"}
      BY <2>0, <3>2 DEF HolderUpToDate
    <3>4. \/ status' = status
          \/ drainLease = d /\ \E s \in Queue!Status : status' = [status EXCEPT ![x.task] = s]
      BY <2>3, <3>2 DEF Queue!Decide, Queue!Leave, Queue!tasks, Queue!Status
    <3> QED BY <2>0, <3>3, <3>4
  <2>4. ASSUME status' = status PROVE Stays
    BY <2>4
  <2> QED BY <2>1, <2>2, <2>3, <2>4
       DEF Queue!Next, Queue!DrainStep, Queue!Age, Queue!LapseLease, Queue!AcquireLease,
           Queue!EndLoop, Queue!ReleaseLease, Queue!ReadDue, Queue!Take, Queue!CallProvider,
           Queue!tasks
<1> QED BY <1>1, QueueInvariance, PTL DEF Queue!Spec, Queue!vars, queueVars, Queue!SettledTaskStays

-----------------------------------------------------------------------------
(* The session store of the customer portal.                               *)

\* Where a request of the portal stands.
Handler(r) == request[r].step
\* A session identifier that was not handed out has no record and no rotation.
Unissued == \A s \in Session : s \notin issued => vault[s] = Nil /\ rotation[s] = 0
\* A login stores a session of its own, under an identifier nobody else has.
NewLogins ==
  \A r \in Process : Handler(r) = "store-new" =>
    /\ request[r].target \in Session \ issued /\ request[r].at # 0
    /\ \A q \in Process : request[q].target = request[r].target => q = r
\* A record's revision moves with its token, which Keycloak has rotated no less often.
RevisionIsToken ==
  \A s \in Session : vault[s] # Nil =>
    vault[s].revision = vault[s].token /\ vault[s].token <= rotation[s]
\* What a refresh read of the record: its session was issued, and the record has not
\* gone back since.
Refreshes ==
  \A r \in Process : Handler(r) \in {"lease", "rotate", "store"} =>
    LET s == request[r].target
        seen == request[r].record
    IN  /\ s \in issued /\ seen \in Customer!Record /\ seen.revision = seen.token
        /\ vault[s] # Nil => seen.token <= vault[s].token /\ seen.auth = vault[s].auth
\* A refresh that rotated the token and finds the record still there is the only
\* one, and the record is the one it read.
Rotated ==
  \A r \in Process : Handler(r) = "store" /\ vault[request[r].target] # Nil =>
    /\ request[r].record.token = vault[request[r].target].token
    /\ request[r].record.token + 1 = rotation[request[r].target]
    /\ \A q \in Process : Handler(q) = "store" /\ request[q].target = request[r].target => q = r
\* A logout everywhere names a session of the provider.
LogoutTargets ==
  \A r \in Process : Handler(r) \in {"claim", "fence", "fence-all", "complete"} =>
    request[r].target \in Provider
\* The invariant of the store beside its types.
CustomerRest ==
  /\ Unissued /\ LogoutTargets /\ NewLogins /\ RevisionIsToken /\ Refreshes /\ Rotated
  /\ Customer!StoredTokenCurrent /\ Customer!FencedNeverLive
CustomerInv == Customer!TypeOK /\ CustomerRest

\* A request at rest.
LEMMA CustomerIdle ==
  ASSUME CustomerConstants
  PROVE  /\ Customer!Idle \in Customer!Handling
         /\ Customer!Idle.step = "idle" /\ Customer!Idle.target = Nil
BY DEF CustomerConstants, Customer!Idle, Customer!Handling, Customer!Step, Customer!Target

\* A request that moves on keeps what it knows.
LEMMA CustomerGoto ==
  ASSUME CustomerConstants, Customer!TypeOK, NEW r \in Process, NEW x \in Customer!Step
  PROVE  /\ [request EXCEPT ![r].step = x] \in [Process -> Customer!Handling]
         /\ Customer!Goto(r, x) =>
              /\ request' \in [Process -> Customer!Handling]
              /\ request'[r].step = x /\ request'[r].target = request[r].target
              /\ request'[r].record = request[r].record /\ request'[r].at = request[r].at
              /\ \A q \in Process \ {r} : request'[q] = request[q]
<1>1. request \in [Process -> Customer!Handling]
  BY DEF Customer!TypeOK
<1>2. [request[r] EXCEPT !.step = x] \in Customer!Handling
  BY <1>1 DEF Customer!Handling
<1>3. [request EXCEPT ![r].step = x] = [request EXCEPT ![r] = [request[r] EXCEPT !.step = x]]
  BY <1>1
<1>4. [request[r] EXCEPT !.step = x].step = x
  BY <1>1 DEF Customer!Handling
<1> QED BY <1>1, <1>2, <1>3, <1>4 DEF Customer!Goto, Customer!Handling

\* A request that ends forgets what it knew.
LEMMA CustomerFinish ==
  ASSUME CustomerConstants, Customer!TypeOK, NEW r \in Process, Customer!Finish(r)
  PROVE  /\ request' \in [Process -> Customer!Handling]
         /\ request'[r].step = "idle" /\ request'[r].target = Nil
         /\ \A q \in Process \ {r} : request'[q] = request[q]
BY CustomerIdle DEF Customer!TypeOK, Customer!Finish

\* A request that begins notes its target, what it read and when.
LEMMA CustomerBegin ==
  ASSUME CustomerConstants, Customer!TypeOK, NEW r \in Process, NEW x \in Customer!Step, NEW t \in Customer!Target,
         NEW seen \in Customer!Record \cup {Nil}, NEW time \in 0..MaxClock,
         Customer!Begin(r, x, t, seen, time)
  PROVE  /\ request' \in [Process -> Customer!Handling] /\ request[r].step = "idle"
         /\ request'[r].step = x /\ request'[r].target = t
         /\ request'[r].record = seen /\ request'[r].at = time
         /\ \A q \in Process \ {r} : request'[q] = request[q]
<1>1. [step |-> x, target |-> t, record |-> seen, at |-> time] \in Customer!Handling
  BY DEF Customer!Handling
<1> QED BY <1>1 DEF Customer!TypeOK, Customer!Begin, Customer!At

\* What a request that neither stores nor rotates a token leaves true.
LEMMA CustomerQuiet ==
  ASSUME Customer!TypeOK, CustomerRest, NEW r \in Process,
         issued' = issued, rotation' = rotation,
         \A s \in Session : vault'[s] = vault[s] \/ vault'[s] = Nil,
         \A q \in Process \ {r} : request'[q] = request[q],
         request'[r] = request[r] \/
           /\ request'[r].step \notin {"store-new", "lease", "rotate", "store"}
           /\ \/ request'[r].target = request[r].target
              \/ request'[r].target \notin Session \ issued
           /\ request[r].step \in {"store", "refuse"} /\ request[r].target \in Session =>
                vault'[request[r].target] = Nil
           /\ request'[r].step \in {"claim", "fence", "fence-all", "complete"} =>
                request'[r].target \in Provider,
         Customer!FencedNeverLive'
  PROVE  CustomerRest'
<1>1. Unissued' /\ RevisionIsToken'
  BY DEF CustomerRest, Unissued, RevisionIsToken
<1>2. NewLogins'
  BY DEF CustomerRest, NewLogins, Handler
<1>3. Refreshes'
  BY DEF CustomerRest, Customer!TypeOK, Refreshes, Handler
<1>4. Rotated'
  BY DEF CustomerRest, Customer!TypeOK, Rotated, Refreshes, Handler
<1>5. Customer!StoredTokenCurrent'
  BY DEF CustomerRest, Customer!StoredTokenCurrent
<1>6. LogoutTargets'
  BY DEF CustomerRest, LogoutTargets, Handler
<1> QED BY <1>1, <1>2, <1>3, <1>4, <1>5, <1>6 DEF CustomerRest

\* Storing the rotated token replaces a record and creates none.
LEMMA CustomerStores ==
  ASSUME CustomerConstants, CustomerInv, NEW r \in Process, Customer!StoreRotated(r)
  PROVE  /\ vault' \in [Session -> Customer!Record \cup {Nil}]
         /\ \A s \in Session : vault'[s] # Nil <=> vault[s] # Nil
<1>1. /\ vault \in [Session -> Customer!Record \cup {Nil}] /\ issued \subseteq Session
      /\ rotation \in [Session -> 0..MaxToken]
  BY DEF CustomerInv, Customer!TypeOK
<1>2. MaxToken \in Nat /\ Nil \notin Customer!Record /\ Nil \notin Nat
  BY DEF CustomerConstants
<1>3. PICK s \in Session, seen \in Customer!Record :
        /\ s = request[r].target /\ seen = request[r].record /\ seen.revision = seen.token
        /\ vault[s] # Nil => seen.token + 1 = rotation[s]
  BY <1>1 DEF Customer!StoreRotated, Customer!At, CustomerInv, CustomerRest, Refreshes, Rotated, Handler
<1>4. CASE Customer!Writable(s, seen.auth, seen.revision)
  <2>1. vault[s] # Nil /\ vault[s] \in Customer!Record /\ vault[s].revision = seen.revision
    BY <1>1, <1>2, <1>3, <1>4 DEF Customer!Writable, Customer!Record
  <2>2. seen.token + 1 \in 0..MaxToken
    BY <1>1, <1>3, <2>1
  <2> DEFINE stored == [vault[s] EXCEPT !.revision = vault[s].revision + 1, !.token = seen.token + 1]
  <2>3. vault' = [vault EXCEPT ![s] = stored]
    BY <1>1, <1>3, <1>4 DEF Customer!StoreRotated
  <2>4. stored \in Customer!Record
    BY <1>2, <1>3, <2>1, <2>2 DEF Customer!Record
  <2> HIDE DEF stored
  <2> QED BY <1>1, <1>2, <2>1, <2>3, <2>4
<1>5. CASE ~Customer!Writable(s, seen.auth, seen.revision)
  BY <1>1, <1>3, <1>5 DEF Customer!StoreRotated
<1> QED BY <1>4, <1>5

\* Every step of the store keeps the types.
LEMMA CustomerTypes ==
  ASSUME CustomerConstants, CustomerInv, [Customer!Next]_customerVars
  PROVE  Customer!TypeOK'
<1>0. Customer!TypeOK /\ CustomerRest
  BY DEF CustomerInv
<1>1. /\ vault \in [Session -> Customer!Record \cup {Nil}]
      /\ issued \subseteq Session
      /\ subjectFence \in 0..MaxClock /\ providerFence \subseteq Provider
      /\ lease \in [Session -> Process \cup {Nil}]
      /\ pending \in [Provider -> Process \cup {Nil}] /\ completed \subseteq Provider
      /\ rotation \in [Session -> 0..MaxToken]
      /\ request \in [Process -> Customer!Handling] /\ clock \in 1..MaxClock
  BY <1>0 DEF Customer!TypeOK
<1>2. /\ MaxToken \in Nat /\ MaxClock \in Nat \ {0} /\ ProviderOf \in [Session -> Provider]
      /\ Nil \notin Customer!Record /\ Nil \notin Nat
  BY DEF CustomerConstants
<1>g. \A r \in Process : \A x \in Customer!Step :
        Customer!Goto(r, x) => request' \in [Process -> Customer!Handling]
  BY <1>0, CustomerGoto
<1>f. \A r \in Process : Customer!Finish(r) => request' \in [Process -> Customer!Handling]
  BY <1>0, CustomerFinish
<1>t. Session \subseteq Customer!Target /\ Provider \subseteq Customer!Target /\ Nil \in Customer!Target
  BY DEF Customer!Target
<1>d. \A S : Customer!Delete(S) => vault' \in [Session -> Customer!Record \cup {Nil}]
  BY <1>1 DEF Customer!Delete
<1>s. {"idle", "store-new", "lease", "rotate", "store", "refuse", "release",
       "delete", "fence-subject", "claim", "fence", "fence-all", "complete"} \subseteq Customer!Step
  BY DEF Customer!Step
<1>h. \A r \in Process :
        /\ request[r].step \in Customer!Step /\ request[r].target \in Customer!Target
        /\ request[r].record \in Customer!Record \cup {Nil} /\ request[r].at \in 0..MaxClock
  BY <1>1 DEF Customer!Handling
<1> USE DEF Customer!TypeOK
<1>3. ASSUME NEW r \in Process, NEW s \in Session, Customer!CodeExchanged(r, s) PROVE Customer!TypeOK'
  BY <1>0, <1>1, <1>2, <1>3, <1>s, <1>t, CustomerBegin
     DEF Customer!CodeExchanged, Customer!fences, Customer!claims
<1>4. ASSUME NEW r \in Process, NEW s \in Session, Customer!ReadForRefresh(r, s) PROVE Customer!TypeOK'
  BY <1>0, <1>1, <1>2, <1>4, <1>s, <1>t, CustomerBegin
     DEF Customer!ReadForRefresh, Customer!fences, Customer!claims
<1>5. ASSUME NEW r \in Process, NEW s \in Session, Customer!ReadForLogout(r, s) PROVE Customer!TypeOK'
  BY <1>0, <1>1, <1>2, <1>5, <1>s, <1>t, CustomerBegin
     DEF Customer!ReadForLogout, Customer!fences, Customer!claims
<1>6. ASSUME NEW r \in Process, NEW p \in Provider, Customer!ReceiveLogoutToken(r, p)
      PROVE  Customer!TypeOK'
  BY <1>0, <1>1, <1>2, <1>6, <1>s, <1>t, CustomerBegin
     DEF Customer!ReceiveLogoutToken, Customer!fences, Customer!claims
<1>7. ASSUME NEW r \in Process, Customer!StoreNew(r) PROVE Customer!TypeOK'
  <2>1. request[r].target \in Session /\ request[r].at \in 1..MaxClock
    BY <1>0, <1>h, <1>2, <1>7 DEF Customer!StoreNew, Customer!At, CustomerRest, NewLogins, Handler
  <2>2. [revision |-> 0, token |-> 0, auth |-> request[r].at] \in Customer!Record
    BY <1>2, <2>1 DEF Customer!Record
  <2>3. vault' \in [Session -> Customer!Record \cup {Nil}] /\ issued' \subseteq Session
    BY <1>1, <1>7, <2>1, <2>2 DEF Customer!StoreNew
  <2> QED BY <1>1, <1>f, <1>7, <2>3 DEF Customer!StoreNew, Customer!fences, Customer!claims
<1>8. ASSUME NEW r \in Process, Customer!AcquireLease(r) PROVE Customer!TypeOK'
  <2>1. request' \in [Process -> Customer!Handling] /\ lease' \in [Session -> Process \cup {Nil}]
    BY <1>1, <1>f, <1>g, <1>s, <1>8 DEF Customer!AcquireLease
  <2> QED BY <1>1, <1>8, <2>1 DEF Customer!AcquireLease, Customer!fences, Customer!claims
<1>9. ASSUME NEW r \in Process, Customer!RotateToken(r) PROVE Customer!TypeOK'
  <2>1. request' \in [Process -> Customer!Handling]
    BY <1>g, <1>s, <1>9 DEF Customer!RotateToken
  <2>2. request[r].target \in Session
    BY <1>0, <1>1, <1>9 DEF Customer!RotateToken, Customer!At, CustomerRest, Refreshes, Handler
  <2>3. rotation' \in [Session -> 0..MaxToken]
    BY <1>1, <1>2, <1>9, <2>2 DEF Customer!RotateToken
  <2> QED BY <1>1, <1>9, <2>1, <2>3 DEF Customer!RotateToken, Customer!fences, Customer!claims
<1>10. ASSUME NEW r \in Process, Customer!StoreRotated(r) PROVE Customer!TypeOK'
  <2>1. request' \in [Process -> Customer!Handling]
    BY <1>g, <1>s, <1>10 DEF Customer!StoreRotated
  <2>2. vault' \in [Session -> Customer!Record \cup {Nil}]
    BY <1>10, CustomerStores
  <2> QED BY <1>1, <1>10, <2>1, <2>2 DEF Customer!StoreRotated, Customer!fences, Customer!claims
<1>11. ASSUME NEW r \in Process,
              Customer!RefuseRefresh(r) \/ Customer!ReleaseLease(r) \/ Customer!LogOut(r)
       PROVE  Customer!TypeOK'
  <2>1. request' \in [Process -> Customer!Handling]
    BY <1>f, <1>g, <1>s, <1>11 DEF Customer!RefuseRefresh, Customer!ReleaseLease, Customer!LogOut
  <2> QED BY <1>1, <1>d, <1>11, <2>1 DEF Customer!RefuseRefresh, Customer!ReleaseLease, Customer!LogOut,
         Customer!fences, Customer!claims
<1>12. ASSUME NEW r \in Process, Customer!BeginSignOutAll(r) PROVE Customer!TypeOK'
  BY <1>0, <1>1, <1>2, <1>12, <1>s, <1>t, CustomerBegin
     DEF Customer!BeginSignOutAll, Customer!fences, Customer!claims
<1>a. ASSUME NEW r \in Process, Customer!DeleteAll(r)
      PROVE  /\ subjectFence' \in 0..MaxClock /\ providerFence' \subseteq Provider
             /\ vault' \in [Session -> Customer!Record \cup {Nil}]
  BY <1>1, <1>2, <1>a, <1>d, <1>h DEF Customer!DeleteAll
<1>13. ASSUME NEW r \in Process, Customer!SignOutAll(r) PROVE Customer!TypeOK'
  BY <1>1, <1>a, <1>f, <1>13 DEF Customer!SignOutAll, Customer!claims
<1>14. ASSUME NEW r \in Process, NEW whole \in BOOLEAN, Customer!ClaimLogoutToken(r, whole)
       PROVE  Customer!TypeOK'
  <2>1. request' \in [Process -> Customer!Handling]
    <3>1. CASE pending[request[r].target] = Nil
      <4>1. PICK x \in {"fence-all", "fence"} :
              request' = [request EXCEPT ![r] = [request[r] EXCEPT !.step = x, !.at = clock]]
        BY <1>1, <1>14, <3>1 DEF Customer!ClaimLogoutToken
      <4>2. x \in Customer!Step /\ clock \in 0..MaxClock /\ request[r] \in Customer!Handling
        BY <1>1, <1>2, <1>s
      <4>3. [request[r] EXCEPT !.step = x, !.at = clock] \in Customer!Handling
        BY <4>2 DEF Customer!Handling
      <4> QED BY <1>1, <4>1, <4>3
    <3>2. CASE pending[request[r].target] # Nil
      BY <1>f, <1>14, <3>2 DEF Customer!ClaimLogoutToken
    <3> QED BY <3>1, <3>2
  <2>2. pending' \in [Provider -> Process \cup {Nil}]
    BY <1>1, <1>14 DEF Customer!ClaimLogoutToken
  <2> QED BY <1>1, <1>14, <2>1, <2>2 DEF Customer!ClaimLogoutToken, Customer!fences
<1>15. ASSUME NEW r \in Process, Customer!ApplyLogoutToken(r) PROVE Customer!TypeOK'
  <2>1. request' \in [Process -> Customer!Handling]
    BY <1>g, <1>s, <1>15 DEF Customer!ApplyLogoutToken
  <2>2. CASE Customer!At(r, "fence-all") /\ Customer!DeleteAll(r)
    BY <1>1, <1>a, <1>15, <2>1, <2>2 DEF Customer!ApplyLogoutToken, Customer!claims
  <2>3. CASE Customer!At(r, "fence") /\ ~Customer!At(r, "fence-all")
    <3>1. request[r].target \in Provider
      BY <1>0, <2>3 DEF CustomerRest, LogoutTargets, Handler, Customer!At
    <3> QED BY <1>1, <1>d, <1>15, <2>1, <2>3, <3>1 DEF Customer!ApplyLogoutToken, Customer!claims
  <2> QED BY <1>15, <2>2, <2>3 DEF Customer!ApplyLogoutToken, Customer!At
<1>16. ASSUME NEW r \in Process, Customer!CompleteLogoutToken(r) PROVE Customer!TypeOK'
  <2>1. request[r].target \in Provider
    BY <1>0, <1>16 DEF Customer!CompleteLogoutToken, CustomerRest, LogoutTargets, Handler, Customer!At
  <2>2. pending' \in [Provider -> Process \cup {Nil}] /\ completed' \subseteq Provider
    BY <1>1, <1>16, <2>1 DEF Customer!CompleteLogoutToken, Customer!claims
  <2> QED BY <1>1, <1>f, <1>16, <2>2 DEF Customer!CompleteLogoutToken, Customer!fences
<1>17. ASSUME NEW r \in Process, Customer!FailLogoutToken(r) PROVE Customer!TypeOK'
  BY <1>1, <1>f, <1>17 DEF Customer!FailLogoutToken, Customer!fences
<1>18. ASSUME NEW s \in Session, Customer!Expire(s) \/ Customer!LapseRefreshLease(s)
       PROVE  Customer!TypeOK'
  BY <1>1, <1>d, <1>18 DEF Customer!Expire, Customer!LapseRefreshLease, Customer!fences, Customer!claims
<1>19. ASSUME NEW p \in Provider, Customer!LapseLogoutClaim(p) PROVE Customer!TypeOK'
  BY <1>1, <1>19 DEF Customer!LapseLogoutClaim, Customer!fences
<1>20. CASE Customer!Tick
  BY <1>1, <1>2, <1>20 DEF Customer!Tick, Customer!fences, Customer!claims
<1>21. CASE UNCHANGED customerVars
  BY <1>1, <1>21 DEF customerVars
<1> QED
  BY <1>3, <1>4, <1>5, <1>6, <1>7, <1>8, <1>9, <1>10, <1>11, <1>12, <1>13, <1>14, <1>15, <1>16,
     <1>17, <1>18, <1>19, <1>20, <1>21
     DEF Customer!Next, Customer!RefreshStep, Customer!LogoutStep

\* Every step keeps the invariant: Keycloak rotates only the token it last issued, so
\* of the refreshes of a session one at most has a new token to store, and what it
\* stores finds the fence down and the record's revision where it was.
LEMMA CustomerStep ==
  ASSUME CustomerConstants, CustomerInv, [Customer!Next]_customerVars
  PROVE  CustomerInv'
<1>0. Customer!TypeOK /\ CustomerRest
  BY DEF CustomerInv
<1>1. /\ vault \in [Session -> Customer!Record \cup {Nil}] /\ issued \subseteq Session
      /\ subjectFence \in 0..MaxClock /\ rotation \in [Session -> 0..MaxToken]
      /\ request \in [Process -> Customer!Handling]
  BY <1>0 DEF Customer!TypeOK
<1>2. /\ MaxToken \in Nat /\ MaxClock \in Nat \ {0} /\ ProviderOf \in [Session -> Provider]
      /\ Session \cap Provider = {} /\ Nil \notin Session /\ Nil \notin Customer!Record /\ Nil \notin Nat
  BY DEF CustomerConstants
<1>3. Customer!TypeOK'
  BY CustomerTypes
<1>4. /\ Unissued /\ LogoutTargets /\ NewLogins /\ RevisionIsToken /\ Refreshes /\ Rotated
      /\ Customer!StoredTokenCurrent /\ Customer!FencedNeverLive
  BY <1>0 DEF CustomerRest
<1> SUFFICES CustomerRest'
  BY <1>3 DEF CustomerInv
<1>d. \A S : Customer!Delete(S) =>
        \A s \in Session : /\ vault'[s] = vault[s] \/ vault'[s] = Nil
                           /\ s \in S => vault'[s] = Nil
  BY DEF Customer!Delete
<1>f. /\ subjectFence' = subjectFence /\ providerFence' = providerFence
      /\ \A s \in Session : vault'[s] = vault[s] \/ vault'[s] = Nil
      => Customer!FencedNeverLive'
  BY <1>4 DEF Customer!FencedNeverLive
<1>5. ASSUME NEW r \in Process, NEW s \in Session, Customer!CodeExchanged(r, s) PROVE CustomerRest'
  <2>1. /\ request'[r].step = "store-new" /\ request'[r].target = s /\ request'[r].at # 0
        /\ request[r].step = "idle" /\ \A q \in Process \ {r} : request'[q] = request[q]
        /\ s \notin issued /\ \A q \in Process : request[q].target # s
        /\ UNCHANGED <<vault, issued, subjectFence, providerFence, rotation>>
    <3>1. clock \in 1..MaxClock /\ clock # 0
      BY <1>0, <1>2 DEF Customer!TypeOK
    <3> QED BY <1>1, <1>2, <1>3, <1>5, <3>1 DEF Customer!CodeExchanged, Customer!Begin, Customer!At,
              Customer!fences
  <2>2. NewLogins'
    BY <1>4, <2>1 DEF NewLogins, Handler
  <2>3. Unissued' /\ LogoutTargets' /\ RevisionIsToken' /\ Customer!FencedNeverLive'
    BY <1>4, <2>1 DEF Unissued, LogoutTargets, RevisionIsToken, Customer!FencedNeverLive, Handler
  <2>4. Refreshes' /\ Rotated'
    BY <1>4, <2>1 DEF Refreshes, Rotated, Handler
  <2>5. Customer!StoredTokenCurrent'
    BY <1>4, <2>1 DEF Customer!StoredTokenCurrent
  <2> QED BY <2>2, <2>3, <2>4, <2>5 DEF CustomerRest
<1>6. ASSUME NEW r \in Process, NEW s \in Session, Customer!ReadForRefresh(r, s) PROVE CustomerRest'
  <2>1. /\ request'[r].step = "lease" /\ request'[r].target = s /\ request'[r].record = vault[s]
        /\ request[r].step = "idle" /\ \A q \in Process \ {r} : request'[q] = request[q]
        /\ vault[s] \in Customer!Record /\ s \in issued
        /\ UNCHANGED <<vault, issued, subjectFence, providerFence, rotation>>
    BY <1>1, <1>2, <1>3, <1>4, <1>6
       DEF Customer!ReadForRefresh, Customer!Begin, Customer!At, Customer!fences, Unissued
  <2>2. NewLogins'
    BY <1>4, <2>1 DEF NewLogins, Handler
  <2>3. Unissued' /\ LogoutTargets' /\ RevisionIsToken' /\ Customer!FencedNeverLive'
    BY <1>4, <2>1 DEF Unissued, LogoutTargets, RevisionIsToken, Customer!FencedNeverLive, Handler
  <2>4. vault[s].token <= vault[s].token /\ vault[s].revision = vault[s].token
    BY <1>2, <1>4, <2>1 DEF Customer!Record, RevisionIsToken
  <2>5. Refreshes' /\ Rotated'
    BY <1>4, <2>1, <2>4 DEF Refreshes, Rotated, Handler
  <2>6. Customer!StoredTokenCurrent'
    BY <1>4, <2>1 DEF Customer!StoredTokenCurrent
  <2> QED BY <2>2, <2>3, <2>5, <2>6 DEF CustomerRest
<1>7. ASSUME NEW r \in Process, Customer!StoreNew(r) PROVE CustomerRest'
  <2>1. /\ request'[r].step = "idle" /\ request'[r].target = Nil
        /\ \A q \in Process \ {r} : request'[q] = request[q]
    BY <1>0, <1>7, CustomerFinish DEF Customer!StoreNew
  <2>2. PICK s \in Session \ issued :
          /\ s = request[r].target /\ request[r].step = "store-new" /\ request[r].at # 0
          /\ \A q \in Process \ {r} : request[q].target # s
    BY <1>4, <1>7 DEF Customer!StoreNew, Customer!At, NewLogins, Handler
  <2>3. CASE ~Customer!Writable(s, request[r].at, Nil)
    BY <1>0, <1>2, <1>f, <1>7, <2>1, <2>2, <2>3, CustomerQuiet DEF Customer!StoreNew, Customer!fences
  <2>4. CASE Customer!Writable(s, request[r].at, Nil)
    <3>1. /\ vault' = [vault EXCEPT ![s] = [revision |-> 0, token |-> 0, auth |-> request[r].at]]
          /\ issued' = issued \cup {s} /\ rotation' = rotation /\ rotation[s] = 0
          /\ UNCHANGED <<subjectFence, providerFence>>
          /\ request[r].at > subjectFence /\ ProviderOf[s] \notin providerFence
      BY <1>4, <1>7, <2>2, <2>4 DEF Customer!StoreNew, Customer!fences, Customer!Writable, Unissued
    <3>2. /\ vault'[s].revision = 0 /\ vault'[s].token = 0 /\ vault'[s].auth = request[r].at
          /\ \A u \in Session \ {s} : vault'[u] = vault[u]
      BY <1>1, <3>1
    <3>3. Unissued' /\ RevisionIsToken' /\ LogoutTargets'
      BY <1>2, <1>4, <2>1, <3>1, <3>2 DEF Unissued, RevisionIsToken, LogoutTargets, Handler
    <3>4. NewLogins'
      BY <1>2, <1>4, <2>1, <2>2, <3>1 DEF NewLogins, Handler
    <3>5. \A q \in Process : Handler(q) \in {"lease", "rotate", "store"} => request[q].target # s
      BY <1>4, <2>2 DEF Refreshes
    <3>6. Refreshes' /\ Rotated'
      BY <1>1, <1>4, <2>1, <3>1, <3>2, <3>5 DEF Refreshes, Rotated, Handler
    <3>7. Customer!StoredTokenCurrent'
      BY <1>4, <2>1, <2>2, <3>1, <3>2 DEF Customer!StoredTokenCurrent
    <3>8. Customer!FencedNeverLive'
      BY <1>4, <3>1, <3>2 DEF Customer!FencedNeverLive
    <3> QED BY <3>3, <3>4, <3>6, <3>7, <3>8 DEF CustomerRest
  <2> QED BY <2>3, <2>4
<1>8. ASSUME NEW r \in Process, Customer!AcquireLease(r) PROVE CustomerRest'
  <2>0. /\ request[r].step = "lease"
        /\ UNCHANGED <<vault, issued, subjectFence, providerFence, rotation>>
    BY <1>8 DEF Customer!AcquireLease, Customer!At, Customer!fences
  <2>1. CASE Customer!Finish(r)
    <3>1. /\ request'[r].step = "idle" /\ request'[r].target = Nil
          /\ \A q \in Process \ {r} : request'[q] = request[q]
      BY <1>0, <2>1, CustomerFinish
    <3> QED BY <1>0, <1>2, <1>f, <2>0, <3>1, CustomerQuiet
  <2>2. CASE Customer!Goto(r, "rotate")
    <3>1. /\ request'[r].step = "rotate" /\ request'[r].target = request[r].target
          /\ request'[r].record = request[r].record
          /\ \A q \in Process \ {r} : request'[q] = request[q]
      BY <1>0, <2>2, CustomerGoto DEF Customer!Step
    <3>2. Unissued' /\ LogoutTargets' /\ NewLogins' /\ RevisionIsToken' /\ Customer!FencedNeverLive'
      BY <1>4, <2>0, <3>1
         DEF Unissued, LogoutTargets, NewLogins, RevisionIsToken, Customer!FencedNeverLive, Handler
    <3>3. Refreshes' /\ Rotated'
      BY <1>4, <2>0, <3>1 DEF Refreshes, Rotated, Handler
    <3>4. Customer!StoredTokenCurrent'
      BY <1>4, <2>0, <3>1 DEF Customer!StoredTokenCurrent
    <3> QED BY <3>2, <3>3, <3>4 DEF CustomerRest
  <2> QED BY <1>8, <2>1, <2>2 DEF Customer!AcquireLease
<1>9. ASSUME NEW r \in Process, Customer!RotateToken(r) PROVE CustomerRest'
  <2>1. PICK s \in issued, seen \in Customer!Record :
          /\ s = request[r].target /\ seen = request[r].record /\ request[r].step = "rotate"
          /\ s \in Session /\ (vault[s] # Nil => seen.token <= vault[s].token)
    BY <1>1, <1>4, <1>9 DEF Customer!RotateToken, Customer!At, Refreshes, Handler
  <2>2. PICK x \in {"store", "refuse"} :
          /\ request'[r].step = x /\ request'[r].target = s /\ request'[r].record = seen
          /\ \A q \in Process \ {r} : request'[q] = request[q]
          /\ x = "refuse" \/ (seen.token = rotation[s] /\ rotation'[s] = rotation[s] + 1)
          /\ \/ rotation'[s] = rotation[s]
             \/ seen.token = rotation[s] /\ rotation'[s] = rotation[s] + 1
          /\ \A u \in Session \ {s} : rotation'[u] = rotation[u]
    <3>1. PICK x \in {"store", "refuse"} :
            /\ Customer!Goto(r, x)
            /\ \/ x = "refuse" /\ rotation' = rotation
               \/ seen.token = rotation[s] /\ rotation' = [rotation EXCEPT ![s] = rotation[s] + 1]
      BY <1>9, <2>1 DEF Customer!RotateToken
    <3>2. /\ request'[r].step = x /\ request'[r].target = s /\ request'[r].record = seen
          /\ \A q \in Process \ {r} : request'[q] = request[q]
      <4>1. x \in Customer!Step
        BY DEF Customer!Step
      <4> QED BY <1>0, <2>1, <3>1, <4>1, CustomerGoto
    <3>3. /\ x = "refuse" \/ (seen.token = rotation[s] /\ rotation'[s] = rotation[s] + 1)
          /\ \/ rotation'[s] = rotation[s]
             \/ seen.token = rotation[s] /\ rotation'[s] = rotation[s] + 1
          /\ \A u \in Session \ {s} : rotation'[u] = rotation[u]
      BY <1>1, <2>1, <3>1
    <3> QED BY <3>2, <3>3
  <2>3. UNCHANGED <<vault, issued, subjectFence, providerFence>>
    BY <1>9 DEF Customer!RotateToken, Customer!fences
  <2>4. LogoutTargets' /\ NewLogins' /\ Customer!FencedNeverLive'
    BY <1>4, <2>1, <2>2, <2>3 DEF LogoutTargets, NewLogins, Customer!FencedNeverLive, Handler
  <2>5. Unissued'
    BY <1>4, <2>1, <2>2, <2>3 DEF Unissued
  <2>n. /\ \A u \in Session : rotation[u] \in Nat /\ (vault[u] # Nil => vault[u].token \in Nat)
        /\ seen.token \in Nat
    BY <1>1, <1>2, <2>1 DEF Customer!Record
  <2>6. RevisionIsToken'
    <3> SUFFICES ASSUME NEW u \in Session, vault[u] # Nil
                 PROVE  vault[u].revision = vault[u].token /\ vault[u].token <= rotation'[u]
      BY <2>3 DEF RevisionIsToken
    <3>1. rotation'[u] = rotation[u] \/ rotation'[u] = rotation[u] + 1
      BY <2>1, <2>2
    <3>2. /\ rotation[u] \in Nat /\ vault[u].token \in Nat
          /\ vault[u].revision = vault[u].token /\ vault[u].token <= rotation[u]
      BY <1>4, <2>n DEF RevisionIsToken
    <3> QED BY <3>1, <3>2
  <2>7. Refreshes'
    BY <1>4, <2>1, <2>2, <2>3 DEF Refreshes, Handler
  <2>8. Rotated'
    <3>1. CASE x = "refuse" /\ rotation'[s] = rotation[s]
      BY <1>1, <1>4, <2>1, <2>2, <2>3, <3>1 DEF Rotated, Refreshes, Handler
    <3>2. CASE seen.token = rotation[s] /\ rotation'[s] = rotation[s] + 1
      <4>1. vault[s] # Nil => seen.token = vault[s].token
        BY <1>4, <2>1, <2>n, <3>2 DEF RevisionIsToken
      <4>2. \A q \in Process : vault[s] # Nil /\ Handler(q) = "store" => request[q].target # s
        BY <1>4, <2>n, <3>2, <4>1 DEF Rotated
      <4> QED BY <1>1, <1>4, <2>1, <2>2, <2>3, <3>2, <4>1, <4>2 DEF Rotated, Refreshes, Handler
    <3> QED BY <2>2, <3>1, <3>2
  <2>9. Customer!StoredTokenCurrent'
    BY <1>4, <2>1, <2>2, <2>3 DEF Customer!StoredTokenCurrent
  <2> QED BY <2>4, <2>5, <2>6, <2>7, <2>8, <2>9 DEF CustomerRest
<1>10. ASSUME NEW r \in Process, Customer!StoreRotated(r) PROVE CustomerRest'
  <2>1. PICK s \in issued, seen \in Customer!Record :
          /\ s = request[r].target /\ seen = request[r].record /\ request[r].step = "store"
          /\ s \in Session /\ seen.revision = seen.token
          /\ vault[s] # Nil => seen.auth = vault[s].auth
    BY <1>1, <1>4, <1>10 DEF Customer!StoreRotated, Customer!At, Refreshes, Handler
  <2>2. /\ request'[r].step = "release" /\ request'[r].target = s
        /\ \A q \in Process \ {r} : request'[q] = request[q]
    BY <1>0, <1>10, <2>1, CustomerGoto DEF Customer!StoreRotated, Customer!Step
  <2>3. UNCHANGED <<issued, subjectFence, providerFence, rotation>>
    BY <1>10 DEF Customer!StoreRotated, Customer!fences
  <2>4. CASE vault[s] = Nil
    <3>1. vault' = vault
      BY <1>2, <1>10, <2>1, <2>4 DEF Customer!StoreRotated, Customer!Writable, Customer!Record
    <3> QED BY <1>0, <1>f, <2>1, <2>2, <2>3, <2>4, <3>1, CustomerQuiet
  <2>5. CASE vault[s] # Nil
    <3>1. /\ vault[s] \in Customer!Record /\ seen.token = vault[s].token
          /\ seen.token + 1 = rotation[s] /\ vault[s].revision = vault[s].token
          /\ \A q \in Process \ {r} : Handler(q) = "store" => request[q].target # s
      BY <1>1, <1>4, <2>1, <2>5 DEF Rotated, RevisionIsToken, Handler
    <3>2. Customer!Writable(s, seen.auth, seen.revision)
      BY <1>2, <1>4, <2>1, <2>5, <3>1 DEF Customer!Writable, Customer!FencedNeverLive, Customer!Record
    <3>3. vault' = [vault EXCEPT ![s] = [vault[s] EXCEPT !.revision = vault[s].revision + 1,
                                                         !.token = seen.token + 1]]
      BY <1>1, <1>10, <2>1, <3>2 DEF Customer!StoreRotated
    <3>4. /\ vault'[s] # Nil /\ vault'[s].revision = vault[s].token + 1
          /\ vault'[s].token = vault[s].token + 1 /\ vault'[s].auth = vault[s].auth
          /\ \A u \in Session \ {s} : vault'[u] = vault[u]
      <4>1. vault'[s] = [vault[s] EXCEPT !.revision = vault[s].revision + 1, !.token = seen.token + 1]
        BY <1>1, <2>1, <3>3
      <4>2. vault'[s] # Nil
        <5>1. vault'[s] \in Customer!Record
          <6>1. seen.token + 1 \in 0..MaxToken /\ vault[s].revision + 1 \in 0..MaxToken
            BY <1>1, <2>1, <3>1
          <6> QED BY <3>1, <4>1, <6>1 DEF Customer!Record
        <5> QED BY <1>2, <5>1
      <4> QED BY <1>1, <3>1, <3>3, <4>1, <4>2 DEF Customer!Record
    <3>n. vault[s].token \in Nat /\ rotation[s] = vault'[s].token
      BY <3>1, <3>4 DEF Customer!Record
    <3>5. Unissued' /\ LogoutTargets' /\ NewLogins' /\ Customer!FencedNeverLive'
      BY <1>4, <2>1, <2>2, <2>3, <2>5, <3>4
         DEF Unissued, LogoutTargets, NewLogins, Customer!FencedNeverLive, Handler
    <3>6. RevisionIsToken'
      BY <1>1, <1>4, <2>1, <2>3, <3>4, <3>n DEF RevisionIsToken
    <3>7. Refreshes'
      <4>1. \A q \in Process : Handler(q) \in {"lease", "rotate", "store"} =>
              request[q].record.token \in Nat
        BY <1>2, <1>4 DEF Refreshes, Customer!Record
      <4> QED BY <1>1, <1>4, <2>1, <2>2, <2>3, <2>5, <3>4, <3>n, <4>1 DEF Refreshes, Handler
    <3>8. Rotated'
      BY <1>1, <1>4, <2>1, <2>2, <2>3, <3>1, <3>4 DEF Rotated, Refreshes, Handler
    <3>9. Customer!StoredTokenCurrent'
      BY <1>4, <2>1, <2>2, <2>3, <3>4, <3>n DEF Customer!StoredTokenCurrent
    <3> QED BY <3>5, <3>6, <3>7, <3>8, <3>9 DEF CustomerRest
  <2> QED BY <2>4, <2>5
<1>11. ASSUME NEW r \in Process, NEW s \in Session, Customer!ReadForLogout(r, s) PROVE CustomerRest'
  <2>1. /\ vault[s] # Nil /\ request'[r].step = "delete" /\ request'[r].target = s
        /\ request[r].step = "idle" /\ \A q \in Process \ {r} : request'[q] = request[q]
    BY <1>1, <1>2, <1>3, <1>11 DEF Customer!ReadForLogout, Customer!Begin, Customer!At
  <2> QED BY <1>0, <1>4, <1>f, <1>11, <2>1, CustomerQuiet
             DEF Customer!ReadForLogout, Customer!fences, Unissued
<1>12. ASSUME NEW r \in Process, NEW p \in Provider, Customer!ReceiveLogoutToken(r, p)
       PROVE  CustomerRest'
  <2>1. /\ request'[r].step = "claim" /\ request'[r].target = p
        /\ request[r].step = "idle" /\ \A q \in Process \ {r} : request'[q] = request[q]
    BY <1>1, <1>2, <1>3, <1>12 DEF Customer!ReceiveLogoutToken, Customer!Begin, Customer!At
  <2> QED BY <1>0, <1>2, <1>f, <1>12, <2>1, CustomerQuiet
             DEF Customer!ReceiveLogoutToken, Customer!fences
<1>13. ASSUME NEW r \in Process, Customer!RefuseRefresh(r) PROVE CustomerRest'
  <2>1. /\ request'[r].step = "release" /\ request'[r].target = request[r].target
        /\ request[r].step = "refuse" /\ \A q \in Process \ {r} : request'[q] = request[q]
    BY <1>0, <1>13, CustomerGoto DEF Customer!RefuseRefresh, Customer!At, Customer!Step
  <2>2. request[r].target \in Session => vault'[request[r].target] = Nil
    BY <1>d, <1>13 DEF Customer!RefuseRefresh
  <2> QED BY <1>0, <1>d, <1>f, <1>13, <2>1, <2>2, CustomerQuiet
             DEF Customer!RefuseRefresh, Customer!fences
<1>14. ASSUME NEW r \in Process, Customer!ReleaseLease(r) PROVE CustomerRest'
  <2>1. /\ request'[r].step = "idle" /\ request'[r].target = Nil /\ request[r].step = "release"
        /\ \A q \in Process \ {r} : request'[q] = request[q]
    BY <1>0, <1>14, CustomerFinish DEF Customer!ReleaseLease, Customer!At
  <2> QED BY <1>0, <1>2, <1>f, <1>14, <2>1, CustomerQuiet DEF Customer!ReleaseLease, Customer!fences
<1>15. ASSUME NEW r \in Process, Customer!LogOut(r) PROVE CustomerRest'
  <2>1. /\ request'[r].step = "idle" /\ request'[r].target = Nil /\ request[r].step = "delete"
        /\ \A q \in Process \ {r} : request'[q] = request[q]
    BY <1>0, <1>15, CustomerFinish DEF Customer!LogOut, Customer!At
  <2> QED BY <1>0, <1>2, <1>d, <1>f, <1>15, <2>1, CustomerQuiet DEF Customer!LogOut, Customer!fences
<1>16. ASSUME NEW r \in Process, Customer!BeginSignOutAll(r) PROVE CustomerRest'
  <2>1. /\ request'[r].step = "fence-subject" /\ request'[r].target = Nil
        /\ request[r].step = "idle" /\ \A q \in Process \ {r} : request'[q] = request[q]
    BY <1>1, <1>2, <1>3, <1>16 DEF Customer!BeginSignOutAll, Customer!Begin, Customer!At
  <2> QED BY <1>0, <1>2, <1>f, <1>16, <2>1, CustomerQuiet DEF Customer!BeginSignOutAll, Customer!fences
<1>a. \A r \in Process : Customer!DeleteAll(r) =>
        /\ \A s \in Session : vault'[s] = Nil
        /\ Customer!FencedNeverLive'
  BY DEF Customer!DeleteAll, Customer!Delete, Customer!FencedNeverLive
<1>17. ASSUME NEW r \in Process, Customer!SignOutAll(r) PROVE CustomerRest'
  <2>1. /\ request'[r].step = "idle" /\ request'[r].target = Nil /\ request[r].step = "fence-subject"
        /\ \A q \in Process \ {r} : request'[q] = request[q]
    BY <1>0, <1>17, CustomerFinish DEF Customer!SignOutAll, Customer!At
  <2> QED BY <1>0, <1>2, <1>a, <1>17, <2>1, CustomerQuiet DEF Customer!SignOutAll
<1>18. ASSUME NEW r \in Process, NEW whole \in BOOLEAN, Customer!ClaimLogoutToken(r, whole)
       PROVE  CustomerRest'
  <2>0. request[r].step = "claim" /\ request[r].target \in Provider
        /\ UNCHANGED <<vault, issued, subjectFence, providerFence, rotation>>
    BY <1>4, <1>18 DEF Customer!ClaimLogoutToken, Customer!At, Customer!fences, LogoutTargets, Handler
  <2>1. CASE Customer!Finish(r)
    <3>1. /\ request'[r].step = "idle" /\ request'[r].target = Nil
          /\ \A q \in Process \ {r} : request'[q] = request[q]
      BY <1>0, <2>1, CustomerFinish
    <3> QED BY <1>0, <1>2, <1>f, <2>0, <3>1, CustomerQuiet
  <2>2. CASE ~Customer!Finish(r)
    <3>1. /\ request'[r].step \in {"fence-all", "fence"} /\ request'[r].target = request[r].target
          /\ \A q \in Process \ {r} : request'[q] = request[q]
      BY <1>1, <1>18, <2>2 DEF Customer!ClaimLogoutToken, Customer!Handling
    <3> QED BY <1>0, <1>2, <1>f, <2>0, <3>1, CustomerQuiet
  <2> QED BY <2>1, <2>2
<1>19. ASSUME NEW r \in Process, Customer!ApplyLogoutToken(r) PROVE CustomerRest'
  <2>1. /\ request[r].step \in {"fence", "fence-all"} /\ request[r].target \in Provider
        /\ request'[r].step = "complete" /\ request'[r].target = request[r].target
        /\ \A q \in Process \ {r} : request'[q] = request[q]
    BY <1>0, <1>4, <1>19, CustomerGoto
       DEF Customer!ApplyLogoutToken, Customer!At, Customer!Step, LogoutTargets, Handler
  <2>2. /\ \A s \in Session : vault'[s] = vault[s] \/ vault'[s] = Nil
        /\ Customer!FencedNeverLive'
    BY <1>4, <1>a, <1>19 DEF Customer!ApplyLogoutToken, Customer!Delete, Customer!FencedNeverLive
  <2> QED BY <1>0, <1>2, <1>19, <2>1, <2>2, CustomerQuiet DEF Customer!ApplyLogoutToken
<1>20. ASSUME NEW r \in Process, Customer!CompleteLogoutToken(r) \/ Customer!FailLogoutToken(r)
       PROVE  CustomerRest'
  <2>1. /\ request'[r].step = "idle" /\ request'[r].target = Nil
        /\ request[r].step \notin {"store", "refuse"}
        /\ \A q \in Process \ {r} : request'[q] = request[q]
    BY <1>0, <1>20, CustomerFinish
       DEF Customer!CompleteLogoutToken, Customer!FailLogoutToken, Customer!At
  <2> QED BY <1>0, <1>2, <1>f, <1>20, <2>1, CustomerQuiet
             DEF Customer!CompleteLogoutToken, Customer!FailLogoutToken, Customer!fences
<1>21. ASSUME issued' = issued, rotation' = rotation, request' = request,
              UNCHANGED <<subjectFence, providerFence>>,
              \A s \in Session : vault'[s] = vault[s] \/ vault'[s] = Nil
       PROVE  CustomerRest'
  <2>1. Customer!FencedNeverLive'
    BY <1>f, <1>21
  <2>2. CASE Process = {}
    BY <1>4, <1>21, <2>1, <2>2
       DEF CustomerRest, Unissued, LogoutTargets, NewLogins, RevisionIsToken, Refreshes, Rotated,
           Customer!StoredTokenCurrent
  <2>3. CASE Process # {}
    <3>1. PICK r \in Process : TRUE
      BY <2>3
    <3> QED BY <1>0, <1>21, <2>1, <3>1, CustomerQuiet
  <2> QED BY <2>2, <2>3
<1>22. ASSUME NEW s \in Session, Customer!Expire(s) \/ Customer!LapseRefreshLease(s)
       PROVE  CustomerRest'
  BY <1>d, <1>21, <1>22 DEF Customer!Expire, Customer!LapseRefreshLease, Customer!fences
<1>23. ASSUME NEW p \in Provider, Customer!LapseLogoutClaim(p) PROVE CustomerRest'
  BY <1>21, <1>23 DEF Customer!LapseLogoutClaim, Customer!fences
<1>24. CASE Customer!Tick
  BY <1>21, <1>24 DEF Customer!Tick, Customer!fences
<1>25. CASE UNCHANGED customerVars
  BY <1>21, <1>25 DEF customerVars
<1> QED
  BY <1>5, <1>6, <1>7, <1>8, <1>9, <1>10, <1>11, <1>12, <1>13, <1>14, <1>15, <1>16, <1>17, <1>18,
     <1>19, <1>20, <1>22, <1>23, <1>24, <1>25
     DEF Customer!Next, Customer!RefreshStep, Customer!LogoutStep

\* The invariant of the customer's store holds in every reachable state.
THEOREM CustomerInvariance == ASSUME CustomerConstants PROVE Customer!Spec => []CustomerInv
<1>1. Customer!Init => CustomerInv
  <2> SUFFICES ASSUME Customer!Init PROVE CustomerInv
    OBVIOUS
  <2>0. MaxToken \in Nat /\ MaxClock \in Nat \ {0}
    BY DEF CustomerConstants
  <2>1. Customer!TypeOK
    BY <2>0, CustomerIdle DEF Customer!Init, Customer!TypeOK
  <2>2. \A r \in Process : Handler(r) = "idle"
    BY CustomerIdle DEF Customer!Init, Handler
  <2>3. CustomerRest
    BY <2>2 DEF Customer!Init, CustomerRest, Unissued, LogoutTargets, NewLogins, RevisionIsToken,
       Refreshes, Rotated, Customer!StoredTokenCurrent, Customer!FencedNeverLive
  <2> QED BY <2>1, <2>3 DEF CustomerInv
<1>2. CustomerInv /\ [Customer!Next]_customerVars => CustomerInv'
  BY CustomerStep
<1> QED BY <1>1, <1>2, PTL DEF Customer!Spec, Customer!vars, customerVars, Customer!fences, Customer!claims

\* No session lives behind the fence of a logout everywhere, and a stored session
\* holds the refresh token Keycloak accepts unless the refresh that rotated it is
\* still to store it or to end the session.
THEOREM CustomerSessionsUsable ==
  ASSUME CustomerConstants
  PROVE  Customer!Spec => [](Customer!FencedNeverLive /\ Customer!StoredTokenCurrent)
<1>1. CustomerInv => Customer!FencedNeverLive /\ Customer!StoredTokenCurrent
  BY DEF CustomerInv, CustomerRest
<1> QED BY <1>1, CustomerInvariance, PTL

\* Sessions that are deleted, and nothing else, end.
LEMMA CustomerDeletes ==
  ASSUME CustomerConstants, CustomerInv, NEW S,
         \A s \in Session : vault'[s] = IF s \in S THEN Nil ELSE vault[s],
         issued' = issued, providerFence' = providerFence
  PROVE  [CustomerLifecycle!Next]_(CustomerLifecycle!vars)
<1> DEFINE stageOf == [s \in Session |-> IF vault[s] # Nil THEN "live"
                                         ELSE IF s \in issued THEN "ended" ELSE "new"]
<1>1. \A s \in Session : vault[s] # Nil => s \in issued
  BY DEF CustomerInv, CustomerRest, Unissued
<1>2. PICK X \in SUBSET Session : X = {s \in Session : s \in S /\ vault[s] # Nil}
  OBVIOUS
<1>3. stageOf' = [s \in Session |-> IF s \in X THEN "ended" ELSE stageOf[s]]
  BY <1>1, <1>2
<1>4. CustomerLifecycle!End(X)
  BY <1>2, <1>3 DEF CustomerLifecycle!End
<1> QED BY <1>4 DEF CustomerLifecycle!Next

\* A fence that ends the sessions behind it is a step of the lifecycle.
LEMMA CustomerFences ==
  ASSUME CustomerConstants, CustomerInv, providerFence \subseteq providerFence',
         issued' = issued,
         \A s \in Session : vault'[s] = vault[s] \/ vault'[s] = Nil,
         \A s \in Session : vault[s] # Nil /\ vault'[s] = Nil => ProviderOf[s] \in providerFence',
         \A s \in Session : ProviderOf[s] \in providerFence' \ providerFence => vault'[s] = Nil
  PROVE  [CustomerLifecycle!Next]_(CustomerLifecycle!vars)
<1> DEFINE stageOf == [s \in Session |-> IF vault[s] # Nil THEN "live"
                                         ELSE IF s \in issued THEN "ended" ELSE "new"]
<1>1. \A s \in Session : vault[s] # Nil => s \in issued /\ ProviderOf[s] \notin providerFence
  BY DEF CustomerInv, CustomerRest, Unissued, Customer!FencedNeverLive
<1>2. PICK X \in SUBSET Session : X = {s \in Session : ProviderOf[s] \in providerFence'}
  OBVIOUS
<1>3. stageOf' = [s \in Session |->
                   IF s \in X /\ stageOf[s] = "live" THEN "ended" ELSE stageOf[s]]
  BY <1>1, <1>2
<1>4. {s \in Session : ProviderOf[s] \in providerFence'}
        = {s \in Session : ProviderOf[s] \in providerFence} \cup X
  BY <1>2
<1>5. CustomerLifecycle!Fence(X)
  BY <1>3, <1>4 DEF CustomerLifecycle!Fence
<1> QED BY <1>5 DEF CustomerLifecycle!Next

\* The customer's store implements SessionLifecycle: an identifier lives once, and no
\* session is created or kept behind the fence.
THEOREM CustomerRefinesLifecycle ==
  ASSUME CustomerConstants PROVE Customer!Spec => CustomerLifecycle!Spec
<1>1. Customer!Init => CustomerLifecycle!Init
  BY DEF Customer!Init, CustomerLifecycle!Init
<1>2. ASSUME CustomerInv, Customer!Next PROVE [CustomerLifecycle!Next]_(CustomerLifecycle!vars)
  <2>0. CustomerRest /\ vault \in [Session -> Customer!Record \cup {Nil}]
    BY <1>2 DEF CustomerInv, Customer!TypeOK
  <2>1. ASSUME UNCHANGED <<vault, issued, providerFence>>
        PROVE  [CustomerLifecycle!Next]_(CustomerLifecycle!vars)
    BY <2>1 DEF CustomerLifecycle!vars
  <2>2. ASSUME NEW S, Customer!Delete(S), issued' = issued, providerFence' = providerFence
        PROVE  [CustomerLifecycle!Next]_(CustomerLifecycle!vars)
    BY <1>2, <2>2, CustomerDeletes DEF Customer!Delete
  <2>3. ASSUME NEW r \in Process, Customer!StoreNew(r)
        PROVE  [CustomerLifecycle!Next]_(CustomerLifecycle!vars)
    <3>1. PICK s \in Session \ issued : s = request[r].target
      BY <2>0, <2>3 DEF Customer!StoreNew, Customer!At, CustomerRest, NewLogins, Handler
    <3>2. CASE Customer!Writable(s, request[r].at, Nil)
      <4>1. /\ vault' = [vault EXCEPT ![s] = [revision |-> 0, token |-> 0, auth |-> request[r].at]]
            /\ issued' = issued \cup {s} /\ providerFence' = providerFence
            /\ vault[s] = Nil /\ ProviderOf[s] \notin providerFence
        BY <2>3, <3>1, <3>2 DEF Customer!StoreNew, Customer!fences, Customer!Writable
      <4>2. vault'[s] # Nil /\ \A u \in Session \ {s} : vault'[u] = vault[u]
        <5>1. vault' \in [Session -> Customer!Record \cup {Nil}]
          BY <1>2, CustomerTypes DEF Customer!TypeOK
        <5>2. MaxClock \in Nat \ {0} /\ MaxToken \in Nat /\ Nil \notin Customer!Record
              /\ request[r].at \in 1..MaxClock
          BY <1>2, <2>0, <2>3 DEF CustomerConstants, CustomerInv, Customer!TypeOK, Customer!Handling,
             CustomerRest, NewLogins, Handler, Customer!StoreNew, Customer!At
        <5>3. [revision |-> 0, token |-> 0, auth |-> request[r].at] \in Customer!Record
          BY <5>2 DEF Customer!Record
        <5> QED BY <2>0, <4>1, <5>2, <5>3
      <4> DEFINE old == [u \in Session |-> IF vault[u] # Nil THEN "live"
                                            ELSE IF u \in issued THEN "ended" ELSE "new"]
      <4>3. [u \in Session |-> IF vault'[u] # Nil THEN "live"
                               ELSE IF u \in issued' THEN "ended" ELSE "new"]
              = [old EXCEPT ![s] = "live"]
        BY <4>1, <4>2
      <4>4. old[s] = "new"
        BY <4>1
      <4>5. CustomerLifecycle!Open(s)
        BY <4>1, <4>3, <4>4 DEF CustomerLifecycle!Open
      <4> QED BY <4>5 DEF CustomerLifecycle!Next, CustomerLifecycle!vars
    <3>3. CASE ~Customer!Writable(s, request[r].at, Nil)
      BY <2>1, <2>3, <3>1, <3>3 DEF Customer!StoreNew, Customer!fences
    <3> QED BY <3>2, <3>3
  <2>4. ASSUME NEW r \in Process, Customer!StoreRotated(r)
        PROVE  [CustomerLifecycle!Next]_(CustomerLifecycle!vars)
    <3>1. issued' = issued /\ providerFence' = providerFence
      BY <2>4 DEF Customer!StoreRotated, Customer!fences
    <3>2. \A s \in Session : vault'[s] # Nil <=> vault[s] # Nil
      BY <1>2, <2>4, CustomerStores
    <3>3. UNCHANGED CustomerLifecycle!vars
      BY <3>1, <3>2 DEF CustomerLifecycle!vars
    <3> QED BY <3>3
  <2>5. ASSUME NEW r \in Process, Customer!DeleteAll(r), issued' = issued
        PROVE  [CustomerLifecycle!Next]_(CustomerLifecycle!vars)
    <3>1. \A s \in Session : vault'[s] = Nil /\ (vault[s] # Nil => ProviderOf[s] \in providerFence')
      BY <2>5 DEF Customer!DeleteAll, Customer!Delete
    <3>2. providerFence \subseteq providerFence'
      BY <2>5 DEF Customer!DeleteAll
    <3> QED BY <1>2, <2>5, <3>1, <3>2, CustomerFences
  <2>6. ASSUME NEW r \in Process, Customer!ApplyLogoutToken(r)
        PROVE  [CustomerLifecycle!Next]_(CustomerLifecycle!vars)
    <3>1. issued' = issued
      BY <2>6 DEF Customer!ApplyLogoutToken
    <3>2. CASE Customer!DeleteAll(r)
      BY <2>5, <3>1, <3>2
    <3>3. CASE /\ providerFence' = providerFence \cup {request[r].target}
               /\ Customer!Delete({s \in Session : ProviderOf[s] = request[r].target})
      <4>1. \A s \in Session :
              vault'[s] = IF ProviderOf[s] = request[r].target THEN Nil ELSE vault[s]
        BY <3>3 DEF Customer!Delete
      <4> QED BY <1>2, <3>1, <3>3, <4>1, CustomerFences
    <3> QED BY <2>6, <3>2, <3>3 DEF Customer!ApplyLogoutToken
  <2>7. ASSUME NEW r \in Process,
               Customer!RefuseRefresh(r) \/ Customer!LogOut(r)
        PROVE  [CustomerLifecycle!Next]_(CustomerLifecycle!vars)
    BY <2>2, <2>7 DEF Customer!RefuseRefresh, Customer!LogOut, Customer!fences
  <2>8. ASSUME NEW s \in Session, Customer!Expire(s)
        PROVE  [CustomerLifecycle!Next]_(CustomerLifecycle!vars)
    BY <2>2, <2>8 DEF Customer!Expire, Customer!fences
  <2>9. ASSUME NEW r \in Process, Customer!SignOutAll(r)
        PROVE  [CustomerLifecycle!Next]_(CustomerLifecycle!vars)
    BY <2>5, <2>9 DEF Customer!SignOutAll
  <2>10. ASSUME NEW r \in Process,
                \/ \E s \in Session : Customer!CodeExchanged(r, s) \/ Customer!ReadForRefresh(r, s)
                                      \/ Customer!ReadForLogout(r, s)
                \/ \E p \in Provider : Customer!ReceiveLogoutToken(r, p)
                \/ Customer!AcquireLease(r) \/ Customer!RotateToken(r) \/ Customer!ReleaseLease(r)
                \/ Customer!BeginSignOutAll(r)
                \/ \E whole \in BOOLEAN : Customer!ClaimLogoutToken(r, whole)
                \/ Customer!CompleteLogoutToken(r) \/ Customer!FailLogoutToken(r)
         PROVE  [CustomerLifecycle!Next]_(CustomerLifecycle!vars)
    BY <2>1, <2>10
       DEF Customer!CodeExchanged, Customer!ReadForRefresh, Customer!ReadForLogout,
           Customer!ReceiveLogoutToken, Customer!AcquireLease, Customer!RotateToken,
           Customer!ReleaseLease, Customer!BeginSignOutAll, Customer!ClaimLogoutToken,
           Customer!CompleteLogoutToken, Customer!FailLogoutToken, Customer!fences
  <2>11. CASE \/ \E s \in Session : Customer!LapseRefreshLease(s)
              \/ \E p \in Provider : Customer!LapseLogoutClaim(p)
              \/ Customer!Tick
    BY <2>1, <2>11
       DEF Customer!LapseRefreshLease, Customer!LapseLogoutClaim, Customer!Tick, Customer!fences
  <2> QED
    BY <1>2, <2>3, <2>4, <2>6, <2>7, <2>8, <2>9, <2>10, <2>11
       DEF Customer!Next, Customer!RefreshStep, Customer!LogoutStep
<1>3. UNCHANGED customerVars => UNCHANGED CustomerLifecycle!vars
  BY DEF customerVars, CustomerLifecycle!vars
<1>4. CustomerInv /\ [Customer!Next]_customerVars => [CustomerLifecycle!Next]_(CustomerLifecycle!vars)
  BY <1>2, <1>3
<1> QED BY <1>1, <1>4, CustomerInvariance, PTL
          DEF Customer!Spec, Customer!vars, customerVars, Customer!fences, Customer!claims,
              CustomerLifecycle!Spec

-----------------------------------------------------------------------------
(* The session store of the workforce portal.                              *)

\* Where a request of the portal stands.
Serving(r) == staffRequest[r].step
\* A session identifier that was not handed out has no session and no fence.
StaffUnissued ==
  /\ \A s \in Session : s \notin staffIssued => staffVault[s] = Nil /\ staffRotation[s] = 0
  /\ staffFence \subseteq staffIssued
\* A login creates a session of its own, under an identifier nobody else has.
StaffCreates ==
  \A r \in Process : Serving(r) = "create" =>
    /\ staffRequest[r].session \in Session \ staffIssued
    /\ \A q \in Process : staffRequest[q].session = staffRequest[r].session => q = r
\* Every other request is about sessions that were issued.
StaffTargets ==
  \A r \in Process :
    /\ Serving(r) \in {"check", "lease", "latest", "rotate", "store", "delete",
                       "delete-refresh", "release"} => staffRequest[r].session \in staffIssued
    /\ staffRequest[r].list \subseteq staffIssued
\* Tokens only move on: what is stored, and what a refresh read, is no newer than
\* what Keycloak last issued.
StaffTokens ==
  /\ \A s \in Session : staffVault[s] # Nil => staffVault[s] <= staffRotation[s]
  /\ \A r \in Process :
       Serving(r) \in {"rotate", "store"} /\ staffVault[staffRequest[r].session] # Nil =>
         staffRequest[r].token <= staffVault[staffRequest[r].session]
\* A refresh that rotated the token and finds the session still there is the only
\* one, and the stored token is the one it read.
StaffRotated ==
  \A r \in Process : Serving(r) = "store" /\ staffVault[staffRequest[r].session] # Nil =>
    /\ staffRequest[r].token = staffVault[staffRequest[r].session]
    /\ staffRequest[r].token + 1 = staffRotation[staffRequest[r].session]
    /\ \A q \in Process :
         Serving(q) = "store" /\ staffRequest[q].session = staffRequest[r].session => q = r
\* The invariant of the store beside its types.
StaffRest ==
  /\ StaffUnissued /\ StaffCreates /\ StaffTargets /\ StaffTokens /\ StaffRotated
  /\ Staff!StoredTokenCurrent /\ Staff!FencedNeverLive
StaffInv == Staff!TypeOK /\ StaffRest

\* A request at rest.
LEMMA StaffIdle ==
  ASSUME StaffConstants
  PROVE  /\ Staff!Idle \in Staff!Handling
         /\ Staff!Idle.step = "idle" /\ Staff!Idle.session = Nil /\ Staff!Idle.list = {}
BY DEF StaffConstants, Staff!Idle, Staff!Handling, Staff!Step, Staff!Token

\* A request that moves on keeps what it knows.
LEMMA StaffGoto ==
  ASSUME StaffConstants, Staff!TypeOK, NEW r \in Process, NEW x \in Staff!Step, Staff!Goto(r, x)
  PROVE  /\ staffRequest' \in [Process -> Staff!Handling]
         /\ staffRequest'[r].step = x /\ staffRequest'[r].session = staffRequest[r].session
         /\ staffRequest'[r].token = staffRequest[r].token
         /\ staffRequest'[r].list = staffRequest[r].list
         /\ \A q \in Process \ {r} : staffRequest'[q] = staffRequest[q]
<1>1. staffRequest \in [Process -> Staff!Handling]
  BY DEF Staff!TypeOK
<1>2. [staffRequest[r] EXCEPT !.step = x] \in Staff!Handling
  BY <1>1 DEF Staff!Handling
<1>3. staffRequest' = [staffRequest EXCEPT ![r] = [staffRequest[r] EXCEPT !.step = x]]
  BY <1>1 DEF Staff!Goto
<1> QED BY <1>1, <1>2, <1>3 DEF Staff!Handling

\* A request that begins notes its session.
LEMMA StaffBegin ==
  ASSUME StaffConstants, Staff!TypeOK, NEW r \in Process, NEW x \in Staff!Step,
         NEW t \in Session \cup {Nil}, Staff!Begin(r, x, t)
  PROVE  /\ staffRequest' \in [Process -> Staff!Handling] /\ staffRequest[r].step = "idle"
         /\ staffRequest'[r].step = x /\ staffRequest'[r].session = t
         /\ staffRequest'[r].list = staffRequest[r].list
         /\ \A q \in Process \ {r} : staffRequest'[q] = staffRequest[q]
<1>1. staffRequest \in [Process -> Staff!Handling]
  BY DEF Staff!TypeOK
<1>2. [staffRequest[r] EXCEPT !.step = x, !.session = t] \in Staff!Handling
  BY <1>1 DEF Staff!Handling
<1>3. staffRequest' = [staffRequest EXCEPT ![r] = [staffRequest[r] EXCEPT !.step = x, !.session = t]]
  BY <1>1 DEF Staff!Begin
<1> QED BY <1>1, <1>2, <1>3 DEF Staff!Handling, Staff!Begin, Staff!At

\* A request that ends forgets what it knew.
LEMMA StaffFinish ==
  ASSUME StaffConstants, Staff!TypeOK, NEW r \in Process, Staff!Finish(r)
  PROVE  /\ staffRequest' \in [Process -> Staff!Handling]
         /\ staffRequest'[r].step = "idle" /\ staffRequest'[r].session = Nil
         /\ staffRequest'[r].list = {}
         /\ \A q \in Process \ {r} : staffRequest'[q] = staffRequest[q]
BY StaffIdle DEF Staff!TypeOK, Staff!Finish

\* What a request that neither creates a session nor rotates a token leaves true.
LEMMA StaffQuiet ==
  ASSUME Staff!TypeOK, StaffRest, NEW r \in Process,
         staffIssued' = staffIssued, staffRotation' = staffRotation,
         staffFence' \subseteq staffIssued,
         \A s \in Session : staffVault'[s] = staffVault[s] \/ staffVault'[s] = Nil,
         \A q \in Process \ {r} : staffRequest'[q] = staffRequest[q],
         staffRequest'[r] = staffRequest[r] \/
           /\ staffRequest'[r].step \notin {"create", "rotate", "store"}
           /\ staffRequest'[r].list \subseteq staffIssued
           /\ staffRequest'[r].step \in {"check", "lease", "latest", "delete", "delete-refresh",
                                         "release"} => staffRequest'[r].session \in staffIssued
           /\ \/ staffRequest'[r].session = staffRequest[r].session
              \/ staffRequest'[r].session \notin Session \ staffIssued
           /\ staffRequest[r].step \in {"store", "delete-refresh"} =>
                \/ staffVault'[staffRequest[r].session] = Nil
                \/ /\ staffRequest'[r].session = staffRequest[r].session
                   /\ staffRequest'[r].step = "delete-refresh",
         Staff!FencedNeverLive'
  PROVE  StaffRest'
<1>0. staffIssued \subseteq Session
  BY DEF Staff!TypeOK
<1>1. StaffUnissued'
  BY DEF StaffRest, StaffUnissued
<1>2. StaffCreates'
  BY DEF StaffRest, StaffCreates, Serving
<1>3. StaffTargets'
  BY DEF StaffRest, StaffTargets, Serving
<1>4. StaffTokens'
  BY <1>0 DEF StaffRest, StaffTokens, StaffTargets, Serving
<1>5. StaffRotated'
  BY <1>0 DEF StaffRest, StaffRotated, StaffTargets, Serving
<1>6. Staff!StoredTokenCurrent'
  BY DEF StaffRest, Staff!StoredTokenCurrent, Staff!Live
<1> QED BY <1>1, <1>2, <1>3, <1>4, <1>5, <1>6 DEF StaffRest

\* Storing the rotated token replaces one and creates no session.
LEMMA StaffStores ==
  ASSUME StaffConstants, StaffInv, NEW r \in Process, Staff!StoreRotated(r)
  PROVE  /\ staffVault' \in [Session -> Staff!Token \cup {Nil}]
         /\ \A s \in Session : staffVault'[s] # Nil <=> staffVault[s] # Nil
<1>1. /\ staffVault \in [Session -> Staff!Token \cup {Nil}] /\ staffIssued \subseteq Session
      /\ staffRotation \in [Session -> Staff!Token]
  BY DEF StaffInv, Staff!TypeOK
<1>2. MaxToken \in Nat /\ Nil \notin Nat
  BY DEF StaffConstants
<1>3. PICK s \in Session :
        /\ s = staffRequest[r].session
        /\ staffVault[s] # Nil => staffRequest[r].token + 1 = staffRotation[s]
  BY <1>1 DEF Staff!StoreRotated, Staff!At, StaffInv, StaffRest, StaffTargets, StaffRotated, Serving
<1>4. CASE staffVault[s] # Nil /\ s \notin staffFence
  <2>1. staffVault' = [staffVault EXCEPT ![s] = staffRotation[s]]
    BY <1>3, <1>4 DEF Staff!StoreRotated
  <2> QED BY <1>1, <1>2, <1>4, <2>1 DEF Staff!Token
<1>5. CASE staffVault[s] = Nil \/ s \in staffFence
  BY <1>1, <1>3, <1>5 DEF Staff!StoreRotated
<1> QED BY <1>4, <1>5

\* Every step of the store keeps the types.
LEMMA StaffTypes ==
  ASSUME StaffConstants, StaffInv, [Staff!Next]_staffVars
  PROVE  Staff!TypeOK'
<1>0. Staff!TypeOK /\ StaffRest
  BY DEF StaffInv
<1>1. /\ staffVault \in [Session -> Staff!Token \cup {Nil}]
      /\ staffIssued \subseteq Session /\ staffFence \subseteq Session /\ staffIndex \subseteq Session
      /\ staffLease \in [Session -> Process \cup {Nil}]
      /\ staffRotation \in [Session -> Staff!Token]
      /\ staffRequest \in [Process -> Staff!Handling]
  BY <1>0 DEF Staff!TypeOK
<1>2. MaxToken \in Nat /\ Nil \notin Nat
  BY DEF StaffConstants
<1>s. {"idle", "create", "check", "lease", "latest", "rotate", "store", "delete",
       "delete-refresh", "release", "revoke-all", "list-again", "delete-all"} \subseteq Staff!Step
  BY DEF Staff!Step
<1>g. \A r \in Process : \A x \in Staff!Step :
        Staff!Goto(r, x) => staffRequest' \in [Process -> Staff!Handling]
  BY <1>0, StaffGoto
<1>f. \A r \in Process : Staff!Finish(r) => staffRequest' \in [Process -> Staff!Handling]
  BY <1>0, StaffFinish
<1>b. \A r \in Process : \A x \in Staff!Step, t \in Session \cup {Nil} :
        Staff!Begin(r, x, t) => staffRequest' \in [Process -> Staff!Handling]
  BY <1>0, StaffBegin
<1>h. \A r \in Process : staffRequest[r].token \in Staff!Token /\ staffRequest[r].list \subseteq Session
  BY <1>1 DEF Staff!Handling
<1> USE DEF Staff!TypeOK
<1>3. ASSUME NEW r \in Process, NEW s \in Session,
             Staff!BeginCreate(r, s) \/ Staff!BeginEnsureFresh(r, s) \/ Staff!BeginLogout(r, s)
      PROVE  Staff!TypeOK'
  BY <1>1, <1>b, <1>s, <1>3 DEF Staff!BeginCreate, Staff!BeginEnsureFresh, Staff!BeginLogout
<1>4. ASSUME NEW r \in Process, Staff!Create(r) PROVE Staff!TypeOK'
  <2>1. staffRequest[r].session \in Session
    BY <1>0, <1>4 DEF Staff!Create, Staff!At, StaffRest, StaffCreates, Serving
  <2>2. 0 \in Staff!Token
    BY <1>2 DEF Staff!Token
  <2> QED BY <1>1, <1>f, <1>4, <2>1, <2>2 DEF Staff!Create
<1>5. ASSUME NEW r \in Process, Staff!CheckSession(r) PROVE Staff!TypeOK'
  BY <1>1, <1>f, <1>g, <1>s, <1>5 DEF Staff!CheckSession
<1>6. ASSUME NEW r \in Process, Staff!AcquireLease(r) PROVE Staff!TypeOK'
  <2>1. staffRequest' \in [Process -> Staff!Handling] /\ staffLease' \in [Session -> Process \cup {Nil}]
    BY <1>1, <1>f, <1>g, <1>s, <1>6 DEF Staff!AcquireLease
  <2> QED BY <1>1, <1>6, <2>1 DEF Staff!AcquireLease
<1>7. ASSUME NEW r \in Process, Staff!ReadLatest(r) PROVE Staff!TypeOK'
  <2>1. CASE Staff!Goto(r, "release")
    BY <1>1, <1>g, <1>s, <1>7, <2>1 DEF Staff!ReadLatest
  <2>2. CASE ~Staff!Goto(r, "release")
    <3>1. PICK s \in Session : s = staffRequest[r].session
      BY <1>0, <1>1, <1>7 DEF Staff!ReadLatest, Staff!At, StaffRest, StaffTargets, Serving
    <3>2. staffVault[s] \in Staff!Token
          /\ staffRequest' = [staffRequest EXCEPT ![r] =
               [staffRequest[r] EXCEPT !.step = "rotate", !.token = staffVault[s]]]
      BY <1>1, <1>7, <2>2, <3>1 DEF Staff!ReadLatest
    <3>3. [staffRequest[r] EXCEPT !.step = "rotate", !.token = staffVault[s]] \in Staff!Handling
      BY <1>1, <1>s, <3>2 DEF Staff!Handling
    <3> QED BY <1>1, <1>7, <3>2, <3>3 DEF Staff!ReadLatest
  <2> QED BY <2>1, <2>2
<1>8. ASSUME NEW r \in Process, Staff!RotateToken(r) PROVE Staff!TypeOK'
  <2>1. staffRequest' \in [Process -> Staff!Handling]
    BY <1>g, <1>s, <1>8 DEF Staff!RotateToken
  <2>2. staffRotation' \in [Session -> Staff!Token]
    BY <1>1, <1>2, <1>8 DEF Staff!RotateToken, Staff!Token
  <2> QED BY <1>1, <1>8, <2>1, <2>2 DEF Staff!RotateToken
<1>9. ASSUME NEW r \in Process, Staff!StoreRotated(r) PROVE Staff!TypeOK'
  <2>1. staffRequest' \in [Process -> Staff!Handling]
    BY <1>g, <1>s, <1>9 DEF Staff!StoreRotated
  <2>2. staffVault' \in [Session -> Staff!Token \cup {Nil}]
    BY <1>9, StaffStores
  <2>3. staffRequest[r].session \in Session
    BY <1>0, <1>1, <1>9 DEF Staff!StoreRotated, Staff!At, StaffRest, StaffTargets, Serving
  <2> QED BY <1>1, <1>9, <2>1, <2>2, <2>3 DEF Staff!StoreRotated
<1>10. ASSUME NEW r \in Process, Staff!DeleteSession(r) PROVE Staff!TypeOK'
  <2>1. staffRequest' \in [Process -> Staff!Handling]
    BY <1>f, <1>g, <1>s, <1>10 DEF Staff!DeleteSession
  <2>2. staffRequest[r].session \in Session
    BY <1>0, <1>1, <1>10 DEF Staff!DeleteSession, Staff!At, StaffRest, StaffTargets, Serving
  <2> QED BY <1>1, <1>10, <2>1, <2>2 DEF Staff!DeleteSession, Staff!Delete
<1>11. ASSUME NEW r \in Process, Staff!ReleaseLease(r) PROVE Staff!TypeOK'
  BY <1>1, <1>f, <1>11 DEF Staff!ReleaseLease
<1>12. ASSUME NEW r \in Process, Staff!BeginLogoutAll(r) PROVE Staff!TypeOK'
  BY <1>1, <1>b, <1>s, <1>12 DEF Staff!BeginLogoutAll
<1>13. ASSUME NEW r \in Process, Staff!ListAgain(r) PROVE Staff!TypeOK'
  <2> DEFINE listed == staffIndex \cap Staff!Live
  <2>1. [staffRequest[r] EXCEPT !.step = "delete-all", !.list = listed] \in Staff!Handling
    BY <1>1, <1>s DEF Staff!Handling
  <2>2. staffRequest' \in [Process -> Staff!Handling]
    BY <1>1, <1>f, <1>13, <2>1 DEF Staff!ListAgain
  <2> QED BY <1>1, <1>13, <2>2 DEF Staff!ListAgain
<1>14. ASSUME NEW r \in Process, Staff!DeleteAll(r) PROVE Staff!TypeOK'
  BY <1>1, <1>f, <1>h, <1>14 DEF Staff!DeleteAll
<1>15. ASSUME NEW s \in Session, Staff!Expire(s) \/ Staff!LapseLease(s) PROVE Staff!TypeOK'
  BY <1>1, <1>15 DEF Staff!Expire, Staff!LapseLease
<1>16. CASE UNCHANGED staffVars
  BY <1>1, <1>16 DEF staffVars
<1> QED
  BY <1>3, <1>4, <1>5, <1>6, <1>7, <1>8, <1>9, <1>10, <1>11, <1>12, <1>13, <1>14, <1>15, <1>16
     DEF Staff!Next, Staff!RequestStep

\* Every step keeps the invariant: Keycloak rotates only the token it last issued, so
\* of the refreshes of a session one at most has a new token to store, and it stores
\* it only while the session is there and no fence is up.
LEMMA StaffStep ==
  ASSUME StaffConstants, StaffInv, [Staff!Next]_staffVars
  PROVE  StaffInv'
<1>0. Staff!TypeOK /\ StaffRest
  BY DEF StaffInv
<1>1. /\ staffVault \in [Session -> Staff!Token \cup {Nil}] /\ staffIssued \subseteq Session
      /\ staffRotation \in [Session -> Staff!Token] /\ staffFence \subseteq Session
      /\ staffRequest \in [Process -> Staff!Handling]
  BY <1>0 DEF Staff!TypeOK
<1>2. MaxToken \in Nat /\ Nil \notin Session /\ Nil \notin Nat
  BY DEF StaffConstants
<1>3. Staff!TypeOK'
  BY StaffTypes
<1>4. /\ StaffUnissued /\ StaffCreates /\ StaffTargets /\ StaffTokens /\ StaffRotated
      /\ Staff!StoredTokenCurrent /\ Staff!FencedNeverLive
  BY <1>0 DEF StaffRest
<1> SUFFICES StaffRest'
  BY <1>3 DEF StaffInv
<1>f. /\ staffFence' = staffFence
      /\ \A s \in Session : staffVault'[s] = staffVault[s] \/ staffVault'[s] = Nil
      => Staff!FencedNeverLive'
  BY <1>4 DEF Staff!FencedNeverLive, Staff!Live
<1>n. \A s \in Session : /\ staffRotation[s] \in Nat
                         /\ staffVault[s] # Nil => staffVault[s] \in Nat
  BY <1>1, <1>2 DEF Staff!Token
<1>h. \A r \in Process : staffRequest[r].token \in Nat
  BY <1>1, <1>2 DEF Staff!Handling, Staff!Token
<1>5. ASSUME NEW r \in Process, NEW s \in Session, Staff!BeginCreate(r, s) PROVE StaffRest'
  <2>1. /\ staffRequest'[r].step = "create" /\ staffRequest'[r].session = s
        /\ staffRequest'[r].list = staffRequest[r].list
        /\ staffRequest[r].step = "idle" /\ \A q \in Process \ {r} : staffRequest'[q] = staffRequest[q]
    BY <1>0, <1>5, StaffBegin DEF Staff!BeginCreate, Staff!Step
  <2>2. /\ s \notin staffIssued /\ \A q \in Process : staffRequest[q].session # s
        /\ UNCHANGED <<staffVault, staffIssued, staffFence, staffRotation>>
    BY <1>5 DEF Staff!BeginCreate
  <2>3. StaffCreates'
    BY <1>4, <2>1, <2>2 DEF StaffCreates, Serving
  <2>4. StaffUnissued' /\ StaffTargets' /\ Staff!FencedNeverLive'
    BY <1>4, <2>1, <2>2 DEF StaffUnissued, StaffTargets, Staff!FencedNeverLive, Staff!Live, Serving
  <2>5. StaffTokens' /\ StaffRotated'
    BY <1>4, <2>1, <2>2 DEF StaffTokens, StaffRotated, Serving
  <2>6. Staff!StoredTokenCurrent'
    BY <1>4, <2>1, <2>2 DEF Staff!StoredTokenCurrent, Staff!Live
  <2> QED BY <2>3, <2>4, <2>5, <2>6 DEF StaffRest
<1>6. ASSUME NEW r \in Process, NEW s \in Session,
             Staff!BeginEnsureFresh(r, s) \/ Staff!BeginLogout(r, s)
      PROVE  StaffRest'
  <2>1. /\ staffRequest'[r].step \in {"check", "delete"} /\ staffRequest'[r].session = s
        /\ staffRequest'[r].list = staffRequest[r].list
        /\ staffRequest[r].step = "idle" /\ \A q \in Process \ {r} : staffRequest'[q] = staffRequest[q]
    <3>1. PICK x \in {"check", "delete"} : Staff!Begin(r, x, s)
      BY <1>6 DEF Staff!BeginEnsureFresh, Staff!BeginLogout
    <3>2. x \in Staff!Step
      BY DEF Staff!Step
    <3> QED BY <1>0, <3>1, <3>2, StaffBegin
  <2>2. s \in staffIssued /\ UNCHANGED <<staffVault, staffIssued, staffFence, staffRotation>>
    BY <1>6 DEF Staff!BeginEnsureFresh, Staff!BeginLogout
  <2>3. staffRequest[r].list \subseteq staffIssued /\ staffFence \subseteq staffIssued
    BY <1>4 DEF StaffTargets, StaffUnissued
  <2> QED BY <1>0, <1>f, <2>1, <2>2, <2>3, StaffQuiet
<1>fin. ASSUME NEW r \in Process, Staff!Finish(r), staffRequest[r].step \notin {"store", "delete-refresh"},
               staffIssued' = staffIssued, staffRotation' = staffRotation,
               staffFence' \subseteq staffIssued, Staff!FencedNeverLive',
               \A s \in Session : staffVault'[s] = staffVault[s] \/ staffVault'[s] = Nil
        PROVE  StaffRest'
  <2>1. /\ staffRequest'[r].step = "idle" /\ staffRequest'[r].session = Nil
        /\ staffRequest'[r].list = {}
        /\ \A q \in Process \ {r} : staffRequest'[q] = staffRequest[q]
    BY <1>0, <1>fin, StaffFinish
  <2> QED BY <1>0, <1>2, <1>fin, <2>1, StaffQuiet
<1>go. ASSUME NEW r \in Process, NEW x \in {"lease", "latest", "delete", "delete-refresh", "release"},
              Staff!Goto(r, x), staffRequest[r].session \in staffIssued,
              \/ staffRequest[r].step \notin {"store", "delete-refresh"} \/ x = "delete-refresh"
              \/ staffVault'[staffRequest[r].session] = Nil,
              staffIssued' = staffIssued, staffRotation' = staffRotation,
              staffFence' \subseteq staffIssued, Staff!FencedNeverLive',
              \A s \in Session : staffVault'[s] = staffVault[s] \/ staffVault'[s] = Nil
       PROVE  StaffRest'
  <2>0. x \in Staff!Step /\ staffRequest[r].list \subseteq staffIssued
    BY <1>4 DEF Staff!Step, StaffTargets
  <2>1. /\ staffRequest'[r].step = x /\ staffRequest'[r].session = staffRequest[r].session
        /\ staffRequest'[r].list = staffRequest[r].list
        /\ \A q \in Process \ {r} : staffRequest'[q] = staffRequest[q]
    BY <1>0, <1>go, <2>0, StaffGoto
  <2> QED BY <1>0, <1>go, <2>0, <2>1, StaffQuiet
<1>k. \A r \in Process :
        Serving(r) \in {"check", "lease", "latest", "rotate", "store", "delete", "delete-refresh",
                       "release"} => staffRequest[r].session \in staffIssued
  BY <1>4 DEF StaffTargets
<1>u. staffFence \subseteq staffIssued
  BY <1>4 DEF StaffUnissued
<1>7. ASSUME NEW r \in Process, Staff!CheckSession(r) PROVE StaffRest'
  <2>1. PICK x \in {"lease", "delete"} : Staff!Finish(r) \/ Staff!Goto(r, x)
    BY <1>7 DEF Staff!CheckSession
  <2>2. /\ staffRequest[r].step = "check" /\ staffRequest[r].session \in staffIssued
        /\ UNCHANGED <<staffVault, staffIssued, staffFence, staffRotation>>
    BY <1>7, <1>k DEF Staff!CheckSession, Staff!At, Serving
  <2> QED BY <1>f, <1>u, <1>fin, <1>go, <2>1, <2>2
<1>8. ASSUME NEW r \in Process, Staff!AcquireLease(r) PROVE StaffRest'
  <2>1. Staff!Finish(r) \/ Staff!Goto(r, "latest")
    BY <1>8 DEF Staff!AcquireLease
  <2>2. /\ staffRequest[r].step = "lease" /\ staffRequest[r].session \in staffIssued
        /\ UNCHANGED <<staffVault, staffIssued, staffFence, staffRotation>>
    BY <1>8, <1>k DEF Staff!AcquireLease, Staff!At, Serving
  <2> QED BY <1>f, <1>u, <1>fin, <1>go, <2>1, <2>2
<1>9. ASSUME NEW r \in Process, Staff!ReleaseLease(r) PROVE StaffRest'
  BY <1>f, <1>u, <1>fin, <1>9 DEF Staff!ReleaseLease, Staff!At
<1>10. ASSUME NEW r \in Process, Staff!DeleteAll(r) PROVE StaffRest'
  <2>1. staffRequest[r].list \subseteq staffIssued
    BY <1>4 DEF StaffTargets
  <2>2. Staff!FencedNeverLive' /\ staffFence' \subseteq staffIssued
    BY <1>1, <1>4, <1>u, <1>10, <2>1 DEF Staff!DeleteAll, Staff!FencedNeverLive, Staff!Live
  <2> QED BY <1>fin, <1>10, <2>2 DEF Staff!DeleteAll, Staff!At
<1>11. ASSUME NEW r \in Process, Staff!DeleteSession(r) PROVE StaffRest'
  <2>1. PICK s \in staffIssued : s = staffRequest[r].session
    BY <1>11, <1>k DEF Staff!DeleteSession, Staff!At, Serving
  <2>2. /\ staffVault' = [staffVault EXCEPT ![s] = Nil] /\ staffFence' = staffFence \cup {s}
        /\ staffIssued' = staffIssued /\ staffRotation' = staffRotation
    BY <1>11, <2>1 DEF Staff!DeleteSession, Staff!Delete
  <2>3. Staff!FencedNeverLive' /\ staffFence' \subseteq staffIssued
    BY <1>1, <1>4, <1>u, <2>1, <2>2 DEF Staff!FencedNeverLive, Staff!Live
  <2>4. /\ staffVault'[s] = Nil
        /\ \A u \in Session : staffVault'[u] = staffVault[u] \/ staffVault'[u] = Nil
    BY <1>1, <2>1, <2>2
  <2>5. \/ Staff!Finish(r) /\ staffRequest[r].step = "delete"
        \/ Staff!Goto(r, "release")
    BY <1>11 DEF Staff!DeleteSession, Staff!At
  <2> QED BY <1>fin, <1>go, <2>1, <2>2, <2>3, <2>4, <2>5
<1>12. ASSUME NEW r \in Process, Staff!ListAgain(r) PROVE StaffRest'
  <2>0. /\ staffRequest[r].step = "revoke-all"
        /\ UNCHANGED <<staffVault, staffIssued, staffFence, staffRotation>>
    BY <1>12 DEF Staff!ListAgain, Staff!At
  <2>1. CASE Staff!Finish(r)
    BY <1>f, <1>u, <1>fin, <2>0, <2>1
  <2>2. CASE ~Staff!Finish(r)
    <3>1. staffRequest' = [staffRequest EXCEPT ![r] =
            [staffRequest[r] EXCEPT !.step = "delete-all", !.list = staffIndex \cap Staff!Live]]
      BY <1>1, <1>12, <2>2 DEF Staff!ListAgain
    <3>2. /\ staffRequest'[r].step = "delete-all"
          /\ staffRequest'[r].list = staffIndex \cap Staff!Live
          /\ staffRequest'[r].session = staffRequest[r].session
          /\ \A q \in Process \ {r} : staffRequest'[q] = staffRequest[q]
      BY <1>1, <3>1 DEF Staff!Handling
    <3>3. staffIndex \cap Staff!Live \subseteq staffIssued
      BY <1>4 DEF StaffUnissued, Staff!Live
    <3> QED BY <1>0, <1>f, <1>u, <2>0, <3>2, <3>3, StaffQuiet
  <2> QED BY <2>1, <2>2
<1>13. ASSUME NEW r \in Process, Staff!BeginLogoutAll(r) PROVE StaffRest'
  <2>1. /\ staffRequest'[r].step = "revoke-all" /\ staffRequest'[r].session = Nil
        /\ staffRequest'[r].list = staffRequest[r].list
        /\ staffRequest[r].step = "idle" /\ \A q \in Process \ {r} : staffRequest'[q] = staffRequest[q]
        /\ UNCHANGED <<staffVault, staffIssued, staffFence, staffRotation>>
    BY <1>0, <1>13, StaffBegin DEF Staff!BeginLogoutAll, Staff!Step
  <2>2. staffRequest[r].list \subseteq staffIssued
    BY <1>4 DEF StaffTargets
  <2> QED BY <1>0, <1>2, <1>f, <1>u, <2>1, <2>2, StaffQuiet
<1>14. ASSUME NEW r \in Process, Staff!Create(r) PROVE StaffRest'
  <2>1. PICK s \in Session \ staffIssued :
          /\ s = staffRequest[r].session /\ \A q \in Process \ {r} : staffRequest[q].session # s
    BY <1>4, <1>14 DEF Staff!Create, Staff!At, StaffCreates, Serving
  <2>2. /\ staffRequest'[r].step = "idle" /\ staffRequest'[r].session = Nil
        /\ staffRequest'[r].list = {}
        /\ \A q \in Process \ {r} : staffRequest'[q] = staffRequest[q]
    BY <1>0, <1>14, StaffFinish DEF Staff!Create
  <2>3. /\ staffVault' = [staffVault EXCEPT ![s] = 0] /\ staffIssued' = staffIssued \cup {s}
        /\ staffFence' = staffFence \ {s} /\ staffRotation' = staffRotation /\ staffRotation[s] = 0
        /\ staffVault[s] = Nil /\ staffVault'[s] = 0
        /\ \A u \in Session \ {s} : staffVault'[u] = staffVault[u]
    BY <1>1, <1>4, <1>14, <2>1 DEF Staff!Create, StaffUnissued
  <2>4. StaffUnissued'
    BY <1>4, <2>1, <2>3 DEF StaffUnissued
  <2>5. StaffCreates' /\ StaffTargets'
    BY <1>2, <1>4, <2>1, <2>2, <2>3 DEF StaffCreates, StaffTargets, Serving
  <2>6. StaffTokens' /\ StaffRotated'
    <3>1. \A q \in Process : Serving(q) \in {"rotate", "store"} =>
            staffRequest[q].session \in Session \ {s}
      BY <1>1, <1>k, <2>1
    <3> QED BY <1>4, <2>2, <2>3, <3>1 DEF StaffTokens, StaffRotated, Serving
  <2>7. Staff!StoredTokenCurrent'
    BY <1>4, <2>1, <2>2, <2>3 DEF Staff!StoredTokenCurrent, Staff!Live
  <2>8. Staff!FencedNeverLive'
    BY <1>4, <2>1, <2>3 DEF Staff!FencedNeverLive, Staff!Live
  <2> QED BY <2>4, <2>5, <2>6, <2>7, <2>8 DEF StaffRest
<1>15. ASSUME NEW r \in Process, Staff!ReadLatest(r) PROVE StaffRest'
  <2>0. /\ staffRequest[r].step = "latest" /\ staffRequest[r].session \in staffIssued
        /\ UNCHANGED <<staffVault, staffIssued, staffFence, staffRotation>>
    BY <1>15, <1>k DEF Staff!ReadLatest, Staff!At, Serving
  <2>1. CASE Staff!Goto(r, "release")
    BY <1>f, <1>u, <1>go, <2>0, <2>1
  <2>2. CASE ~Staff!Goto(r, "release")
    <3>1. PICK s \in staffIssued : s = staffRequest[r].session
      BY <2>0
    <3>2. staffVault[s] # Nil /\ staffRequest' = [staffRequest EXCEPT ![r] =
            [staffRequest[r] EXCEPT !.step = "rotate", !.token = staffVault[s]]]
      BY <1>1, <1>15, <2>2, <3>1 DEF Staff!ReadLatest
    <3>3. /\ staffRequest'[r].step = "rotate" /\ staffRequest'[r].token = staffVault[s]
          /\ staffRequest'[r].session = s /\ staffRequest'[r].list = staffRequest[r].list
          /\ \A q \in Process \ {r} : staffRequest'[q] = staffRequest[q]
      BY <1>1, <3>1, <3>2 DEF Staff!Handling
    <3>4. StaffUnissued' /\ StaffCreates' /\ StaffTargets' /\ Staff!FencedNeverLive'
      BY <1>4, <2>0, <3>1, <3>3
         DEF StaffUnissued, StaffCreates, StaffTargets, Staff!FencedNeverLive, Staff!Live, Serving
    <3>5. staffVault[s] <= staffVault[s]
      BY <1>1, <1>n, <3>1, <3>2
    <3>6. StaffTokens' /\ StaffRotated'
      BY <1>4, <2>0, <3>1, <3>3, <3>5 DEF StaffTokens, StaffRotated, Serving
    <3>7. Staff!StoredTokenCurrent'
      BY <1>4, <2>0, <3>3 DEF Staff!StoredTokenCurrent, Staff!Live
    <3> QED BY <3>4, <3>6, <3>7 DEF StaffRest
  <2> QED BY <2>1, <2>2
<1>16. ASSUME NEW r \in Process, Staff!RotateToken(r) PROVE StaffRest'
  <2>0. /\ staffRequest[r].step = "rotate" /\ staffRequest[r].session \in staffIssued
        /\ UNCHANGED <<staffVault, staffIssued, staffFence>>
    BY <1>16, <1>k DEF Staff!RotateToken, Staff!At, Serving
  <2>1. PICK s \in Session, held \in Nat :
          /\ s = staffRequest[r].session /\ held = staffRequest[r].token
          /\ staffVault[s] # Nil => held <= staffVault[s]
    BY <1>1, <1>4, <1>h, <2>0 DEF StaffTokens, Serving
  <2>2. CASE staffRotation' = staffRotation
    <3>1. Staff!Goto(r, "delete-refresh")
      <4>1. CASE staffRotation' = [staffRotation EXCEPT ![s] = staffRotation[s] + 1]
        BY <1>1, <1>n, <2>1, <2>2, <4>1
      <4> QED BY <1>16, <2>1, <4>1 DEF Staff!RotateToken
    <3> QED BY <1>f, <1>u, <1>go, <2>0, <2>2, <3>1
  <2>3. CASE /\ held = staffRotation[s]
             /\ staffRotation' = [staffRotation EXCEPT ![s] = staffRotation[s] + 1]
    <3>1. PICK x \in {"store", "delete-refresh"} : Staff!Goto(r, x)
      BY <1>16 DEF Staff!RotateToken
    <3>2. x \in Staff!Step
      BY DEF Staff!Step
    <3>3. /\ staffRequest'[r].step = x /\ staffRequest'[r].session = s
          /\ staffRequest'[r].token = held /\ staffRequest'[r].list = staffRequest[r].list
          /\ \A q \in Process \ {r} : staffRequest'[q] = staffRequest[q]
      BY <1>0, <2>1, <3>1, <3>2, StaffGoto
    <3>4. /\ staffRotation'[s] = staffRotation[s] + 1
          /\ \A u \in Session \ {s} : staffRotation'[u] = staffRotation[u]
      BY <1>1, <2>3
    <3>5. StaffUnissued' /\ StaffCreates' /\ StaffTargets' /\ Staff!FencedNeverLive'
      BY <1>4, <2>0, <2>1, <3>3, <3>4
         DEF StaffUnissued, StaffCreates, StaffTargets, Staff!FencedNeverLive, Staff!Live, Serving
    <3>6. StaffTokens'
      <4>1. \A u \in Session : staffVault[u] # Nil => staffVault[u] <= staffRotation'[u]
        <5> SUFFICES ASSUME NEW u \in Session, staffVault[u] # Nil
                     PROVE  staffVault[u] <= staffRotation'[u]
          OBVIOUS
        <5>1. staffVault[u] <= staffRotation[u]
          BY <1>4 DEF StaffTokens
        <5>2. staffRotation'[u] = staffRotation[u] \/ staffRotation'[u] = staffRotation[u] + 1
          BY <3>4
        <5> QED BY <1>n, <5>1, <5>2
      <4> QED BY <1>4, <2>0, <2>1, <3>3, <4>1 DEF StaffTokens, Serving
    <3>7. StaffRotated'
      <4>1. staffVault[s] # Nil => held = staffVault[s]
        <5>1. staffVault[s] # Nil => staffVault[s] <= staffRotation[s]
          BY <1>4, <2>1 DEF StaffTokens
        <5> QED BY <1>n, <2>1, <2>3, <5>1
      <4>2. \A q \in Process : staffVault[s] # Nil /\ Serving(q) = "store" =>
              staffRequest[q].session # s
        BY <1>4, <1>n, <2>3, <4>1 DEF StaffRotated
      <4>3. \A q \in Process : Serving(q) = "store" => staffRequest[q].session \in Session
        BY <1>1, <1>k
      <4> QED BY <1>4, <2>0, <2>1, <2>3, <3>3, <3>4, <4>1, <4>2, <4>3 DEF StaffRotated, Serving
    <3>8. Staff!StoredTokenCurrent'
      BY <1>4, <2>0, <2>1, <3>3, <3>4 DEF Staff!StoredTokenCurrent, Staff!Live
    <3> QED BY <3>5, <3>6, <3>7, <3>8 DEF StaffRest
  <2> QED BY <1>16, <2>1, <2>2, <2>3 DEF Staff!RotateToken
<1>17. ASSUME NEW r \in Process, Staff!StoreRotated(r) PROVE StaffRest'
  <2>0. /\ staffRequest[r].step = "store" /\ staffRequest[r].session \in staffIssued
        /\ UNCHANGED <<staffIssued, staffFence, staffRotation>>
    BY <1>17, <1>k DEF Staff!StoreRotated, Staff!At, Serving
  <2>1. PICK s \in Session : s = staffRequest[r].session
    BY <1>1, <2>0
  <2>2. CASE staffVault[s] = Nil \/ s \in staffFence
    <3>1. staffVault' = staffVault /\ Staff!Goto(r, "delete-refresh")
      BY <1>17, <2>1, <2>2 DEF Staff!StoreRotated
    <3> QED BY <1>f, <1>u, <1>go, <2>0, <3>1
  <2>3. CASE staffVault[s] # Nil /\ s \notin staffFence
    <3>1. /\ staffRequest[r].token = staffVault[s] /\ staffRequest[r].token + 1 = staffRotation[s]
          /\ \A q \in Process \ {r} : Serving(q) = "store" => staffRequest[q].session # s
      BY <1>4, <2>0, <2>1, <2>3 DEF StaffRotated, Serving
    <3>2. /\ staffVault' = [staffVault EXCEPT ![s] = staffRotation[s]] /\ Staff!Goto(r, "release")
          /\ staffVault'[s] = staffRotation[s]
          /\ \A u \in Session \ {s} : staffVault'[u] = staffVault[u]
      BY <1>1, <1>17, <2>1, <2>3, <3>1 DEF Staff!StoreRotated
    <3>3. /\ staffRequest'[r].step = "release" /\ staffRequest'[r].session = s
          /\ staffRequest'[r].list = staffRequest[r].list
          /\ \A q \in Process \ {r} : staffRequest'[q] = staffRequest[q]
      BY <1>0, <2>1, <3>2, StaffGoto DEF Staff!Step
    <3>4. StaffUnissued' /\ StaffCreates' /\ StaffTargets'
      BY <1>4, <2>0, <2>1, <3>2, <3>3 DEF StaffUnissued, StaffCreates, StaffTargets, Serving
    <3>5. Staff!FencedNeverLive'
      BY <1>4, <2>0, <2>3, <3>2 DEF Staff!FencedNeverLive, Staff!Live
    <3>6. StaffTokens'
      <4>1. staffVault'[s] = staffVault[s] + 1 /\ staffVault[s] \in Nat /\ staffRotation[s] \in Nat
        BY <1>n, <2>3, <3>1, <3>2
      <4>2. \A q \in Process : Serving(q) \in {"rotate", "store"} => staffRequest[q].session \in Session
        BY <1>1, <1>k
      <4>3. \A u \in Session : staffVault'[u] # Nil => staffVault'[u] <= staffRotation[u]
        <5> SUFFICES ASSUME NEW u \in Session, staffVault'[u] # Nil
                     PROVE  staffVault'[u] <= staffRotation[u]
          OBVIOUS
        <5>1. CASE u = s
          BY <1>n, <3>2, <5>1
        <5>2. CASE u # s
          BY <1>4, <3>2, <5>2 DEF StaffTokens
        <5> QED BY <5>1, <5>2
      <4>4. ASSUME NEW q \in Process, Serving(q)' \in {"rotate", "store"},
                   staffVault'[staffRequest'[q].session] # Nil
            PROVE  staffRequest'[q].token <= staffVault'[staffRequest'[q].session]
        <5>1. /\ q # r /\ staffRequest'[q] = staffRequest[q] /\ Serving(q) \in {"rotate", "store"}
              /\ staffRequest[q].session \in Session
          BY <3>3, <4>2, <4>4 DEF Serving
        <5>2. CASE staffRequest[q].session = s
          <6>1. staffRequest[q].token <= staffVault[s]
            BY <1>4, <2>3, <5>1, <5>2 DEF StaffTokens
          <6> QED BY <1>h, <4>1, <5>1, <5>2, <6>1
        <5>3. CASE staffRequest[q].session # s
          BY <1>4, <3>2, <4>4, <5>1, <5>3 DEF StaffTokens
        <5> QED BY <5>2, <5>3
      <4> QED BY <2>0, <4>3, <4>4 DEF StaffTokens, Serving
    <3>7. StaffRotated'
      <4>2. \A q \in Process : Serving(q) \in {"rotate", "store"} => staffRequest[q].session \in Session
        BY <1>1, <1>k
      <4> QED BY <1>4, <2>0, <2>1, <3>1, <3>2, <3>3, <4>2 DEF StaffRotated, Serving
    <3>8. Staff!StoredTokenCurrent'
      BY <1>4, <2>0, <2>1, <3>2, <3>3 DEF Staff!StoredTokenCurrent, Staff!Live
    <3> QED BY <3>4, <3>5, <3>6, <3>7, <3>8 DEF StaffRest
  <2> QED BY <2>2, <2>3
<1>18. ASSUME staffIssued' = staffIssued, staffRotation' = staffRotation, staffRequest' = staffRequest,
              staffFence' = staffFence,
              \A s \in Session : staffVault'[s] = staffVault[s] \/ staffVault'[s] = Nil
       PROVE  StaffRest'
  <2>1. Staff!FencedNeverLive'
    BY <1>f, <1>18
  <2>2. CASE Process = {}
    BY <1>4, <1>18, <2>1, <2>2
       DEF StaffRest, StaffUnissued, StaffCreates, StaffTargets, StaffTokens, StaffRotated,
           Staff!StoredTokenCurrent, Staff!Live
  <2>3. CASE Process # {}
    <3>1. PICK r \in Process : TRUE
      BY <2>3
    <3> QED BY <1>0, <1>u, <1>18, <2>1, <3>1, StaffQuiet
  <2> QED BY <2>2, <2>3
<1>19. ASSUME NEW s \in Session, Staff!Expire(s) \/ Staff!LapseLease(s) PROVE StaffRest'
  BY <1>1, <1>18, <1>19 DEF Staff!Expire, Staff!LapseLease
<1>20. CASE UNCHANGED staffVars
  BY <1>18, <1>20 DEF staffVars
<1> QED
  BY <1>5, <1>6, <1>7, <1>8, <1>9, <1>10, <1>11, <1>12, <1>13, <1>14, <1>15, <1>16, <1>17, <1>19,
     <1>20
     DEF Staff!Next, Staff!RequestStep

\* The invariant of the workforce store holds in every reachable state.
THEOREM StaffInvariance == ASSUME StaffConstants PROVE Staff!Spec => []StaffInv
<1>1. Staff!Init => StaffInv
  <2> SUFFICES ASSUME Staff!Init PROVE StaffInv
    OBVIOUS
  <2>0. MaxToken \in Nat
    BY DEF StaffConstants
  <2>1. Staff!TypeOK
    BY <2>0, StaffIdle DEF Staff!Init, Staff!TypeOK, Staff!Token
  <2>2. \A r \in Process : Serving(r) = "idle" /\ staffRequest[r].list = {}
    BY StaffIdle DEF Staff!Init, Serving
  <2>3. StaffRest
    BY <2>2 DEF Staff!Init, StaffRest, StaffUnissued, StaffCreates, StaffTargets, StaffTokens,
       StaffRotated, Staff!StoredTokenCurrent, Staff!FencedNeverLive, Staff!Live
  <2> QED BY <2>1, <2>3 DEF StaffInv
<1>2. StaffInv /\ [Staff!Next]_staffVars => StaffInv'
  BY StaffStep
<1> QED BY <1>1, <1>2, PTL DEF Staff!Spec, Staff!vars, staffVars

\* No session lives behind its fence, and a stored session holds the refresh token
\* Keycloak accepts unless the refresh that rotated it is still to store it or to
\* end the session.
THEOREM StaffSessionsUsable ==
  ASSUME StaffConstants
  PROVE  Staff!Spec => [](Staff!FencedNeverLive /\ Staff!StoredTokenCurrent)
<1>1. StaffInv => Staff!FencedNeverLive /\ Staff!StoredTokenCurrent
  BY DEF StaffInv, StaffRest
<1> QED BY <1>1, StaffInvariance, PTL

\* Sessions that are deleted, and nothing else, end.
LEMMA StaffEnds ==
  ASSUME StaffConstants, StaffInv, NEW S,
         \A s \in Session : staffVault'[s] = IF s \in S THEN Nil ELSE staffVault[s],
         staffIssued' = staffIssued, staffFence' = staffFence
  PROVE  [StaffLifecycle!Next]_(StaffLifecycle!vars)
<1> DEFINE stageOf == [s \in Session |-> IF staffVault[s] # Nil THEN "live"
                                         ELSE IF s \in staffIssued THEN "ended" ELSE "new"]
<1>1. \A s \in Session : staffVault[s] # Nil => s \in staffIssued
  BY DEF StaffInv, StaffRest, StaffUnissued
<1>2. PICK X \in SUBSET Session : X = {s \in Session : s \in S /\ staffVault[s] # Nil}
  OBVIOUS
<1>3. stageOf' = [s \in Session |-> IF s \in X THEN "ended" ELSE stageOf[s]]
  BY <1>1, <1>2
<1>4. StaffLifecycle!End(X)
  BY <1>2, <1>3 DEF StaffLifecycle!End
<1> QED BY <1>4 DEF StaffLifecycle!Next

\* Sessions that are fenced and deleted end behind their fence.
LEMMA StaffFences ==
  ASSUME StaffConstants, StaffInv, NEW S \in SUBSET staffIssued,
         \A s \in Session : staffVault'[s] = IF s \in S THEN Nil ELSE staffVault[s],
         staffIssued' = staffIssued, staffFence' = staffFence \cup S
  PROVE  [StaffLifecycle!Next]_(StaffLifecycle!vars)
<1> DEFINE stageOf == [s \in Session |-> IF staffVault[s] # Nil THEN "live"
                                         ELSE IF s \in staffIssued THEN "ended" ELSE "new"]
<1>1. /\ \A s \in Session : staffVault[s] # Nil => s \in staffIssued
      /\ staffIssued \subseteq Session
  BY DEF StaffInv, StaffRest, StaffUnissued, Staff!TypeOK
<1>2. PICK X \in SUBSET Session : X = S
  BY <1>1
<1>3. stageOf' = [s \in Session |->
                   IF s \in X /\ stageOf[s] = "live" THEN "ended" ELSE stageOf[s]]
  BY <1>1, <1>2
<1>4. StaffLifecycle!Fence(X)
  BY <1>2, <1>3 DEF StaffLifecycle!Fence
<1> QED BY <1>4 DEF StaffLifecycle!Next

\* The workforce store implements SessionLifecycle.
THEOREM StaffRefinesLifecycle ==
  ASSUME StaffConstants PROVE Staff!Spec => StaffLifecycle!Spec
<1>1. Staff!Init => StaffLifecycle!Init
  BY DEF Staff!Init, StaffLifecycle!Init
<1>2. ASSUME StaffInv, [Staff!Next]_staffVars PROVE [StaffLifecycle!Next]_(StaffLifecycle!vars)
  <2>0. /\ StaffRest /\ staffVault \in [Session -> Staff!Token \cup {Nil}]
        /\ staffIssued \subseteq Session
    BY <1>2 DEF StaffInv, Staff!TypeOK
  <2>1. ASSUME UNCHANGED <<staffVault, staffIssued, staffFence>>
        PROVE  [StaffLifecycle!Next]_(StaffLifecycle!vars)
    BY <2>1 DEF StaffLifecycle!vars
  <2>2. ASSUME NEW r \in Process, Staff!Create(r)
        PROVE  [StaffLifecycle!Next]_(StaffLifecycle!vars)
    <3>1. PICK s \in Session \ staffIssued : s = staffRequest[r].session
      BY <2>0, <2>2 DEF Staff!Create, Staff!At, StaffRest, StaffCreates, Serving
    <3>2. /\ staffVault' = [staffVault EXCEPT ![s] = 0] /\ staffIssued' = staffIssued \cup {s}
          /\ staffFence' = staffFence \ {s}
      BY <2>2, <3>1 DEF Staff!Create
    <3>3. staffVault[s] = Nil /\ s \notin staffFence /\ staffFence' = staffFence
      BY <2>0, <3>1, <3>2 DEF StaffRest, StaffUnissued
    <3>4. /\ staffVault'[s] = 0 /\ 0 # Nil
          /\ \A u \in Session \ {s} : staffVault'[u] = staffVault[u]
      BY <2>0, <3>1, <3>2 DEF StaffConstants
    <3> DEFINE old == [u \in Session |-> IF staffVault[u] # Nil THEN "live"
                                          ELSE IF u \in staffIssued THEN "ended" ELSE "new"]
    <3>5. [u \in Session |-> IF staffVault'[u] # Nil THEN "live"
                             ELSE IF u \in staffIssued' THEN "ended" ELSE "new"]
            = [old EXCEPT ![s] = "live"]
      BY <3>1, <3>2, <3>4
    <3>6. old[s] = "new"
      BY <3>1, <3>3
    <3>7. StaffLifecycle!Open(s)
      BY <3>1, <3>3, <3>5, <3>6 DEF StaffLifecycle!Open
    <3> QED BY <3>7 DEF StaffLifecycle!Next, StaffLifecycle!vars
  <2>3. ASSUME NEW r \in Process, Staff!DeleteSession(r)
        PROVE  [StaffLifecycle!Next]_(StaffLifecycle!vars)
    <3>1. PICK s \in staffIssued : s = staffRequest[r].session
      BY <2>0, <2>3 DEF Staff!DeleteSession, Staff!At, StaffRest, StaffTargets, Serving
    <3>2. /\ staffVault' = [staffVault EXCEPT ![s] = Nil] /\ staffFence' = staffFence \cup {s}
          /\ staffIssued' = staffIssued
      BY <2>3, <3>1 DEF Staff!DeleteSession, Staff!Delete
    <3>3. \A u \in Session : staffVault'[u] = IF u \in {s} THEN Nil ELSE staffVault[u]
      BY <2>0, <3>2
    <3> QED BY <1>2, <3>2, <3>3, StaffFences
  <2>4. ASSUME NEW r \in Process, Staff!DeleteAll(r)
        PROVE  [StaffLifecycle!Next]_(StaffLifecycle!vars)
    <3>1. PICK S \in SUBSET staffIssued : S = staffRequest[r].list
      BY <2>0, <2>4 DEF StaffRest, StaffTargets
    <3> QED BY <1>2, <2>4, <3>1, StaffFences DEF Staff!DeleteAll
  <2>5. ASSUME NEW s \in Session, Staff!Expire(s)
        PROVE  [StaffLifecycle!Next]_(StaffLifecycle!vars)
    <3>1. \A u \in Session : staffVault'[u] = IF u \in {s} THEN Nil ELSE staffVault[u]
      BY <2>0, <2>5 DEF Staff!Expire
    <3> QED BY <1>2, <2>5, <3>1, StaffEnds DEF Staff!Expire
  <2>6. ASSUME NEW r \in Process, Staff!StoreRotated(r)
        PROVE  [StaffLifecycle!Next]_(StaffLifecycle!vars)
    <3>1. staffIssued' = staffIssued /\ staffFence' = staffFence
      BY <2>6 DEF Staff!StoreRotated
    <3>2. \A u \in Session : staffVault'[u] # Nil <=> staffVault[u] # Nil
      <4>1. PICK s \in Session : s = staffRequest[r].session
        BY <2>0, <2>6 DEF StaffRest, StaffTargets, Serving, Staff!StoreRotated, Staff!At
      <4>2. staffRequest[r].token + 1 # Nil
        BY <1>2 DEF StaffInv, Staff!TypeOK, Staff!Handling, Staff!Token, StaffConstants
      <4>3. \/ staffVault' = staffVault
            \/ staffVault[s] # Nil /\ staffVault' = [staffVault EXCEPT ![s] = staffRequest[r].token + 1]
        BY <2>6, <4>1 DEF Staff!StoreRotated
      <4> QED BY <2>0, <4>2, <4>3
    <3>3. UNCHANGED StaffLifecycle!vars
      BY <3>1, <3>2 DEF StaffLifecycle!vars
    <3> QED BY <3>3
  <2>7. ASSUME NEW r \in Process, NEW s \in Session,
               Staff!BeginCreate(r, s) \/ Staff!BeginEnsureFresh(r, s) \/ Staff!BeginLogout(r, s)
        PROVE  [StaffLifecycle!Next]_(StaffLifecycle!vars)
    BY <2>1, <2>7 DEF Staff!BeginCreate, Staff!BeginEnsureFresh, Staff!BeginLogout
  <2>8. ASSUME NEW r \in Process,
               \/ Staff!CheckSession(r) \/ Staff!AcquireLease(r) \/ Staff!ReadLatest(r)
               \/ Staff!RotateToken(r) \/ Staff!ReleaseLease(r) \/ Staff!BeginLogoutAll(r)
               \/ Staff!ListAgain(r)
        PROVE  [StaffLifecycle!Next]_(StaffLifecycle!vars)
    BY <2>1, <2>8 DEF Staff!CheckSession, Staff!AcquireLease, Staff!ReadLatest, Staff!RotateToken,
       Staff!ReleaseLease, Staff!BeginLogoutAll, Staff!ListAgain
  <2>9. ASSUME NEW s \in Session, Staff!LapseLease(s)
        PROVE  [StaffLifecycle!Next]_(StaffLifecycle!vars)
    BY <2>1, <2>9 DEF Staff!LapseLease
  <2>10. CASE UNCHANGED staffVars
    BY <2>1, <2>10 DEF staffVars
  <2> QED
    BY <1>2, <2>2, <2>3, <2>4, <2>5, <2>6, <2>7, <2>8, <2>9, <2>10 DEF Staff!Next, Staff!RequestStep
<1> QED
  BY <1>1, <1>2, StaffInvariance, PTL
  DEF Staff!Spec, StaffLifecycle!Spec, Staff!vars, staffVars

-----------------------------------------------------------------------------
(* The operator's password of the private database.                        *)

\* The stages at which a run of the operator may have asked for its password.
Running == {"set", "poll", "add", "list", "witness", "compare", "again"}
\* The types of what the operator's runs work on.
OperatorTypes ==
  /\ password \in Process \cup {Nil} /\ passwordsAsked \subseteq Credentials!Change
  /\ passwordsSettled \subseteq [change : Credentials!Change, applied : BOOLEAN]
  /\ secret \in Seq(Process) /\ sending \subseteq Process /\ contested \in BOOLEAN
  /\ witness \in [of : Process, version : Nat] \cup {Nil}
  /\ run \in [Process -> [at : Credentials!Stage, attempt : 0..2, version : Nat \cup {Nil}]]
  /\ \A r \in Process : run[r].at \in {"new", "set"} => run[r].attempt \in 0..1
\* The witness names a version of the secret that holds the password of the run it is
\* of, and so does the version a run added.
WitnessOfVersion ==
  /\ witness # Nil =>
       /\ witness.version \in 1..Len(secret) /\ secret[witness.version] = witness.of
  /\ \A r \in Process :
       /\ run[r].at = "done" => witness # Nil /\ witness.of = r
       /\ run[r].at \in {"witness", "compare", "again"} =>
            run[r].version \in 1..Len(secret) /\ secret[run[r].version] = r
       /\ run[r].at = "new" => \A s \in passwordsSettled : s.change.of # r
\* Where nobody contests a run, the password is its own and no change of another run
\* is on its way.
Uncontested ==
  /\ witness # Nil =>
       /\ password = witness.of /\ \A c \in passwordsAsked : c.of = witness.of
       /\ \A r \in Process : run[r].at \in Running => r = witness.of
  /\ \A r \in Process : run[r].at \in Running =>
       /\ \A q \in Process : run[q].at \in Running => q = r
       /\ sending \subseteq {r} /\ \A c \in passwordsAsked : c.of = r
       /\ \A s \in passwordsSettled : s.change.of = r /\ s.applied => password = r
       /\ run[r].at \notin {"set", "poll"} => password = r
\* The invariant of the operator's runs.
OperatorInv == OperatorTypes /\ WitnessOfVersion /\ (contested \/ Uncontested)

\* A run of the operator.
OperatorRow == [at : Credentials!Stage, attempt : 0..2, version : Nat \cup {Nil}]

\* A run that moves on keeps its attempt and its version.
LEMMA OperatorMove ==
  ASSUME OperatorTypes, NEW r \in Process, NEW x \in Credentials!Stage \ {"new", "set"},
         Credentials!Move(r, x)
  PROVE  /\ run' \in [Process -> OperatorRow]
         /\ \A q \in Process : run'[q].at \in {"new", "set"} => run'[q].attempt \in 0..1
         /\ run'[r].at = x /\ run'[r].attempt = run[r].attempt /\ run'[r].version = run[r].version
         /\ \A q \in Process \ {r} : run'[q] = run[q]
<1>1. run \in [Process -> OperatorRow] /\ \A q \in Process : run[q].at \in {"new", "set"} => run[q].attempt \in 0..1
  BY DEF OperatorTypes, OperatorRow
<1>2. [run[r] EXCEPT !.at = x] \in OperatorRow /\ [run[r] EXCEPT !.at = x].at = x
  BY <1>1 DEF OperatorRow
<1>3. run' = [run EXCEPT ![r] = [run[r] EXCEPT !.at = x]]
  BY <1>1 DEF Credentials!Move
<1> QED BY <1>1, <1>2, <1>3 DEF OperatorRow

\* The fields of a run.
LEMMA OperatorAt ==
  ASSUME OperatorTypes, NEW r \in Process
  PROVE  /\ run[r].at \in Credentials!Stage /\ run[r].attempt \in 0..2
         /\ run[r].version \in Nat \cup {Nil}
BY DEF OperatorTypes

\* Adding a version to a secret leaves the versions before it.
LEMMA Appended ==
  ASSUME NEW S, NEW v \in Seq(S), NEW x \in S
  PROVE  /\ Append(v, x) \in Seq(S) /\ Len(Append(v, x)) = Len(v) + 1 /\ Len(v) \in Nat
         /\ \A i \in 1..Len(v) : i \in 1..Len(Append(v, x)) /\ Append(v, x)[i] = v[i]
         /\ Append(v, x)[Len(v) + 1] = x
BY AppendProperties, LenProperties

\* What a run that leaves password, secret and witness alone leaves true.
LEMMA OperatorGoes ==
  ASSUME OperatorInv, OperatorTypes', NEW r \in Process,
         \/ run[r].at \in Running /\ run'[r].at \in Running \cup {"done", "ended"}
         \/ run'[r].at = "ended",
         \A q \in Process \ {r} : run'[q] = run[q],
         UNCHANGED <<password, secret, witness, contested>>,
         \A c \in passwordsAsked' \ passwordsAsked : c.of = r /\ run[r].at \in Running,
         \A q \in sending' \ sending : q = r /\ run[r].at \in Running,
         passwordsSettled' \subseteq passwordsSettled,
         run'[r].at = "done" => witness # Nil /\ witness.of = r,
         run'[r].at \in {"witness", "compare", "again"} =>
           run'[r].version \in 1..Len(secret) /\ secret[run'[r].version] = r,
         run'[r].at \in Running \ {"set", "poll"} =>
           contested \/ run[r].at \notin {"set", "poll"} \/ password = r
  PROVE  OperatorInv'
<1>1. OperatorTypes /\ WitnessOfVersion /\ (contested \/ Uncontested)
  BY DEF OperatorInv
<1>2. WitnessOfVersion'
  <2>1. ASSUME NEW q \in Process
        PROVE  /\ run'[q].at = "done" => witness # Nil /\ witness.of = q
               /\ run'[q].at \in {"witness", "compare", "again"} =>
                    run'[q].version \in 1..Len(secret) /\ secret[run'[q].version] = q
               /\ run'[q].at = "new" => \A s \in passwordsSettled' : s.change.of # q
    <3>1. CASE q = r
      BY <3>1 DEF Running
    <3>2. CASE q # r
      BY <1>1, <3>2 DEF WitnessOfVersion
    <3> QED BY <3>1, <3>2
  <2> QED BY <1>1, <2>1 DEF WitnessOfVersion
<1>3. CASE Uncontested /\ ~contested
  <2>1. \A q \in Process : run'[q].at \in Running => run[q].at \in Running
    BY DEF Running
  <2>2. ASSUME witness # Nil
        PROVE  /\ password = witness.of /\ \A c \in passwordsAsked' : c.of = witness.of
               /\ \A q \in Process : run'[q].at \in Running => q = witness.of
    BY <1>3, <2>1, <2>2 DEF Uncontested
  <2>3. ASSUME NEW q \in Process, run'[q].at \in Running
        PROVE  /\ \A u \in Process : run'[u].at \in Running => u = q
               /\ sending' \subseteq {q} /\ \A c \in passwordsAsked' : c.of = q
               /\ \A s \in passwordsSettled' : s.change.of = q /\ s.applied => password = q
               /\ run'[q].at \notin {"set", "poll"} => password = q
    <3>1. /\ \A u \in Process : run[u].at \in Running => u = q
          /\ sending \subseteq {q} /\ \A c \in passwordsAsked : c.of = q
          /\ \A s \in passwordsSettled : s.change.of = q /\ s.applied => password = q
          /\ run[q].at \notin {"set", "poll"} => password = q
      BY <1>3, <2>1, <2>3 DEF Uncontested
    <3>2. run[r].at \in Running => r = q
      BY <3>1
    <3>3. run'[q].at \notin {"set", "poll"} => password = q
      <4>1. CASE q = r
        BY <1>3, <2>3, <3>1, <4>1
      <4>2. CASE q # r
        BY <3>1, <4>2
      <4> QED BY <4>1, <4>2
    <3> QED BY <2>1, <3>1, <3>2, <3>3
  <2> QED BY <1>2, <2>2, <2>3 DEF OperatorInv, Uncontested
<1> QED BY <1>1, <1>2, <1>3 DEF OperatorInv

\* Every step of an operator's run, and every change that settles, keeps the
\* invariant.
LEMMA OperatorStep ==
  ASSUME OperatorConstants, OperatorInv,
         ((\E r \in Process : Credentials!Operate(r)) \/ Credentials!SettleChange)
           \/ UNCHANGED Credentials!operatorVars
  PROVE  OperatorInv'
<1>1. OperatorTypes /\ WitnessOfVersion /\ (contested \/ Uncontested)
  BY DEF OperatorInv
<1>2. ASSUME NEW r \in Process, NEW x \in Credentials!Stage \ {"new", "set"}, Credentials!Move(r, x),
             UNCHANGED <<password, secret, witness, contested>>,
             passwordsAsked' = passwordsAsked, sending' \subseteq Process,
             passwordsSettled' \subseteq passwordsSettled
      PROVE  /\ OperatorTypes' /\ run'[r].at = x /\ run'[r].version = run[r].version
             /\ \A q \in Process \ {r} : run'[q] = run[q]
  <2>1. /\ run' \in [Process -> OperatorRow]
        /\ \A q \in Process : run'[q].at \in {"new", "set"} => run'[q].attempt \in 0..1
        /\ run'[r].at = x /\ run'[r].version = run[r].version
        /\ \A q \in Process \ {r} : run'[q] = run[q]
    BY <1>1, <1>2, OperatorMove
  <2>2. /\ passwordsSettled' \subseteq [change : Credentials!Change, applied : BOOLEAN]
        /\ sending' \subseteq Process /\ UNCHANGED passwordsAsked
    BY <1>1, <1>2 DEF OperatorTypes
  <2> QED BY <1>1, <1>2, <2>1, <2>2 DEF OperatorTypes, OperatorRow
<1>3. ASSUME NEW r \in Process,
             Credentials!Refuse(r) \/ Credentials!CrashRun(r)
      PROVE  OperatorInv'
  <2>1. /\ Credentials!Move(r, "ended") /\ UNCHANGED <<password, secret, witness, contested>>
        /\ UNCHANGED <<passwordsAsked, passwordsSettled, sending>>
    BY <1>3 DEF Credentials!Refuse, Credentials!CrashRun, Credentials!passwordVars,
       Credentials!secretVars
  <2>2. /\ OperatorTypes' /\ run'[r].at = "ended" /\ \A q \in Process \ {r} : run'[q] = run[q]
    BY <1>1, <1>2, <2>1 DEF OperatorTypes, Credentials!Stage
  <2> QED BY <2>1, <2>2, OperatorGoes DEF Running
<1>4. ASSUME NEW r \in Process, Credentials!Begin(r) PROVE OperatorInv'
  <2>1. /\ run[r].at = "new" /\ secret = <<>> /\ witness = Nil
        /\ run' = [run EXCEPT ![r].at = "set"]
        /\ contested' = (contested \/ passwordsAsked # {} \/ sending # {}
                           \/ \E q \in Process : ~Credentials!Over(q))
        /\ UNCHANGED <<password, passwordsAsked, passwordsSettled, secret, sending, witness>>
    BY <1>4 DEF Credentials!Begin, Credentials!At, Credentials!Move, Credentials!passwordVars,
       Credentials!secretVars
  <2>2. /\ \A q \in Process \ {r} : run'[q] = run[q]
        /\ run'[r].at = "set" /\ run'[r].attempt = run[r].attempt
        /\ run' \in [Process -> OperatorRow]
    <3>1. run \in [Process -> OperatorRow] /\ "set" \in Credentials!Stage
      BY <1>1 DEF OperatorTypes, OperatorRow, Credentials!Stage
    <3>2. [run[r] EXCEPT !.at = "set"] \in OperatorRow
      BY <3>1 DEF OperatorRow
    <3>3. run' = [run EXCEPT ![r] = [run[r] EXCEPT !.at = "set"]]
      BY <2>1, <3>1
    <3>4. [run[r] EXCEPT !.at = "set"].at = "set" /\ [run[r] EXCEPT !.at = "set"].attempt = run[r].attempt
      BY <3>1 DEF OperatorRow
    <3> QED BY <3>1, <3>2, <3>3, <3>4
  <2>3. OperatorTypes'
    <3>1. \A q \in Process : run'[q].at \in {"new", "set"} => run'[q].attempt \in 0..1
      BY <1>1, <2>1, <2>2 DEF OperatorTypes
    <3> QED BY <1>1, <2>1, <2>2, <3>1 DEF OperatorTypes, OperatorRow
  <2>4. WitnessOfVersion'
    BY <1>1, <2>1, <2>2 DEF WitnessOfVersion
  <2>5. ~contested' => Uncontested'
    <3>1. SUFFICES ASSUME ~contested'
                   PROVE  /\ \A q \in Process : run'[q].at \in Running => q = r
                          /\ \A s \in passwordsSettled : s.change.of # r
                          /\ passwordsAsked = {} /\ sending = {}
      BY <2>1, <2>2 DEF Uncontested
    <3>2. /\ passwordsAsked = {} /\ sending = {}
          /\ \A q \in Process : run[q].at \in {"new", "done", "ended"}
      BY <2>1, <3>1 DEF Credentials!Over
    <3>3. \A s \in passwordsSettled : s.change.of # r
      BY <1>1, <2>1 DEF WitnessOfVersion
    <3>4. \A q \in Process : run'[q].at \in Running => q = r
      BY <2>2, <3>2 DEF Running
    <3> QED BY <3>2, <3>3, <3>4
  <2>6. contested' \in BOOLEAN
    BY <2>3 DEF OperatorTypes
  <2> QED BY <2>3, <2>4, <2>5 DEF OperatorInv
<1>5. ASSUME NEW r \in Process, Credentials!SetPassword(r) PROVE OperatorInv'
  <2>1. PICK n \in {1, 2} : n = run[r].attempt + 1
    BY <1>1, <1>5 DEF OperatorTypes, Credentials!SetPassword, Credentials!At
  <2>2. PICK x \in {"poll", "ended", "set"} :
          /\ run' = [run EXCEPT ![r].attempt = n, ![r].at = x] /\ (x = "set" => n = 1)
          /\ passwordsAsked' \in {passwordsAsked, passwordsAsked \cup {[of |-> r, attempt |-> n]}}
          /\ run[r].at = "set"
          /\ UNCHANGED <<password, passwordsSettled, secret, sending, witness, contested>>
    BY <1>5, <2>1 DEF Credentials!SetPassword, Credentials!At, Credentials!secretVars
  <2>3. /\ \A q \in Process \ {r} : run'[q] = run[q]
        /\ run'[r].at = x /\ run'[r].attempt = n
        /\ run' \in [Process -> OperatorRow]
    <3>1. run \in [Process -> OperatorRow] /\ x \in Credentials!Stage
      BY <1>1 DEF OperatorTypes, OperatorRow, Credentials!Stage
    <3>2. [run[r] EXCEPT !.attempt = n, !.at = x] \in OperatorRow
      <4>1. n \in 0..2
        OBVIOUS
      <4>2. run[r] \in OperatorRow
        BY <3>1
      <4> QED BY <3>1, <4>1, <4>2 DEF OperatorRow
    <3>3. run' = [run EXCEPT ![r] = [run[r] EXCEPT !.attempt = n, !.at = x]]
      BY <2>2, <3>1
    <3>4. /\ [run[r] EXCEPT !.attempt = n, !.at = x].at = x
          /\ [run[r] EXCEPT !.attempt = n, !.at = x].attempt = n
      BY <3>1 DEF OperatorRow
    <3> QED BY <3>1, <3>2, <3>3, <3>4
  <2>4. OperatorTypes'
    <3>1. \A q \in Process : run'[q].at \in {"new", "set"} => run'[q].attempt \in 0..1
      BY <1>1, <2>2, <2>3 DEF OperatorTypes
    <3>2. [of |-> r, attempt |-> n] \in Credentials!Change
      BY DEF Credentials!Change
    <3> QED BY <1>1, <2>2, <2>3, <3>1, <3>2 DEF OperatorTypes, OperatorRow
  <2>5. \A c \in passwordsAsked' \ passwordsAsked : c.of = r
    BY <2>2
  <2> QED BY <2>2, <2>3, <2>4, <2>5, OperatorGoes DEF Running
<1>6. ASSUME NEW r \in Process, Credentials!Poll(r) PROVE OperatorInv'
  <2>1. PICK s \in passwordsSettled :
          /\ s.change = [of |-> r, attempt |-> run[r].attempt] /\ run[r].at = "poll"
          /\ Credentials!Move(r, IF s.applied THEN "add" ELSE "ended")
          /\ passwordsSettled' = passwordsSettled \ {s}
          /\ UNCHANGED <<password, passwordsAsked, secret, sending, witness, contested>>
    BY <1>6 DEF Credentials!Poll, Credentials!At, Credentials!secretVars
  <2>2. PICK x \in {"add", "ended"} : Credentials!Move(r, x) /\ (x = "add" => s.applied)
    BY <2>1
  <2>3. x \in Credentials!Stage \ {"new", "set"}
    BY DEF Credentials!Stage
  <2>4. /\ OperatorTypes' /\ run'[r].at = x /\ \A q \in Process \ {r} : run'[q] = run[q]
    <3>1. sending' \subseteq Process
      BY <1>1, <2>1 DEF OperatorTypes
    <3> QED BY <1>2, <2>1, <2>2, <2>3, <3>1
  <2>5. x = "add" => contested \/ password = r
    BY <1>1, <2>1, <2>2 DEF Uncontested, Running
  <2> QED BY <2>1, <2>4, <2>5, OperatorGoes DEF Running
<1>7. ASSUME NEW r \in Process, Credentials!AddVersion(r) PROVE OperatorInv'
  <2>0. run[r].at = "add" /\ UNCHANGED <<password, passwordsAsked, passwordsSettled, witness, contested>>
    BY <1>7 DEF Credentials!AddVersion, Credentials!At, Credentials!passwordVars
  <2>1. CASE sending' \in {sending, sending \cup {r}} /\ Credentials!Move(r, "list") /\ secret' = secret
    <3>1. sending' \subseteq Process
      BY <1>1, <2>1 DEF OperatorTypes
    <3>2. "list" \in Credentials!Stage \ {"new", "set"}
      BY DEF Credentials!Stage
    <3>3. /\ OperatorTypes' /\ run'[r].at = "list" /\ \A q \in Process \ {r} : run'[q] = run[q]
      BY <1>2, <2>0, <2>1, <3>1, <3>2
    <3> QED BY <2>0, <2>1, <3>3, OperatorGoes DEF Running
  <2>2. CASE /\ secret' = Append(secret, r) /\ sending' = sending
             /\ run' = [run EXCEPT ![r].version = Len(secret) + 1, ![r].at = "witness"]
    <3>0. secret \in Seq(Process) /\ run \in [Process -> OperatorRow]
      BY <1>1 DEF OperatorTypes, OperatorRow
    <3>1. /\ secret' \in Seq(Process) /\ Len(secret') = Len(secret) + 1 /\ Len(secret) \in Nat
          /\ \A i \in 1..Len(secret) : i \in 1..Len(secret') /\ secret'[i] = secret[i]
          /\ secret'[Len(secret) + 1] = r
      BY <2>2, <3>0, Appended
    <3>2. /\ \A q \in Process \ {r} : run'[q] = run[q]
          /\ run'[r].at = "witness" /\ run'[r].version = Len(secret) + 1
          /\ run' \in [Process -> OperatorRow]
      <4>1. [run[r] EXCEPT !.version = Len(secret) + 1, !.at = "witness"] \in OperatorRow
        <5>1. Len(secret) + 1 \in Nat /\ "witness" \in Credentials!Stage /\ run[r] \in OperatorRow
          BY <3>0, <3>1 DEF Credentials!Stage
        <5> QED BY <5>1 DEF OperatorRow
      <4>2. run' = [run EXCEPT ![r] = [run[r] EXCEPT !.version = Len(secret) + 1, !.at = "witness"]]
        BY <2>2, <3>0
      <4>3. /\ [run[r] EXCEPT !.version = Len(secret) + 1, !.at = "witness"].at = "witness"
            /\ [run[r] EXCEPT !.version = Len(secret) + 1, !.at = "witness"].version = Len(secret) + 1
        BY <3>0 DEF OperatorRow
      <4> QED BY <3>0, <4>1, <4>2, <4>3
    <3>3. OperatorTypes'
      <4>1. \A q \in Process : run'[q].at \in {"new", "set"} => run'[q].attempt \in 0..1
        BY <1>1, <3>2 DEF OperatorTypes
      <4> QED BY <1>1, <2>0, <2>2, <3>1, <3>2, <4>1 DEF OperatorTypes, OperatorRow
    <3>4. WitnessOfVersion'
      <4>1. ASSUME NEW q \in Process
            PROVE  /\ run'[q].at = "done" => witness # Nil /\ witness.of = q
                   /\ run'[q].at \in {"witness", "compare", "again"} =>
                        run'[q].version \in 1..Len(secret') /\ secret'[run'[q].version] = q
                   /\ run'[q].at = "new" => \A s \in passwordsSettled : s.change.of # q
        <5>1. CASE q = r
          BY <3>1, <3>2, <5>1
        <5>2. CASE q # r
          BY <1>1, <3>1, <3>2, <5>2 DEF WitnessOfVersion
        <5> QED BY <5>1, <5>2
      <4> QED BY <1>1, <2>0, <3>1, <4>1 DEF WitnessOfVersion
    <3>5. Uncontested => Uncontested'
      BY <2>0, <2>2, <3>2 DEF Uncontested, Running
    <3> QED BY <1>1, <2>0, <3>3, <3>4, <3>5 DEF OperatorInv
  <2> QED BY <1>7, <2>1, <2>2 DEF Credentials!AddVersion
<1>8. ASSUME NEW r \in Process, Credentials!Arrive(r) PROVE OperatorInv'
  <2>0. /\ r \in sending /\ sending' = sending \ {r} /\ secret' = Append(secret, r)
        /\ UNCHANGED <<password, passwordsAsked, passwordsSettled, witness, run, contested>>
    BY <1>8 DEF Credentials!Arrive, Credentials!passwordVars
  <2>1. secret \in Seq(Process)
    BY <1>1 DEF OperatorTypes
  <2>2. /\ secret' \in Seq(Process) /\ Len(secret') = Len(secret) + 1 /\ Len(secret) \in Nat
        /\ \A i \in 1..Len(secret) : i \in 1..Len(secret') /\ secret'[i] = secret[i]
    BY <2>0, <2>1, Appended
  <2>3. OperatorTypes'
    BY <1>1, <2>0, <2>2 DEF OperatorTypes
  <2>4. WitnessOfVersion'
    BY <1>1, <2>0, <2>2 DEF WitnessOfVersion
  <2>5. Uncontested => Uncontested'
    BY <2>0 DEF Uncontested
  <2> QED BY <1>1, <2>0, <2>3, <2>4, <2>5 DEF OperatorInv
<1>9. ASSUME NEW r \in Process, Credentials!ListVersions(r) PROVE OperatorInv'
  <2>0. /\ run[r].at = "list"
        /\ UNCHANGED <<password, passwordsAsked, passwordsSettled, secret, sending, witness, contested>>
    BY <1>9 DEF Credentials!ListVersions, Credentials!At, Credentials!passwordVars,
       Credentials!secretVars
  <2>1. CASE secret = <<r>> /\ run' = [run EXCEPT ![r].version = 1, ![r].at = "witness"]
    <3>0. run \in [Process -> OperatorRow]
      BY <1>1 DEF OperatorTypes, OperatorRow
    <3>1. /\ \A q \in Process \ {r} : run'[q] = run[q]
          /\ run'[r].at = "witness" /\ run'[r].version = 1 /\ run' \in [Process -> OperatorRow]
      <4>1. [run[r] EXCEPT !.version = 1, !.at = "witness"] \in OperatorRow
        BY <3>0 DEF OperatorRow, Credentials!Stage
      <4>2. run' = [run EXCEPT ![r] = [run[r] EXCEPT !.version = 1, !.at = "witness"]]
        BY <2>1, <3>0
      <4>3. /\ [run[r] EXCEPT !.version = 1, !.at = "witness"].at = "witness"
            /\ [run[r] EXCEPT !.version = 1, !.at = "witness"].version = 1
        BY <3>0 DEF OperatorRow
      <4> QED BY <3>0, <4>1, <4>2, <4>3
    <3>2. OperatorTypes'
      <4>1. \A q \in Process : run'[q].at \in {"new", "set"} => run'[q].attempt \in 0..1
        BY <1>1, <3>1 DEF OperatorTypes
      <4> QED BY <1>1, <2>0, <3>1, <4>1 DEF OperatorTypes, OperatorRow
    <3>3. 1 \in 1..Len(secret) /\ secret[1] = r
      BY <2>1
    <3> QED BY <2>0, <3>1, <3>2, <3>3, OperatorGoes DEF Running
  <2>2. CASE run' = [run EXCEPT ![r].at = "ended"]
    <3>1. Credentials!Move(r, "ended") /\ "ended" \in Credentials!Stage \ {"new", "set"}
      BY <2>2 DEF Credentials!Move, Credentials!Stage
    <3>2. sending' \subseteq Process
      BY <1>1, <2>0 DEF OperatorTypes
    <3>3. /\ OperatorTypes' /\ run'[r].at = "ended" /\ \A q \in Process \ {r} : run'[q] = run[q]
      BY <1>2, <2>0, <3>1, <3>2
    <3> QED BY <2>0, <3>3, OperatorGoes DEF Running
  <2> QED BY <1>9, <2>1, <2>2 DEF Credentials!ListVersions
<1>10. ASSUME NEW r \in Process, Credentials!CreateWitness(r) PROVE OperatorInv'
  <2>0. /\ run[r].at \in {"witness", "again"}
        /\ UNCHANGED <<password, passwordsAsked, passwordsSettled, secret, sending, contested>>
    BY <1>10 DEF Credentials!CreateWitness, Credentials!passwordVars, Credentials!secretVars
  <2>1. PICK x \in {"done", "ended", "compare"} :
          /\ run' = [run EXCEPT ![r].at = x]
          /\ \/ witness = Nil /\ witness' = Credentials!Receipt(r)
             \/ witness' = witness /\ x # "done"
    BY <1>10 DEF Credentials!CreateWitness, Credentials!Move
  <2>2. x \in Credentials!Stage \ {"new", "set"}
    BY DEF Credentials!Stage
  <2>3. /\ run' \in [Process -> OperatorRow]
        /\ \A q \in Process : run'[q].at \in {"new", "set"} => run'[q].attempt \in 0..1
        /\ run'[r].at = x /\ run'[r].version = run[r].version
        /\ \A q \in Process \ {r} : run'[q] = run[q]
    BY <1>1, <2>1, <2>2, OperatorMove DEF Credentials!Move
  <2>4. run[r].version \in 1..Len(secret) /\ secret[run[r].version] = r
    BY <1>1, <2>0 DEF WitnessOfVersion
  <2>5. CASE witness' = witness /\ x # "done"
    <3>1. OperatorTypes'
      BY <1>1, <2>0, <2>3, <2>5 DEF OperatorTypes, OperatorRow
    <3> QED BY <2>0, <2>3, <2>4, <2>5, <3>1, OperatorGoes DEF Running
  <2>6. CASE witness = Nil /\ witness' = Credentials!Receipt(r)
    <3>1. /\ witness' \in [of : Process, version : Nat] /\ witness' # Nil
          /\ witness'.of = r /\ witness'.version = run[r].version
      <4>1. Len(secret) \in Nat
        BY <1>1, LenProperties DEF OperatorTypes
      <4>2. witness' = [of |-> r, version |-> run[r].version] /\ run[r].version \in Nat
        BY <2>4, <2>6, <4>1 DEF Credentials!Receipt
      <4> QED BY <4>2 DEF OperatorConstants
    <3>2. OperatorTypes'
      BY <1>1, <2>0, <2>3, <3>1 DEF OperatorTypes, OperatorRow
    <3>3. WitnessOfVersion'
      BY <1>1, <2>0, <2>3, <2>4, <2>6, <3>1 DEF WitnessOfVersion
    <3>4. Uncontested => Uncontested'
      BY <2>0, <2>3, <3>1 DEF Uncontested, Running
    <3> QED BY <1>1, <2>0, <3>2, <3>3, <3>4 DEF OperatorInv
  <2> QED BY <2>1, <2>5, <2>6
<1>11. ASSUME NEW r \in Process, Credentials!CompareWitness(r) PROVE OperatorInv'
  <2>0. /\ run[r].at = "compare"
        /\ UNCHANGED <<password, passwordsAsked, passwordsSettled, secret, sending, witness, contested>>
    BY <1>11 DEF Credentials!CompareWitness, Credentials!At, Credentials!passwordVars,
       Credentials!secretVars
  <2>1. PICK x \in {"again", "done", "ended"} :
          Credentials!Move(r, x) /\ (x = "done" => witness # Nil /\ witness = Credentials!Receipt(r))
    <3>1. CASE witness = Nil
      BY <1>11, <3>1 DEF Credentials!CompareWitness
    <3>2. CASE witness # Nil /\ witness = Credentials!Receipt(r)
      BY <1>11, <3>2 DEF Credentials!CompareWitness
    <3>3. CASE witness # Nil /\ witness # Credentials!Receipt(r)
      BY <1>11, <3>3 DEF Credentials!CompareWitness
    <3> QED BY <3>1, <3>2, <3>3
  <2>2. x \in Credentials!Stage \ {"new", "set"}
    BY DEF Credentials!Stage
  <2>3. /\ OperatorTypes' /\ run'[r].at = x /\ run'[r].version = run[r].version
        /\ \A q \in Process \ {r} : run'[q] = run[q]
    <3>1. sending' \subseteq Process
      BY <1>1, <2>0 DEF OperatorTypes
    <3> QED BY <1>2, <2>0, <2>1, <2>2, <3>1
  <2>4. x = "done" => witness # Nil /\ witness.of = r
    BY <2>1 DEF Credentials!Receipt
  <2>5. run[r].version \in 1..Len(secret) /\ secret[run[r].version] = r
    BY <1>1, <2>0 DEF WitnessOfVersion
  <2> QED BY <2>0, <2>3, <2>4, <2>5, OperatorGoes DEF Running
<1>12. CASE Credentials!SettleChange
  <2>1. PICK c \in passwordsAsked, applied \in BOOLEAN :
          /\ passwordsAsked' = passwordsAsked \ {c}
          /\ passwordsSettled' = IF Credentials!Polled(c)
                                 THEN passwordsSettled \cup {[change |-> c, applied |-> applied]}
                                 ELSE passwordsSettled
          /\ password' = IF applied THEN c.of ELSE password
          /\ UNCHANGED <<secret, sending, witness, run, contested>>
    BY <1>12 DEF Credentials!SettleChange, Credentials!secretVars
  <2>2. c \in Credentials!Change /\ c.of \in Process
    BY <1>1 DEF OperatorTypes, Credentials!Change
  <2>3. OperatorTypes'
    BY <1>1, <2>1, <2>2 DEF OperatorTypes
  <2>4. \A s \in passwordsSettled' \ passwordsSettled :
          s.change = c /\ s.applied = applied /\ run[c.of].at = "poll"
    BY <2>1 DEF Credentials!Polled, Credentials!At
  <2>5. WitnessOfVersion'
    BY <1>1, <2>1, <2>4 DEF WitnessOfVersion
  <2>6. Uncontested => Uncontested'
    <3>1. SUFFICES ASSUME Uncontested PROVE Uncontested'
      OBVIOUS
    <3>2. witness # Nil => password' = witness.of
      BY <2>1, <3>1 DEF Uncontested
    <3>3. ASSUME NEW r \in Process, run[r].at \in Running
          PROVE  /\ \A s \in passwordsSettled' : s.change.of = r /\ s.applied => password' = r
                 /\ run[r].at \notin {"set", "poll"} => password' = r
      <4>1. c.of = r
        BY <2>1, <3>1, <3>3 DEF Uncontested
      <4> QED BY <2>1, <2>4, <3>1, <3>3, <4>1 DEF Uncontested
    <3> QED BY <2>1, <3>1, <3>2, <3>3 DEF Uncontested
  <2> QED BY <1>1, <2>1, <2>3, <2>5, <2>6 DEF OperatorInv
<1>13. CASE UNCHANGED Credentials!operatorVars
  <2>1. UNCHANGED <<password, passwordsAsked, passwordsSettled, secret, sending, witness, run, contested>>
    BY <1>13 DEF Credentials!operatorVars
  <2> QED BY <1>1, <2>1 DEF OperatorInv, OperatorTypes, WitnessOfVersion, Uncontested
<1> QED
  BY <1>3, <1>4, <1>5, <1>6, <1>7, <1>8, <1>9, <1>10, <1>11, <1>12, <1>13 DEF Credentials!Operate

\* The invariant of the operator's runs holds in every reachable state.
THEOREM OperatorInvariance ==
  ASSUME OperatorConstants
  PROVE  Credentials!Spec => []OperatorInv
<1>1. Credentials!Init => OperatorInv
  <2> SUFFICES ASSUME Credentials!Init PROVE OperatorInv
    OBVIOUS
  <2>1. /\ password = Nil /\ passwordsAsked = {} /\ passwordsSettled = {} /\ secret = <<>>
        /\ sending = {} /\ witness = Nil /\ contested = FALSE
        /\ run = [r \in Process |-> [at |-> "new", attempt |-> 0, version |-> Nil]]
    BY DEF Credentials!Init
  <2>2. /\ \A r \in Process : run[r].at = "new" /\ run[r].attempt = 0
        /\ run \in [Process -> OperatorRow]
    BY <2>1 DEF OperatorRow, Credentials!Stage
  <2>3. OperatorTypes
    <3>1. \A r \in Process : run[r].at \in {"new", "set"} => run[r].attempt \in 0..1
      BY <2>2
    <3>2. secret \in Seq(Process)
      BY <2>1
    <3> QED BY <2>1, <2>2, <3>1, <3>2 DEF OperatorTypes, OperatorRow
  <2>4. WitnessOfVersion /\ Uncontested
    BY <2>1, <2>2 DEF WitnessOfVersion, Uncontested, Running
  <2> QED BY <2>3, <2>4 DEF OperatorInv
<1>2. OperatorInv /\ [Credentials!Next]_(Credentials!vars) => OperatorInv'
  <2> SUFFICES ASSUME OperatorInv, [Credentials!Next]_(Credentials!vars) PROVE OperatorInv'
    OBVIOUS
  <2>1. UNCHANGED Credentials!vars => UNCHANGED Credentials!operatorVars
    BY DEF Credentials!vars
  <2> QED BY <2>1, OperatorStep DEF Credentials!Next
<1> QED BY <1>1, <1>2, PTL DEF Credentials!Spec

\* The version that a witness names holds the password of the run the witness is of,
\* which is the database's password too unless runs overlapped.
THEOREM WitnessesTrue ==
  ASSUME OperatorConstants PROVE Credentials!Spec => []Credentials!WitnessIsTrue
<1>1. OperatorInv => Credentials!WitnessIsTrue
  BY DEF OperatorInv, WitnessOfVersion, Uncontested, Credentials!WitnessIsTrue, Credentials!At
<1> QED BY <1>1, OperatorInvariance, PTL

-----------------------------------------------------------------------------
(* The epoch of the database's logins.                                     *)

\* A run of the identity job.
JobRow == [at : Credentials!Phase, todo : SUBSET Credentials!LoginVersion, incomplete : BOOLEAN]
\* A version of a login's secret that was added and acknowledged.
Published(l, c) == [login |-> l, of |-> c, enabled |-> TRUE, heard |-> TRUE]
\* The types of what the identity job works on.
EpochTypes ==
  /\ epoch \in Credentials!EpochRow \cup {Nil}
  /\ login \in [Credentials!Login -> Session \cup {Nil}]
  /\ version \subseteq Credentials!LoginVersion
  /\ doubt \in Session \cup {Nil} /\ job \in [Session -> JobRow]
\* A run that got past the reservation works for the epoch, in the state it needs.
JobsServeEpoch ==
  \A c \in Session :
    /\ job[c].at \notin {"new", "reserve", "ended"} => epoch # Nil /\ epoch.of = c
    /\ job[c].at \in {"submitter", "reconciler", "commit", "disable", "record"} =>
         epoch.state = "reserved" /\ doubt = Nil
    /\ job[c].at = "unsure" => epoch.state \in {"reserved", "completed"}
    /\ job[c].at = "done" => epoch.state = "completed"
\* Versions are of the epoch's claim; a run past a login has published its version,
\* and one that disables them has on its list, or reports, whatever is left.
VersionsPublished ==
  /\ \A v \in version : epoch # Nil /\ v.of = epoch.of
  /\ \A c \in Session :
       /\ job[c].at \in {"reconciler", "commit", "unsure"} => Published("submitter", c) \in version
       /\ job[c].at \in {"commit", "unsure"} => Published("reconciler", c) \in version
       /\ job[c].at = "disable" => \A v \in job[c].todo : v.of = c
       /\ \A v \in version : v.enabled /\ v.heard =>
            /\ job[c].at = "disable" => v \in job[c].todo \/ job[c].incomplete
            /\ job[c].at = "record" => job[c].incomplete
\* A commit in doubt is of the reserved epoch, with both versions published.
DoubtHolds ==
  doubt # Nil =>
    /\ epoch # Nil /\ epoch.of = doubt /\ epoch.state = "reserved"
    /\ \A l \in Credentials!Login : Published(l, doubt) \in version
\* The invariant of the identity job beside its types.
EpochRest ==
  /\ JobsServeEpoch /\ VersionsPublished /\ DoubtHolds
  /\ Credentials!LoginsMatchEpoch /\ Credentials!FailureLeavesUnheard
EpochInv == EpochTypes /\ EpochRest

\* A run that moves on keeps its list.
LEMMA JobGo ==
  ASSUME EpochTypes, NEW c \in Session, NEW x \in Credentials!Phase, Credentials!Go(c, x)
  PROVE  /\ job' \in [Session -> JobRow]
         /\ job'[c].at = x /\ job'[c].todo = job[c].todo
         /\ job'[c].incomplete = job[c].incomplete
         /\ \A d \in Session \ {c} : job'[d] = job[d]
<1>1. job \in [Session -> JobRow]
  BY DEF EpochTypes
<1>2. [job[c] EXCEPT !.at = x] \in JobRow
  BY <1>1 DEF JobRow
<1>3. job' = [job EXCEPT ![c] = [job[c] EXCEPT !.at = x]]
  BY <1>1 DEF Credentials!Go
<1> QED BY <1>1, <1>2, <1>3 DEF JobRow

\* A run that starts to disable what it published.
LEMMA JobDisables ==
  ASSUME EpochTypes, NEW c \in Session, NEW T \in SUBSET Credentials!LoginVersion,
         job' = [job EXCEPT ![c].at = "disable", ![c].todo = T]
  PROVE  /\ job' \in [Session -> JobRow]
         /\ job'[c].at = "disable" /\ job'[c].todo = T
         /\ \A d \in Session \ {c} : job'[d] = job[d]
<1>1. job \in [Session -> JobRow] /\ "disable" \in Credentials!Phase
  BY DEF EpochTypes, Credentials!Phase
<1>2. [job[c] EXCEPT !.at = "disable", !.todo = T] \in JobRow
  BY <1>1 DEF JobRow
<1>3. job' = [job EXCEPT ![c] = [job[c] EXCEPT !.at = "disable", !.todo = T]]
  BY <1>1
<1> QED BY <1>1, <1>2, <1>3 DEF JobRow

\* A run that moves on with nothing said of the epoch.
LEMMA JobMoves ==
  ASSUME EpochInv, NEW c \in Session, job' \in [Session -> JobRow],
         \A d \in Session \ {c} : job'[d] = job[d],
         UNCHANGED <<epoch, login, version>>,
         \/ doubt' = doubt
         \/ doubt' = c /\ job[c].at = "commit" /\ job'[c].at = "unsure",
         \/ job'[c].at \in {"reserve", "ended"}
         \/ job'[c].at = "done" /\ job[c].at = "unsure" /\ epoch.state = "completed"
         \/ job'[c].at = "unsure" /\ job[c].at = "commit"
         \/ /\ job'[c].at = "disable" /\ epoch.state = "reserved" /\ doubt = Nil
            /\ job[c].at \in {"submitter", "reconciler", "unsure"}
            /\ job'[c].todo = Credentials!Known(c)
         \/ /\ job'[c].at = "disable" /\ job[c].at = "disable" /\ job'[c].incomplete
            /\ job'[c].todo \subseteq job[c].todo
         \/ /\ job'[c].at = "record" /\ job[c].at = "disable" /\ job[c].todo = {}
            /\ job'[c].incomplete = job[c].incomplete
  PROVE  EpochInv'
<1>1. /\ EpochTypes /\ JobsServeEpoch /\ VersionsPublished /\ DoubtHolds
      /\ Credentials!LoginsMatchEpoch /\ Credentials!FailureLeavesUnheard
  BY DEF EpochInv, EpochRest
<1>2. EpochTypes'
  BY <1>1 DEF EpochTypes
<1>3. JobsServeEpoch'
  <2>1. ASSUME NEW d \in Session
        PROVE  /\ job'[d].at \notin {"new", "reserve", "ended"} => epoch # Nil /\ epoch.of = d
               /\ job'[d].at \in {"submitter", "reconciler", "commit", "disable", "record"} =>
                    epoch.state = "reserved" /\ doubt' = Nil
               /\ job'[d].at = "unsure" => epoch.state \in {"reserved", "completed"}
               /\ job'[d].at = "done" => epoch.state = "completed"
    <3>1. CASE d = c
      BY <1>1, <3>1 DEF JobsServeEpoch
    <3>2. CASE d # c
      BY <1>1, <3>2 DEF JobsServeEpoch
    <3> QED BY <3>1, <3>2
  <2> QED BY <2>1 DEF JobsServeEpoch
<1>4. VersionsPublished'
  <2>1. /\ \A v \in version : v.of = c /\ v.heard => v \in Credentials!Known(c)
        /\ \A v \in Credentials!Known(c) : v.of = c
    BY DEF Credentials!Known
  <2>2. ASSUME NEW d \in Session
        PROVE  /\ job'[d].at \in {"reconciler", "commit", "unsure"} => Published("submitter", d) \in version
               /\ job'[d].at \in {"commit", "unsure"} => Published("reconciler", d) \in version
               /\ job'[d].at = "disable" => \A v \in job'[d].todo : v.of = d
               /\ \A v \in version : v.enabled /\ v.heard =>
                    /\ job'[d].at = "disable" => v \in job'[d].todo \/ job'[d].incomplete
                    /\ job'[d].at = "record" => job'[d].incomplete
    <3>1. CASE d = c
      BY <1>1, <2>1, <3>1 DEF VersionsPublished, JobsServeEpoch
    <3>2. CASE d # c
      BY <1>1, <3>2 DEF VersionsPublished
    <3> QED BY <3>1, <3>2
  <2> QED BY <1>1, <2>2 DEF VersionsPublished
<1>5. DoubtHolds'
  <2>1. CASE doubt' = doubt
    BY <1>1, <2>1 DEF DoubtHolds
  <2>2. CASE doubt' = c /\ job[c].at = "commit"
    BY <1>1, <2>2 DEF DoubtHolds, JobsServeEpoch, VersionsPublished, Credentials!Login
  <2> QED BY <2>1, <2>2
<1>6. Credentials!LoginsMatchEpoch'
  <2>1. \A d \in Session : job'[d].at = "done" => epoch.of = d /\ epoch.state = "completed"
    BY <1>3 DEF JobsServeEpoch
  <2> QED BY <1>1, <2>1 DEF Credentials!LoginsMatchEpoch, Credentials!In
<1>7. Credentials!FailureLeavesUnheard'
  BY <1>1 DEF Credentials!FailureLeavesUnheard
<1> QED BY <1>2, <1>3, <1>4, <1>5, <1>6, <1>7 DEF EpochInv, EpochRest

\* Both logins are given the passwords of a claim and its epoch is completed.
LEMMA EpochCompletes ==
  ASSUME EpochConstants, EpochInv, NEW c \in Session, Credentials!RotateRoles(c),
         Credentials!Complete, epoch # Nil, epoch.of = c, UNCHANGED version, doubt' = Nil,
         \A l \in Credentials!Login : Published(l, c) \in version,
         \A d \in Session : job[d].at \in {"submitter", "reconciler", "commit", "disable", "record"} =>
           d = c /\ job[c].at = "commit" /\ job'[c].at = "done",
         job' \in [Session -> JobRow],
         \A d \in Session : job'[d] = job[d] \/ (d = c /\ job'[d].at = "done")
  PROVE  EpochInv'
<1>1. /\ EpochTypes /\ JobsServeEpoch /\ VersionsPublished
  BY DEF EpochInv, EpochRest
<1>2. /\ epoch \in Credentials!EpochRow /\ epoch.state = "reserved"
      /\ epoch' = [epoch EXCEPT !.state = "completed", !.incomplete = FALSE]
  BY <1>1 DEF EpochTypes, Credentials!Complete, Credentials!Decide
<1>3. /\ epoch' \in Credentials!EpochRow /\ epoch' # Nil /\ epoch'.of = c
      /\ epoch'.state = "completed"
  BY <1>2 DEF Credentials!EpochRow, EpochConstants
<1>4. /\ login' \in [Credentials!Login -> Session \cup {Nil}]
      /\ \A l \in Credentials!Login : login'[l] = c
  BY DEF Credentials!RotateRoles
<1>5. EpochTypes'
  BY <1>1, <1>3, <1>4 DEF EpochTypes
<1>6. \A d \in Session : job'[d].at \notin {"submitter", "reconciler", "commit", "disable", "record"}
  OBVIOUS
<1>7. \A d \in Session : job'[d].at \notin {"new", "reserve", "ended"} => d = c
  BY <1>1 DEF JobsServeEpoch
<1>8. JobsServeEpoch'
  BY <1>3, <1>6, <1>7 DEF JobsServeEpoch
<1>9. VersionsPublished'
  <2>1. Published("submitter", c) \in version /\ Published("reconciler", c) \in version
    BY DEF Credentials!Login
  <2>2. \A v \in version : epoch' # Nil /\ v.of = epoch'.of
    BY <1>1, <1>3 DEF VersionsPublished
  <2> QED BY <1>6, <1>7, <2>1, <2>2 DEF VersionsPublished
<1>10. DoubtHolds' /\ Credentials!FailureLeavesUnheard'
  BY <1>3 DEF DoubtHolds, Credentials!FailureLeavesUnheard
<1>11. Credentials!LoginsMatchEpoch'
  BY <1>3, <1>4, <1>7 DEF Credentials!LoginsMatchEpoch, Credentials!In, Published
<1> QED BY <1>5, <1>8, <1>9, <1>10, <1>11 DEF EpochInv, EpochRest

\* Every step of the job, and the end of a commit in doubt, keeps the invariant.
LEMMA EpochStep ==
  ASSUME EpochConstants, EpochInv,
         ((\E c \in Session : Credentials!Provide(c)) \/ Credentials!EndTransaction)
           \/ UNCHANGED Credentials!epochVars
  PROVE  EpochInv'
<1>1. /\ EpochTypes /\ JobsServeEpoch /\ VersionsPublished /\ DoubtHolds
      /\ Credentials!LoginsMatchEpoch /\ Credentials!FailureLeavesUnheard
  BY DEF EpochInv, EpochRest
<1>2. /\ epoch \in Credentials!EpochRow \cup {Nil} /\ version \subseteq Credentials!LoginVersion
      /\ job \in [Session -> JobRow] /\ Nil \notin Credentials!EpochRow /\ Nil \notin Session
  BY <1>1 DEF EpochTypes, EpochConstants
<1>3. ASSUME NEW c \in Session, Credentials!Preflight(c) \/ Credentials!CrashJob(c)
      PROVE  EpochInv'
  <2>1. PICK x \in {"reserve", "ended"} : Credentials!Go(c, x)
    BY <1>3 DEF Credentials!Preflight, Credentials!CrashJob
  <2>2. x \in Credentials!Phase
    BY DEF Credentials!Phase
  <2>3. UNCHANGED <<epoch, login, version, doubt>>
    BY <1>3 DEF Credentials!Preflight, Credentials!CrashJob
  <2> QED BY <1>1, <2>1, <2>2, <2>3, JobGo, JobMoves
<1>4. ASSUME NEW c \in Session, Credentials!Reserve(c) PROVE EpochInv'
  <2>1. CASE Credentials!Go(c, "ended") /\ UNCHANGED epoch
    <3>1. "ended" \in Credentials!Phase /\ UNCHANGED <<login, version, doubt>>
      BY <1>4 DEF Credentials!Phase, Credentials!Reserve
    <3> QED BY <1>1, <2>1, <3>1, JobGo, JobMoves
  <2>2. CASE /\ epoch = Nil /\ Credentials!Go(c, "submitter")
             /\ epoch' = [of |-> c, state |-> "reserved", incomplete |-> FALSE]
    <3>1. UNCHANGED <<login, version, doubt>> /\ "submitter" \in Credentials!Phase
      BY <1>4 DEF Credentials!Reserve, Credentials!Phase
    <3>2. /\ job' \in [Session -> JobRow] /\ job'[c].at = "submitter"
          /\ \A d \in Session \ {c} : job'[d] = job[d]
      BY <1>1, <2>2, <3>1, JobGo
    <3>3. /\ version = {} /\ doubt = Nil /\ \A d \in Session : job[d].at \in {"new", "reserve", "ended"}
          /\ \A l \in Credentials!Login : login[l] = Nil
      BY <1>1, <2>2
         DEF VersionsPublished, DoubtHolds, JobsServeEpoch, Credentials!LoginsMatchEpoch
    <3>4. epoch' \in Credentials!EpochRow /\ epoch' # Nil /\ epoch'.of = c /\ epoch'.state = "reserved"
      <4>1. [of |-> c, state |-> "reserved", incomplete |-> FALSE] \in Credentials!EpochRow
        BY DEF Credentials!EpochRow
      <4> QED BY <1>2, <2>2, <4>1
    <3>5. EpochTypes'
      BY <1>1, <3>1, <3>2, <3>4 DEF EpochTypes
    <3>6. JobsServeEpoch' /\ VersionsPublished' /\ DoubtHolds'
      BY <3>1, <3>2, <3>3, <3>4 DEF JobsServeEpoch, VersionsPublished, DoubtHolds
    <3>7. Credentials!LoginsMatchEpoch' /\ Credentials!FailureLeavesUnheard'
      BY <3>1, <3>2, <3>3, <3>4
         DEF Credentials!LoginsMatchEpoch, Credentials!FailureLeavesUnheard, Credentials!In
    <3> QED BY <3>5, <3>6, <3>7 DEF EpochInv, EpochRest
  <2> QED BY <1>4, <2>1, <2>2 DEF Credentials!Reserve
<1>5. ASSUME NEW c \in Session, NEW l \in Credentials!Login, Credentials!Publish(c, l)
      PROVE  EpochInv'
  <2>0. /\ job[c].at = l /\ UNCHANGED <<epoch, login, doubt>> /\ l \in {"submitter", "reconciler"}
    BY <1>5 DEF Credentials!Publish, Credentials!In, Credentials!Login
  <2>1. /\ epoch # Nil /\ epoch.of = c /\ epoch.state = "reserved" /\ doubt = Nil
        /\ \A d \in Session \ {c} : job[d].at \in {"new", "reserve", "ended"}
    BY <1>1, <2>0 DEF JobsServeEpoch
  <2>2. PICK added \in SUBSET Credentials!LoginVersion :
          /\ version' = version \cup added /\ \A v \in added : v.of = c
          /\ \/ /\ Published(l, c) \in added
                /\ Credentials!Go(c, IF l = "submitter" THEN "reconciler" ELSE "commit")
             \/ /\ \A v \in added : ~v.heard
                /\ job' = [job EXCEPT ![c].at = "disable", ![c].todo = Credentials!Known(c)]
    <3>1. ASSUME NEW heard \in BOOLEAN
          PROVE [login |-> l, of |-> c, enabled |-> TRUE, heard |-> heard] \in Credentials!LoginVersion
      BY DEF Credentials!LoginVersion
    <3>2. CASE /\ version' = version \cup {Published(l, c)}
               /\ Credentials!Go(c, IF l = "submitter" THEN "reconciler" ELSE "commit")
      <4>1. Published(l, c) \in Credentials!LoginVersion /\ Published(l, c).of = c
        BY <3>1 DEF Published
      <4> QED BY <3>2, <4>1
    <3>3. CASE /\ version' = version \cup
                    {[login |-> l, of |-> c, enabled |-> TRUE, heard |-> FALSE]}
               /\ job' = [job EXCEPT ![c].at = "disable", ![c].todo = Credentials!Known(c)]
      <4>1. PICK v \in Credentials!LoginVersion :
              v = [login |-> l, of |-> c, enabled |-> TRUE, heard |-> FALSE]
        BY <3>1
      <4>2. {v} \in SUBSET Credentials!LoginVersion /\ v.of = c /\ ~v.heard
        BY <4>1
      <4> QED BY <3>3, <4>1, <4>2
    <3>4. CASE /\ version' = version
               /\ job' = [job EXCEPT ![c].at = "disable", ![c].todo = Credentials!Known(c)]
      <4>1. version' = version \cup {} /\ {} \in SUBSET Credentials!LoginVersion
        BY <3>4
      <4>2. \A v \in {} : v.of = c /\ ~v.heard
        OBVIOUS
      <4> QED BY <3>4, <4>1, <4>2
    <3> QED BY <1>5, <3>2, <3>3, <3>4 DEF Credentials!Publish, Published
  <2>3. CASE /\ Published(l, c) \in added
             /\ Credentials!Go(c, IF l = "submitter" THEN "reconciler" ELSE "commit")
    <3>1. PICK x \in {"reconciler", "commit"} :
            Credentials!Go(c, x) /\ x = (IF l = "submitter" THEN "reconciler" ELSE "commit")
      BY <2>0, <2>3
    <3>2. x \in Credentials!Phase
      BY DEF Credentials!Phase
    <3>3. /\ job' \in [Session -> JobRow] /\ job'[c].at = x
          /\ \A d \in Session \ {c} : job'[d] = job[d]
      BY <1>1, <3>1, <3>2, JobGo
    <3>4. EpochTypes'
      BY <1>1, <2>0, <2>2, <3>3 DEF EpochTypes
    <3>5. JobsServeEpoch' /\ DoubtHolds' /\ Credentials!LoginsMatchEpoch'
          /\ Credentials!FailureLeavesUnheard'
      BY <1>1, <2>0, <2>1, <3>3
         DEF JobsServeEpoch, DoubtHolds, Credentials!LoginsMatchEpoch, Credentials!In,
             Credentials!FailureLeavesUnheard
    <3>6. VersionsPublished'
      <4>1. \A v \in version' : epoch' # Nil /\ v.of = epoch'.of
        BY <1>1, <2>0, <2>1, <2>2 DEF VersionsPublished
      <4>2. \A d \in Session : job'[d].at \in {"reconciler", "commit", "unsure"} =>
              d = c /\ Published("submitter", c) \in version'
        BY <1>1, <2>0, <2>1, <2>2, <2>3, <3>1, <3>3 DEF VersionsPublished
      <4>3. \A d \in Session : job'[d].at \in {"commit", "unsure"} =>
              d = c /\ Published("reconciler", c) \in version'
        BY <2>0, <2>1, <2>2, <2>3, <3>1, <3>3
      <4>4. \A d \in Session : job'[d].at \notin {"disable", "record"}
        BY <2>1, <3>3
      <4> QED BY <4>1, <4>2, <4>3, <4>4 DEF VersionsPublished
    <3> QED BY <3>4, <3>5, <3>6 DEF EpochInv, EpochRest
  <2>4. CASE /\ \A v \in added : ~v.heard
             /\ job' = [job EXCEPT ![c].at = "disable", ![c].todo = Credentials!Known(c)]
    <3>1. Credentials!Known(c) \in SUBSET Credentials!LoginVersion
      BY <1>2 DEF Credentials!Known
    <3>2. /\ job' \in [Session -> JobRow] /\ job'[c].at = "disable"
          /\ job'[c].todo = Credentials!Known(c)
          /\ \A d \in Session \ {c} : job'[d] = job[d]
      <4>1. PICK T \in SUBSET Credentials!LoginVersion : T = Credentials!Known(c)
        BY <3>1
      <4> QED BY <1>1, <2>4, <4>1, JobDisables
    <3>3. EpochTypes'
      BY <1>1, <2>0, <2>2, <3>2 DEF EpochTypes
    <3>4. JobsServeEpoch' /\ DoubtHolds' /\ Credentials!LoginsMatchEpoch'
          /\ Credentials!FailureLeavesUnheard'
      BY <1>1, <2>0, <2>1, <3>2
         DEF JobsServeEpoch, DoubtHolds, Credentials!LoginsMatchEpoch, Credentials!In,
             Credentials!FailureLeavesUnheard
    <3>5. VersionsPublished'
      <4>1. \A v \in version' : epoch' # Nil /\ v.of = epoch'.of
        BY <1>1, <2>0, <2>1, <2>2 DEF VersionsPublished
      <4>2. /\ \A v \in version' : v.heard => v \in Credentials!Known(c)
            /\ \A v \in Credentials!Known(c) : v.of = c
        BY <2>0, <2>1, <2>2, <2>4, <4>1 DEF Credentials!Known
      <4> QED BY <2>1, <3>2, <4>1, <4>2 DEF VersionsPublished
    <3> QED BY <3>3, <3>4, <3>5 DEF EpochInv, EpochRest
  <2> QED BY <2>2, <2>3, <2>4
<1>6. ASSUME NEW c \in Session, Credentials!Commit(c) PROVE EpochInv'
  <2>0. job[c].at = "commit" /\ UNCHANGED version
    BY <1>6 DEF Credentials!Commit, Credentials!In
  <2>1. /\ epoch # Nil /\ epoch.of = c /\ epoch.state = "reserved" /\ doubt = Nil
        /\ \A d \in Session \ {c} : job[d].at \in {"new", "reserve", "ended"}
    BY <1>1, <2>0 DEF JobsServeEpoch
  <2>2. CASE Credentials!RotateRoles(c) /\ Credentials!Complete /\ Credentials!Go(c, "done") /\ UNCHANGED doubt
    <3>1. "done" \in Credentials!Phase
      BY DEF Credentials!Phase
    <3>2. /\ job' \in [Session -> JobRow] /\ job'[c].at = "done"
          /\ \A d \in Session \ {c} : job'[d] = job[d]
      BY <1>1, <2>2, <3>1, JobGo
    <3>3. \A l \in Credentials!Login : Published(l, c) \in version
      BY <1>1, <2>0 DEF VersionsPublished, Credentials!Login
    <3>4. \A d \in Session :
            job[d].at \in {"submitter", "reconciler", "commit", "disable", "record"} =>
              d = c /\ job[c].at = "commit" /\ job'[c].at = "done"
      BY <2>0, <2>1, <3>2
    <3>5. \A d \in Session : job'[d] = job[d] \/ (d = c /\ job'[d].at = "done")
      BY <3>2
    <3>6. /\ doubt' = Nil /\ Credentials!RotateRoles(c) /\ Credentials!Complete
          /\ epoch # Nil /\ epoch.of = c /\ UNCHANGED version
      BY <2>0, <2>1, <2>2
    <3> QED BY <3>2, <3>3, <3>4, <3>5, <3>6, EpochCompletes
  <2>3. CASE doubt' \in {c, Nil} /\ Credentials!Go(c, "unsure") /\ UNCHANGED <<login, epoch>>
    <3>1. "unsure" \in Credentials!Phase
      BY DEF Credentials!Phase
    <3>2. /\ job' \in [Session -> JobRow] /\ job'[c].at = "unsure"
          /\ \A d \in Session \ {c} : job'[d] = job[d]
      BY <1>1, <2>3, <3>1, JobGo
    <3> QED BY <2>0, <2>1, <2>3, <3>2, JobMoves
  <2> QED BY <1>6, <2>2, <2>3 DEF Credentials!Commit
<1>7. ASSUME Credentials!EndTransaction PROVE EpochInv'
  <2>1. doubt # Nil /\ doubt' = Nil /\ UNCHANGED <<version, job>>
    BY <1>7 DEF Credentials!EndTransaction
  <2>2. PICK c \in Session : c = doubt
    BY <1>1, <2>1 DEF EpochTypes
  <2>3. /\ epoch # Nil /\ epoch.of = c /\ epoch.state = "reserved"
        /\ \A l \in Credentials!Login : Published(l, c) \in version
    BY <1>1, <2>1, <2>2 DEF DoubtHolds
  <2>4. \A d \in Session : job[d].at \notin {"submitter", "reconciler", "commit", "disable", "record"}
    BY <1>1, <2>1 DEF JobsServeEpoch
  <2>5. CASE Credentials!RotateRoles(doubt) /\ Credentials!Complete
    <3>1. Credentials!RotateRoles(c)
      BY <2>2, <2>5 DEF Credentials!RotateRoles
    <3>2. job' \in [Session -> JobRow] /\ \A d \in Session : job'[d] = job[d]
      BY <1>2, <2>1
    <3>3. \A d \in Session :
            job[d].at \in {"submitter", "reconciler", "commit", "disable", "record"} =>
              d = c /\ job[c].at = "commit" /\ job'[c].at = "done"
      BY <2>4
    <3>4. \A d \in Session : job'[d] = job[d] \/ (d = c /\ job'[d].at = "done")
      BY <3>2
    <3>5. /\ doubt' = Nil /\ UNCHANGED version /\ Credentials!Complete
          /\ epoch # Nil /\ epoch.of = c
      BY <2>1, <2>3, <2>5
    <3> QED BY <2>3, <3>1, <3>2, <3>3, <3>4, <3>5, EpochCompletes
  <2>6. CASE UNCHANGED <<login, epoch>>
    BY <1>1, <2>1, <2>4, <2>6
       DEF EpochInv, EpochRest, EpochTypes, JobsServeEpoch, VersionsPublished, DoubtHolds,
           Credentials!LoginsMatchEpoch, Credentials!FailureLeavesUnheard, Credentials!In
  <2> QED BY <1>7, <2>5, <2>6 DEF Credentials!EndTransaction
<1>8. ASSUME NEW c \in Session, Credentials!Reconcile(c) PROVE EpochInv'
  <2>0. job[c].at = "unsure" /\ UNCHANGED <<epoch, login, version, doubt>>
    BY <1>8 DEF Credentials!Reconcile, Credentials!In
  <2>1. CASE /\ doubt = Nil /\ epoch.state = "reserved"
             /\ job' = [job EXCEPT ![c].at = "disable", ![c].todo = Credentials!Known(c)]
    <3>1. PICK T \in SUBSET Credentials!LoginVersion : T = Credentials!Known(c)
      BY <1>2 DEF Credentials!Known
    <3>2. /\ job' \in [Session -> JobRow] /\ job'[c].at = "disable" /\ job'[c].todo = T
          /\ \A d \in Session \ {c} : job'[d] = job[d]
      BY <1>1, <2>1, <3>1, JobDisables
    <3> QED BY <2>0, <2>1, <3>1, <3>2, JobMoves
  <2>2. ASSUME NEW x \in {"done", "ended"}, Credentials!Go(c, x),
               x = "done" => epoch.state = "completed"
        PROVE  EpochInv'
    <3>1. x \in Credentials!Phase
      BY DEF Credentials!Phase
    <3>2. /\ job' \in [Session -> JobRow] /\ job'[c].at = x
          /\ \A d \in Session \ {c} : job'[d] = job[d]
      BY <1>1, <2>2, <3>1, JobGo
    <3> QED BY <2>0, <2>2, <3>2, JobMoves
  <2> QED BY <1>8, <2>1, <2>2 DEF Credentials!Reconcile, Credentials!RowFree
<1>9. ASSUME NEW c \in Session, Credentials!Disable(c) PROVE EpochInv'
  <2>0. job[c].at = "disable" /\ UNCHANGED <<epoch, login, doubt>>
    BY <1>9 DEF Credentials!Disable, Credentials!In
  <2>1. /\ epoch # Nil /\ epoch.of = c /\ epoch.state = "reserved" /\ doubt = Nil
        /\ \A d \in Session \ {c} : job[d].at \in {"new", "reserve", "ended"}
    BY <1>1, <2>0 DEF JobsServeEpoch
  <2>2. CASE job[c].todo = {} /\ Credentials!Go(c, "record") /\ UNCHANGED version
    <3>1. "record" \in Credentials!Phase
      BY DEF Credentials!Phase
    <3> QED BY <1>1, <2>0, <2>2, <3>1, JobGo, JobMoves
  <2>3. ASSUME NEW v \in job[c].todo,
               version' = (version \ {v}) \cup {[v EXCEPT !.enabled = FALSE]},
               job' = [job EXCEPT ![c].todo = @ \ {v}]
        PROVE  EpochInv'
    <3>1. /\ job' \in [Session -> JobRow] /\ job'[c].at = "disable"
          /\ job'[c].todo = job[c].todo \ {v} /\ job'[c].incomplete = job[c].incomplete
          /\ \A d \in Session \ {c} : job'[d] = job[d]
      <4>1. job[c] \in JobRow /\ job[c].todo \ {v} \in SUBSET Credentials!LoginVersion
        BY <1>2 DEF JobRow
      <4>2. [job[c] EXCEPT !.todo = job[c].todo \ {v}] \in JobRow
        BY <4>1 DEF JobRow
      <4>3. job' = [job EXCEPT ![c] = [job[c] EXCEPT !.todo = job[c].todo \ {v}]]
        BY <1>2, <2>3
      <4> QED BY <1>2, <2>0, <4>1, <4>2, <4>3 DEF JobRow
    <3>2. /\ v \in Credentials!LoginVersion
          /\ [v EXCEPT !.enabled = FALSE] \in Credentials!LoginVersion
          /\ [v EXCEPT !.enabled = FALSE].of = v.of /\ ~[v EXCEPT !.enabled = FALSE].enabled
      <4>1. v \in Credentials!LoginVersion
        BY <1>2 DEF JobRow
      <4> QED BY <4>1 DEF Credentials!LoginVersion
    <3>3. PICK off \in Credentials!LoginVersion :
            /\ off.of = v.of /\ ~off.enabled /\ version' = (version \ {v}) \cup {off}
      BY <2>3, <3>2
    <3>4. EpochTypes'
      BY <1>1, <1>2, <2>0, <3>1, <3>3 DEF EpochTypes
    <3>5. JobsServeEpoch' /\ DoubtHolds' /\ Credentials!LoginsMatchEpoch'
          /\ Credentials!FailureLeavesUnheard'
      BY <1>1, <2>0, <2>1, <3>1
         DEF JobsServeEpoch, DoubtHolds, Credentials!LoginsMatchEpoch, Credentials!In,
             Credentials!FailureLeavesUnheard
    <3>6. VersionsPublished'
      <4>1. v.of = c
        BY <1>1, <2>0 DEF VersionsPublished
      <4>2. \A u \in version' : epoch' # Nil /\ u.of = epoch'.of
        BY <1>1, <2>0, <2>1, <3>3, <4>1 DEF VersionsPublished
      <4>3. \A u \in version' : u.enabled /\ u.heard => u \in job'[c].todo \/ job'[c].incomplete
        BY <1>1, <2>0, <3>1, <3>3 DEF VersionsPublished
      <4>4. \A u \in job'[c].todo : u.of = c
        BY <1>1, <2>0, <3>1 DEF VersionsPublished
      <4> QED BY <2>1, <3>1, <4>2, <4>3, <4>4 DEF VersionsPublished
    <3> QED BY <3>4, <3>5, <3>6 DEF EpochInv, EpochRest
  <2>4. ASSUME NEW v \in job[c].todo,
               job' = [job EXCEPT ![c].todo = @ \ {v}, ![c].incomplete = TRUE], UNCHANGED version
        PROVE  EpochInv'
    <3>1. /\ job' \in [Session -> JobRow] /\ job'[c].at = "disable" /\ job'[c].incomplete
          /\ job'[c].todo \subseteq job[c].todo
          /\ \A d \in Session \ {c} : job'[d] = job[d]
      <4>1. job[c] \in JobRow /\ job[c].todo \ {v} \in SUBSET Credentials!LoginVersion
        BY <1>2 DEF JobRow
      <4>2. [job[c] EXCEPT !.todo = job[c].todo \ {v}, !.incomplete = TRUE] \in JobRow
        BY <4>1 DEF JobRow
      <4>3. job' = [job EXCEPT ![c] = [job[c] EXCEPT !.todo = job[c].todo \ {v}, !.incomplete = TRUE]]
        BY <1>2, <2>4
      <4> QED BY <1>2, <2>0, <4>1, <4>2, <4>3 DEF JobRow
    <3> QED BY <2>0, <2>4, <3>1, JobMoves
  <2> QED BY <1>9, <2>2, <2>3, <2>4 DEF Credentials!Disable
<1>10. ASSUME NEW c \in Session, Credentials!Record(c) PROVE EpochInv'
  <2>0. /\ job[c].at = "record" /\ Credentials!Go(c, "ended") /\ UNCHANGED <<login, version, doubt>>
    BY <1>10 DEF Credentials!Record, Credentials!In
  <2>1. /\ epoch # Nil /\ epoch.of = c /\ epoch.state = "reserved" /\ doubt = Nil
        /\ \A d \in Session \ {c} : job[d].at \in {"new", "reserve", "ended"}
    BY <1>1, <2>0 DEF JobsServeEpoch
  <2>2. "ended" \in Credentials!Phase
    BY DEF Credentials!Phase
  <2>3. /\ job' \in [Session -> JobRow] /\ job'[c].at = "ended"
        /\ \A d \in Session \ {c} : job'[d] = job[d]
    BY <1>1, <2>0, <2>2, JobGo
  <2>4. CASE UNCHANGED epoch
    BY <2>0, <2>3, <2>4, JobMoves
  <2>5. CASE epoch' = [epoch EXCEPT !.state = "failed", !.incomplete = job[c].incomplete]
    <3>1. epoch \in Credentials!EpochRow /\ job[c].incomplete \in BOOLEAN
      BY <1>2, <2>1 DEF JobRow
    <3>2. /\ epoch' \in Credentials!EpochRow /\ epoch' # Nil /\ epoch'.of = c
          /\ epoch'.state = "failed" /\ epoch'.incomplete = job[c].incomplete
      BY <1>2, <2>1, <2>5, <3>1 DEF Credentials!EpochRow
    <3>3. EpochTypes'
      BY <1>1, <2>0, <2>3, <3>2 DEF EpochTypes
    <3>4. JobsServeEpoch' /\ DoubtHolds'
      BY <2>0, <2>1, <2>3 DEF JobsServeEpoch, DoubtHolds
    <3>5. VersionsPublished'
      <4>1. \A d \in Session : job'[d].at \in {"new", "reserve", "ended"}
        BY <2>1, <2>3
      <4>2. \A v \in version' : epoch' # Nil /\ v.of = epoch'.of
        BY <1>1, <2>0, <2>1, <3>2 DEF VersionsPublished
      <4> QED BY <4>1, <4>2 DEF VersionsPublished
    <3>6. Credentials!LoginsMatchEpoch'
      <4>1. \A l \in Credentials!Login : login[l] = Nil
        BY <1>1, <2>1 DEF Credentials!LoginsMatchEpoch
      <4> QED BY <2>0, <2>1, <2>3, <3>2, <4>1 DEF Credentials!LoginsMatchEpoch, Credentials!In
    <3>7. Credentials!FailureLeavesUnheard'
      BY <1>1, <2>0, <3>2 DEF Credentials!FailureLeavesUnheard, VersionsPublished
    <3> QED BY <3>3, <3>4, <3>5, <3>6, <3>7 DEF EpochInv, EpochRest
  <2> QED BY <1>10, <2>4, <2>5 DEF Credentials!Record, Credentials!Decide
<1>11. CASE UNCHANGED Credentials!epochVars
  <2>1. UNCHANGED <<epoch, login, version, doubt, job>>
    BY <1>11 DEF Credentials!epochVars
  <2> QED
    BY <1>1, <2>1
       DEF EpochInv, EpochRest, EpochTypes, JobsServeEpoch, VersionsPublished, DoubtHolds,
           Credentials!LoginsMatchEpoch, Credentials!FailureLeavesUnheard, Credentials!In
<1> QED
  BY <1>3, <1>4, <1>5, <1>6, <1>7, <1>8, <1>9, <1>10, <1>11 DEF Credentials!Provide

\* The invariant of the identity job holds in every reachable state; with it, a
\* completed epoch's logins have the passwords of its claim, and what a failed epoch
\* left behind is disabled, unless it says so.
THEOREM EpochInvariance ==
  ASSUME EpochConstants
  PROVE  Credentials!Spec => []EpochInv
<1>1. Credentials!Init => EpochInv
  <2> SUFFICES ASSUME Credentials!Init PROVE EpochInv
    OBVIOUS
  <2>1. /\ epoch = Nil /\ version = {} /\ doubt = Nil
        /\ login = [l \in Credentials!Login |-> Nil]
        /\ job = [c \in Session |-> [at |-> "new", todo |-> {}, incomplete |-> FALSE]]
    BY DEF Credentials!Init
  <2>2. EpochTypes
    BY <2>1 DEF EpochTypes, JobRow, Credentials!Phase
  <2>3. \A c \in Session : job[c].at = "new"
    BY <2>1
  <2>4. EpochRest
    BY <2>1, <2>3 DEF EpochRest, JobsServeEpoch, VersionsPublished, DoubtHolds,
       Credentials!LoginsMatchEpoch, Credentials!FailureLeavesUnheard, Credentials!In
  <2> QED BY <2>2, <2>4 DEF EpochInv
<1>2. EpochInv /\ [Credentials!Next]_(Credentials!vars) => EpochInv'
  <2> SUFFICES ASSUME EpochInv, [Credentials!Next]_(Credentials!vars) PROVE EpochInv'
    OBVIOUS
  <2>1. UNCHANGED Credentials!vars => UNCHANGED Credentials!epochVars
    BY DEF Credentials!vars
  <2> QED BY <2>1, EpochStep DEF Credentials!Next
<1> QED BY <1>1, <1>2, PTL DEF Credentials!Spec

\* An epoch that was completed or failed is not decided again.
THEOREM EpochsDecidedOnce ==
  ASSUME EpochConstants
  PROVE  Credentials!Spec => [][Credentials!EpochDecidedOnce]_(Credentials!vars)
<1>1. EpochInv /\ [Credentials!Next]_(Credentials!vars) => [Credentials!EpochDecidedOnce]_(Credentials!vars)
  <2> SUFFICES ASSUME EpochInv, Credentials!Next, epoch # Nil, epoch' # epoch
               PROVE  /\ epoch.state = "reserved" /\ epoch'.of = epoch.of
                      /\ epoch'.state \in {"completed", "failed"}
    BY DEF Credentials!EpochDecidedOnce
  <2>1. epoch \in Credentials!EpochRow
    BY DEF EpochInv, EpochTypes
  <2>2. ASSUME NEW x \in {"completed", "failed"}, NEW incomplete, Credentials!Decide(x, incomplete)
        PROVE  /\ epoch.state = "reserved" /\ epoch'.of = epoch.of
               /\ epoch'.state \in {"completed", "failed"}
    BY <2>1, <2>2 DEF Credentials!Decide, Credentials!EpochRow
  <2>3. ASSUME NEW c \in Session, Credentials!Provide(c)
        PROVE  \E x \in {"completed", "failed"}, b \in {FALSE, job[c].incomplete} : Credentials!Decide(x, b)
    BY <2>3 DEF Credentials!Provide, Credentials!Preflight, Credentials!Reserve, Credentials!Publish,
       Credentials!Commit, Credentials!Reconcile, Credentials!Disable, Credentials!Record,
       Credentials!CrashJob, Credentials!Complete
  <2>4. ASSUME Credentials!EndTransaction PROVE Credentials!Decide("completed", FALSE)
    BY <2>4 DEF Credentials!EndTransaction, Credentials!Complete
  <2>5. UNCHANGED Credentials!epochVars => UNCHANGED epoch
    BY DEF Credentials!epochVars
  <2> QED BY <2>2, <2>3, <2>4, <2>5 DEF Credentials!Next
<1> QED BY <1>1, EpochInvariance, PTL DEF Credentials!Spec

-----------------------------------------------------------------------------
(* The conversation sessions of a subject.                                 *)

\* A session of the subject.
SessionRow ==
  [life : {"absent", "live", "deleted"}, createdAt : Nat, reconciled : BOOLEAN,
   refund : Subject!Budget, runtime : Subject!Snapshot]
\* The types of the subject's sessions, buckets and fence.
SubjectTypes ==
  /\ subjectClock \in 0..MaxClock
  /\ bucket \in [Subject!Day -> Subject!Budget]
  /\ session \in [Session -> SessionRow]
  /\ \A s \in Session : session[s].createdAt <= MaxClock
  /\ fence \in BOOLEAN
  /\ \A e \in Eraser : erasing[e] = Nil \/ erasing[e] \subseteq Session
  /\ DOMAIN erasing = Eraser
\* A creation under way saw a bucket that its budget fits, and nothing but the return
\* of other budgets changes the bucket meanwhile.
CreationFits ==
  creating # Nil =>
    /\ creating \in 0..MaxClock
    /\ Subject!Fits(InitialBudget, bucket[creating \div DayLength])
\* The invariant of the subject: no creation is under way behind the fence.
SubjectInv == SubjectTypes /\ CreationFits /\ (fence => creating = Nil)

\* The day of an instant.
LEMMA DayOf ==
  ASSUME NEW d \in Nat \ {0}, NEW b \in Nat, NEW a \in 0..b
  PROVE  a \div d \in 0 .. b \div d
<1>1. /\ a \div d \in Nat /\ b \div d \in Nat
      /\ a = d * (a \div d) + (a % d) /\ b = d * (b \div d) + (b % d)
      /\ a % d \in 0..(d-1) /\ b % d \in 0..(d-1)
  OBVIOUS
<1> QED BY <1>1

\* What a session returns of its budget is a budget.
LEMMA Returned ==
  ASSUME SubjectConstants, SubjectTypes, NEW s \in Session, NEW remaining \in Subject!Budget
  PROVE  Subject!ToReturn(s, remaining) \in Subject!Budget
<1>1. InitialBudget \in Subject!Budget
  BY DEF SubjectConstants, Subject!AggregateAssumption
<1>2. Subject!Returnable(remaining) \in Subject!Budget
  BY <1>1 DEF Subject!Returnable, Subject!Least, Subject!Budget
<1>3. Subject!NoBudget \in Subject!Budget
  BY DEF Subject!NoBudget, Subject!Budget
<1> QED BY <1>2, <1>3 DEF Subject!ToReturn

\* A bucket that gets a budget back fits what it fitted before.
LEMMA Added ==
  ASSUME NEW a \in Subject!Budget, NEW b \in Subject!Budget
  PROVE  /\ Subject!Plus(a, b) \in Subject!Budget
         /\ \A c \in Subject!Budget : Subject!Fits(c, a) => Subject!Fits(c, Subject!Plus(a, b))
<1>1. Subject!Plus(a, b) \in Subject!Budget
  BY DEF Subject!Plus, Subject!Budget
<1>2. ASSUME NEW c \in Subject!Budget, Subject!Fits(c, a), NEW r \in Resource
      PROVE  c[r] <= Subject!Plus(a, b)[r]
  <2>1. c[r] \in Nat /\ a[r] \in Nat /\ b[r] \in Nat /\ c[r] <= a[r] /\ Subject!Plus(a, b)[r] = a[r] + b[r]
    BY <1>2 DEF Subject!Budget, Subject!Fits, Subject!Plus
  <2> QED BY <2>1
<1> QED BY <1>1, <1>2 DEF Subject!Fits

\* A session's entry changes while its life and its creation stay.
LEMMA SubjectCommits ==
  ASSUME SubjectConstants, SubjectInv, NEW s \in Session, NEW next \in Subject!Snapshot,
         Subject!Commit(s, next)
  PROVE  SubjectInv' /\ \A u \in Session : session'[u].life = session[u].life
<1>1. /\ session' = [session EXCEPT ![s].runtime = next]
      /\ UNCHANGED <<subjectClock, bucket, creating, fence, erasing>>
  BY DEF Subject!Commit
<1>2. session \in [Session -> SessionRow] /\ \A u \in Session : session[u].createdAt <= MaxClock
  BY DEF SubjectInv, SubjectTypes
<1>3. [session[s] EXCEPT !.runtime = next] \in SessionRow
  BY <1>2 DEF SessionRow
<1>4. session' = [session EXCEPT ![s] = [session[s] EXCEPT !.runtime = next]]
  BY <1>1, <1>2
<1>5. /\ session' \in [Session -> SessionRow] /\ \A u \in Session : session'[u].createdAt <= MaxClock
      /\ \A u \in Session : session'[u].life = session[u].life
  BY <1>2, <1>3, <1>4 DEF SessionRow
<1>6. SubjectTypes'
  BY <1>1, <1>5 DEF SubjectInv, SubjectTypes, Subject!Day
<1> QED BY <1>1, <1>5, <1>6 DEF SubjectInv, CreationFits

\* A day gets back what a session of it did not use.
LEMMA SubjectReturns ==
  ASSUME SubjectConstants, SubjectInv, NEW s \in Session, NEW back \in Subject!Budget,
         NEW entry \in SessionRow, entry.createdAt = session[s].createdAt,
         session' = [session EXCEPT ![s] = entry],
         bucket' = [bucket EXCEPT ![session[s].createdAt \div DayLength] = Subject!Plus(@, back)],
         UNCHANGED <<subjectClock, creating, fence, erasing>>
  PROVE  SubjectInv'
<1> DEFINE day == session[s].createdAt \div DayLength
<1>1. SubjectTypes /\ CreationFits /\ (fence => creating = Nil)
  BY DEF SubjectInv
<1>2. /\ session \in [Session -> SessionRow] /\ bucket \in [Subject!Day -> Subject!Budget]
      /\ session[s].createdAt \in 0..MaxClock /\ DayLength \in Nat \ {0} /\ MaxClock \in Nat
  BY <1>1 DEF SubjectTypes, SessionRow, SubjectConstants
<1>3. PICK d \in Subject!Day : d = day
  BY <1>2, DayOf DEF Subject!Day
<1>4. bucket' = [bucket EXCEPT ![d] = Subject!Plus(bucket[d], back)]
  BY <1>3
<1>5. /\ Subject!Plus(bucket[d], back) \in Subject!Budget
      /\ \A c \in Subject!Budget :
           Subject!Fits(c, bucket[d]) => Subject!Fits(c, Subject!Plus(bucket[d], back))
  BY <1>2, Added
<1>6. bucket' \in [Subject!Day -> Subject!Budget]
  BY <1>2, <1>4, <1>5
<1>7. session' \in [Session -> SessionRow] /\ \A u \in Session : session'[u].createdAt <= MaxClock
  BY <1>1, <1>2 DEF SubjectTypes
<1>8. SubjectTypes'
  BY <1>1, <1>6, <1>7 DEF SubjectTypes, Subject!Day
<1>9. CreationFits'
  <2> SUFFICES ASSUME creating # Nil
               PROVE  Subject!Fits(InitialBudget, bucket'[creating \div DayLength])
    BY <1>1 DEF CreationFits
  <2>1. creating \div DayLength \in Subject!Day
    BY <1>1, <1>2, DayOf DEF CreationFits, Subject!Day
  <2>2. InitialBudget \in Subject!Budget /\ Subject!Fits(InitialBudget, bucket[creating \div DayLength])
    BY <1>1 DEF CreationFits, SubjectConstants, Subject!AggregateAssumption
  <2> QED BY <1>2, <1>4, <1>5, <2>1, <2>2
<1> QED BY <1>1, <1>8, <1>9 DEF SubjectInv

\* What a session's runtime becomes is a snapshot.
LEMMA SubjectEngages ==
  ASSUME SubjectConstants, SubjectInv, NEW s \in Session, Subject!Engage(s)
  PROVE  \E next \in Subject!Snapshot : Subject!Commit(s, next)
<1> DEFINE runtime == session[s].runtime
<1>1. /\ runtime \in Subject!Snapshot /\ subjectClock \in Nat
      /\ runtime.fencingTokenHighWatermark + 1 \in Nat
  BY DEF SubjectInv, SubjectTypes, SessionRow, Subject!Snapshot
<1>2. Subject!AggregateAssumption
  BY DEF SubjectConstants
<1> HIDE DEF runtime
<1>3. ASSUME NEW t \in Turn, NEW m \in Message, NEW f \in Fingerprint, NEW b \in Reservation,
             Subject!CanAccept(runtime, t, b),
             Subject!Commit(s, Subject!AcceptMessage(runtime, t, m, f, b))
      PROVE  \E next \in Subject!Snapshot : Subject!Commit(s, next)
  <2>1. Subject!AcceptMessage(runtime, t, m, f, b) \in Subject!Snapshot
    BY <1>1, <1>2, <1>3, Subject!AcceptType
  <2> QED BY <1>3, <2>1
<1>4. ASSUME NEW t \in Turn,
             Subject!Commit(s, Subject!ClaimTurn(runtime, t, runtime.fencingTokenHighWatermark + 1,
                                                 subjectClock))
      PROVE  \E next \in Subject!Snapshot : Subject!Commit(s, next)
  <2>1. Subject!ClaimTurn(runtime, t, runtime.fencingTokenHighWatermark + 1, subjectClock)
          \in Subject!Snapshot
    BY <1>1, <1>2, Subject!ClaimType
  <2> QED BY <1>4, <2>1
<1>5. ASSUME NEW t \in Turn, NEW used \in Usage, NEW outcome, NEW held,
             Subject!CanComplete(runtime, t, held, used, Nil, subjectClock),
             Subject!Commit(s, Subject!CompleteTurn(runtime, t, outcome, used, Nil))
      PROVE  \E next \in Subject!Snapshot : Subject!Commit(s, next)
  <2>1. Subject!CompleteTurn(runtime, t, outcome, used, Nil) \in Subject!Snapshot
    BY <1>1, <1>2, <1>5, Subject!CompleteType
  <2> QED BY <1>5, <2>1
<1>6. ASSUME NEW t \in Turn, NEW used \in Usage, NEW authority, NEW held,
             Subject!CanCancel(runtime, t, authority, held, used, subjectClock),
             Subject!Commit(s, Subject!CancelTurn(runtime, t, authority, used))
      PROVE  \E next \in Subject!Snapshot : Subject!Commit(s, next)
  <2>1. Subject!CancelTurn(runtime, t, authority, used) \in Subject!Snapshot
    BY <1>1, <1>2, <1>6, Subject!CancelType
  <2> QED BY <1>6, <2>1
<1>7. ASSUME Subject!Commit(s, Subject!RequestHandoff(runtime))
      PROVE  \E next \in Subject!Snapshot : Subject!Commit(s, next)
  <2>1. Subject!SetStatus(runtime, "handoff") \in Subject!Snapshot
    <3>1. "handoff" \in Subject!SessionStatus
      BY DEF Subject!SessionStatus
    <3> QED BY <1>1, <1>2, <3>1, Subject!StatusType
  <2> QED BY <1>7, <2>1 DEF Subject!RequestHandoff
<1> QED BY <1>3, <1>4, <1>5, <1>6, <1>7 DEF Subject!Engage, runtime

\* What closing or purging a session writes of it.
LEMMA ReconciledRow ==
  ASSUME SubjectConstants, SubjectInv, NEW s \in Session, NEW next \in Subject!Snapshot
  PROVE  /\ Subject!Reconciled(s, next) \in SessionRow
         /\ Subject!Reconciled(s, next).createdAt = session[s].createdAt
         /\ Subject!Reconciled(s, next).life = session[s].life
         /\ Subject!ToReturn(s, next.remaining) \in Subject!Budget
<1>1. session[s] \in SessionRow /\ session[s].refund \in Subject!Budget /\ next.remaining \in Subject!Budget
  BY DEF SubjectInv, SubjectTypes, SessionRow, Subject!Snapshot
<1>2. Subject!ToReturn(s, next.remaining) \in Subject!Budget
  BY <1>1, Returned DEF SubjectInv
<1>3. Subject!Plus(session[s].refund, Subject!ToReturn(s, next.remaining)) \in Subject!Budget
  BY <1>1, <1>2, Added
<1> DEFINE refund == Subject!Plus(session[s].refund, Subject!ToReturn(s, next.remaining))
<1> HIDE DEF refund
<1>4. Subject!Reconciled(s, next)
        = [session[s] EXCEPT !.reconciled = TRUE, !.refund = refund, !.runtime = next]
  BY <1>1 DEF Subject!Reconciled, refund, SessionRow
<1>5. refund \in Subject!Budget
  BY <1>3 DEF refund
<1> QED BY <1>1, <1>2, <1>4, <1>5 DEF SessionRow

\* Every step keeps the invariant, and none opens a session behind the fence.
LEMMA SubjectStep ==
  ASSUME SubjectConstants, SubjectInv, [Subject!Next]_subjectVars
  PROVE  /\ SubjectInv'
         /\ fence => \A s \in Session : session[s].life # "live" => session'[s].life # "live"
<1> DEFINE Stays == \A s \in Session : session[s].life # "live" => session'[s].life # "live"
<1>1. SubjectTypes /\ CreationFits /\ (fence => creating = Nil)
  BY DEF SubjectInv
<1>2. /\ session \in [Session -> SessionRow] /\ \A u \in Session : session[u].createdAt <= MaxClock
      /\ bucket \in [Subject!Day -> Subject!Budget] /\ subjectClock \in 0..MaxClock
      /\ MaxClock \in Nat /\ DayLength \in Nat \ {0}
  BY <1>1 DEF SubjectTypes, SubjectConstants
<1>3. ASSUME Subject!BeginCreate PROVE SubjectInv' /\ Stays
  <2>1. /\ ~fence /\ Subject!Fits(InitialBudget, bucket[subjectClock \div DayLength])
        /\ creating' = subjectClock /\ UNCHANGED <<subjectClock, bucket, session, fence, erasing>>
    BY <1>3 DEF Subject!BeginCreate, Subject!MayCreate
  <2>2. SubjectTypes'
    BY <1>1, <2>1 DEF SubjectTypes, Subject!Day
  <2>3. CreationFits'
    BY <1>2, <2>1 DEF CreationFits, Subject!Fits
  <2> QED BY <2>1, <2>2, <2>3 DEF SubjectInv
<1>4. ASSUME Subject!FinishCreate PROVE SubjectInv' /\ ~fence
  <2>1. /\ creating # Nil /\ creating' = Nil /\ UNCHANGED <<subjectClock, fence, erasing>>
        /\ bucket' = [bucket EXCEPT ![creating \div DayLength] =
                        Subject!Reserve(@, InitialBudget)]
    BY <1>4 DEF Subject!FinishCreate, Subject!Locked
  <2>2. /\ creating \in 0..MaxClock /\ ~fence
        /\ Subject!Fits(InitialBudget, bucket[creating \div DayLength])
    BY <1>1, <2>1 DEF CreationFits
  <2>3. PICK d \in Subject!Day : d = creating \div DayLength
    BY <1>2, <2>2, DayOf DEF Subject!Day
  <2>4. Subject!Reserve(bucket[d], InitialBudget) \in Subject!Budget
    BY <1>2, <2>2, <2>3, Subject!ReserveType DEF SubjectConstants, Subject!AggregateAssumption
  <2>5. bucket' \in [Subject!Day -> Subject!Budget]
    BY <1>2, <2>1, <2>3, <2>4
  <2>6. PICK s \in Session :
          session' = [session EXCEPT ![s] =
            [Subject!Absent EXCEPT !.life = "live", !.createdAt = creating]]
    BY <1>4 DEF Subject!FinishCreate
  <2>7. Subject!Absent \in SessionRow
    <3>1. Subject!CreateSnapshot \in Subject!Snapshot
      BY Subject!CreateType DEF SubjectConstants
    <3>2. Subject!NoBudget \in Subject!Budget
      BY DEF Subject!NoBudget, Subject!Budget
    <3> QED BY <3>1, <3>2 DEF Subject!Absent, SessionRow
  <2>8. PICK entry \in SessionRow :
          entry = [Subject!Absent EXCEPT !.life = "live", !.createdAt = creating]
            /\ entry.createdAt = creating
    <3>1. creating \in Nat
      BY <1>2, <2>2
    <3>2. /\ [Subject!Absent EXCEPT !.life = "live", !.createdAt = creating] \in SessionRow
          /\ [Subject!Absent EXCEPT !.life = "live", !.createdAt = creating].createdAt = creating
      BY <2>7, <3>1 DEF SessionRow
    <3> QED BY <3>2
  <2>9. session' \in [Session -> SessionRow] /\ \A u \in Session : session'[u].createdAt <= MaxClock
    BY <1>2, <2>2, <2>6, <2>8
  <2>10. SubjectTypes'
    BY <1>1, <2>1, <2>5, <2>9 DEF SubjectTypes, Subject!Day
  <2> QED BY <2>1, <2>2, <2>10 DEF SubjectInv, CreationFits
<1>5. ASSUME NEW s \in Session, Subject!Engage(s) PROVE SubjectInv' /\ Stays
  <2>1. PICK next \in Subject!Snapshot : Subject!Commit(s, next)
    BY <1>5, SubjectEngages
  <2> QED BY <2>1, SubjectCommits
<1>6. ASSUME NEW s \in Session, NEW entry \in SessionRow, NEW back \in Subject!Budget,
             entry.createdAt = session[s].createdAt,
             entry.life = "live" => session[s].life = "live",
             session' = [session EXCEPT ![s] = entry],
             bucket' = [bucket EXCEPT ![session[s].createdAt \div DayLength] = Subject!Plus(@, back)],
             UNCHANGED <<subjectClock, creating, fence, erasing>>
      PROVE  SubjectInv' /\ Stays
  <2>1. SubjectInv'
    BY <1>6, SubjectReturns
  <2> QED BY <1>2, <1>6, <2>1
<1>7. ASSUME NEW s \in Session, Subject!Close(s) PROVE SubjectInv' /\ Stays
  <2>1. PICK next \in Subject!Snapshot : next = Subject!CloseSession(session[s].runtime)
    <3>1. session[s].runtime \in Subject!Snapshot
      BY <1>2 DEF SessionRow
    <3>2. "closed" \in Subject!SessionStatus
      BY DEF Subject!SessionStatus
    <3> QED BY <3>1, <3>2, Subject!StatusType DEF Subject!CloseSession, SubjectConstants
  <2>2. /\ session' = [session EXCEPT ![s] = Subject!Reconciled(s, next)]
        /\ bucket' = [bucket EXCEPT ![session[s].createdAt \div DayLength] =
                        Subject!Plus(@, Subject!ToReturn(s, next.remaining))]
        /\ UNCHANGED <<subjectClock, creating, fence, erasing>>
    BY <1>7, <2>1 DEF Subject!Close, Subject!BudgetDay
  <2>3. PICK entry \in SessionRow, back \in Subject!Budget :
          /\ entry = Subject!Reconciled(s, next) /\ back = Subject!ToReturn(s, next.remaining)
          /\ entry.createdAt = session[s].createdAt /\ entry.life = session[s].life
    BY ReconciledRow
  <2> QED BY <1>6, <2>2, <2>3
<1>8. ASSUME NEW s \in Session, Subject!Purge(s) PROVE SubjectInv' /\ Stays
  <2>1. PICK next \in Subject!Snapshot : next = session[s].runtime
    BY <1>2 DEF SessionRow
  <2>2. /\ session' = [session EXCEPT ![s] = [Subject!Reconciled(s, next) EXCEPT !.life = "deleted"]]
        /\ bucket' = [bucket EXCEPT ![session[s].createdAt \div DayLength] =
                        Subject!Plus(@, Subject!ToReturn(s, next.remaining))]
        /\ UNCHANGED <<subjectClock, creating, fence, erasing>>
    BY <1>8, <2>1 DEF Subject!Purge, Subject!BudgetDay
  <2>3. PICK entry \in SessionRow, back \in Subject!Budget :
          /\ entry = Subject!Reconciled(s, next) /\ back = Subject!ToReturn(s, next.remaining)
          /\ entry.createdAt = session[s].createdAt
    BY ReconciledRow
  <2>4. PICK gone \in SessionRow :
          gone = [entry EXCEPT !.life = "deleted"] /\ gone.createdAt = entry.createdAt
            /\ gone.life = "deleted"
    <3>1. /\ [entry EXCEPT !.life = "deleted"] \in SessionRow
          /\ [entry EXCEPT !.life = "deleted"].life = "deleted"
          /\ [entry EXCEPT !.life = "deleted"].createdAt = entry.createdAt
      BY DEF SessionRow
    <3> QED BY <3>1
  <2> QED BY <1>6, <2>2, <2>3, <2>4
<1>9. ASSUME NEW e \in Eraser, Subject!BeginErase(e) PROVE SubjectInv' /\ Stays
  <2>1. /\ erasing' = [erasing EXCEPT ![e] = {s \in Session : Subject!Live(s)}]
        /\ UNCHANGED <<subjectClock, bucket, session, creating, fence>>
    BY <1>9 DEF Subject!BeginErase
  <2>2. /\ DOMAIN erasing' = Eraser
        /\ \A x \in Eraser : erasing'[x] = Nil \/ erasing'[x] \subseteq Session
    BY <1>1, <2>1 DEF SubjectTypes
  <2>3. SubjectTypes'
    BY <1>1, <2>1, <2>2 DEF SubjectTypes, Subject!Day
  <2> QED BY <1>1, <2>1, <2>3 DEF SubjectInv, CreationFits
<1>10. ASSUME NEW e \in Eraser, Subject!FinishErase(e) PROVE SubjectInv' /\ Stays
  <2>1. /\ creating = Nil /\ fence' = TRUE /\ erasing' = [erasing EXCEPT ![e] = Nil]
        /\ session' = [s \in Session |->
             IF s \in erasing[e] THEN [session[s] EXCEPT !.life = "deleted"] ELSE session[s]]
        /\ UNCHANGED <<subjectClock, bucket, creating>>
    BY <1>10 DEF Subject!FinishErase, Subject!HasLock, Subject!Locked
  <2>2. ASSUME NEW s \in Session
        PROVE  /\ session'[s] \in SessionRow /\ session'[s].createdAt = session[s].createdAt
               /\ session'[s].life = "live" => session[s].life = "live"
    <3>1. session[s] \in SessionRow
      BY <1>2
    <3>2. [session[s] EXCEPT !.life = "deleted"] \in SessionRow
      BY <3>1 DEF SessionRow
    <3> QED BY <2>1, <3>1, <3>2 DEF SessionRow
  <2>3. DOMAIN erasing' = Eraser /\ \A x \in Eraser : erasing'[x] = Nil \/ erasing'[x] \subseteq Session
    BY <1>1, <2>1 DEF SubjectTypes
  <2>4. session' \in [Session -> SessionRow] /\ \A u \in Session : session'[u].createdAt <= MaxClock
    BY <1>2, <2>1, <2>2
  <2>5. SubjectTypes'
    BY <1>1, <2>1, <2>3, <2>4 DEF SubjectTypes, Subject!Day
  <2> QED BY <2>1, <2>2, <2>5 DEF SubjectInv, CreationFits
<1>11. ASSUME Subject!Tick \/ UNCHANGED subjectVars PROVE SubjectInv' /\ Stays
  <2>1. /\ subjectClock' \in 0..MaxClock
        /\ UNCHANGED <<bucket, session, creating, fence, erasing>>
    BY <1>2, <1>11 DEF Subject!Tick, subjectVars
  <2>2. SubjectTypes'
    BY <1>1, <2>1 DEF SubjectTypes, Subject!Day
  <2> QED BY <1>1, <2>1, <2>2 DEF SubjectInv, CreationFits
<1> QED
  BY <1>3, <1>4, <1>5, <1>7, <1>8, <1>9, <1>10, <1>11 DEF Subject!Next

\* The invariant of the subject's sessions holds in every reachable state.
THEOREM SubjectInvariance ==
  ASSUME SubjectConstants
  PROVE  Subject!Spec => []SubjectInv
<1>1. Subject!Init => SubjectInv
  <2> SUFFICES ASSUME Subject!Init PROVE SubjectInv
    OBVIOUS
  <2>1. Subject!Absent \in SessionRow /\ Subject!Absent.createdAt = 0
    <3>1. Subject!CreateSnapshot \in Subject!Snapshot
      BY Subject!CreateType DEF SubjectConstants
    <3>2. Subject!NoBudget \in Subject!Budget
      BY DEF Subject!NoBudget, Subject!Budget
    <3> QED BY <3>1, <3>2 DEF Subject!Absent, SessionRow
  <2>2. SubjectTypes
    <3>1. /\ subjectClock = 0 /\ bucket = [d \in Subject!Day |-> DailyLimit]
          /\ session = [s \in Session |-> Subject!Absent] /\ fence = FALSE
          /\ erasing = [e \in Eraser |-> Nil]
      BY DEF Subject!Init
    <3>2. MaxClock \in Nat /\ DailyLimit \in Subject!Budget
      BY DEF SubjectConstants
    <3>3. session \in [Session -> SessionRow] /\ \A s \in Session : session[s].createdAt = 0
      BY <2>1, <3>1
    <3>4. DOMAIN erasing = Eraser /\ \A e \in Eraser : erasing[e] = Nil
      BY <3>1
    <3>5. bucket \in [Subject!Day -> Subject!Budget] /\ subjectClock \in 0..MaxClock
      BY <3>1, <3>2
    <3>6. \A s \in Session : session[s].createdAt <= MaxClock
      BY <3>2, <3>3
    <3>7. fence \in BOOLEAN
      BY <3>1
    <3>8. \A e \in Eraser : erasing[e] = Nil \/ erasing[e] \subseteq Session
      BY <3>4
    <3> QED BY <3>3, <3>4, <3>5, <3>6, <3>7, <3>8 DEF SubjectTypes
  <2> QED BY <2>2 DEF Subject!Init, SubjectInv, CreationFits
<1>2. SubjectInv /\ [Subject!Next]_subjectVars => SubjectInv'
  BY SubjectStep
<1> QED BY <1>1, <1>2, PTL DEF Subject!Spec, Subject!vars, subjectVars

\* Once erasure set a subject's fence, no session is created for it, not even one
\* whose checks had passed: the creation and the fence take the same lock.
THEOREM FencedSubjectOpensNothing ==
  ASSUME SubjectConstants
  PROVE  Subject!Spec => Subject!FenceStopsCreation
<1>1. SubjectInv /\ [Subject!Next]_subjectVars
        => [fence => \A s \in Session : ~Subject!Live(s) => session'[s].life # "live"]_subjectVars
  BY SubjectStep DEF Subject!Live
<1> QED BY <1>1, SubjectInvariance, PTL
          DEF Subject!Spec, Subject!vars, subjectVars, Subject!FenceStopsCreation

-----------------------------------------------------------------------------
(* The budget the sessions of a subject share.                              *)

\* What a session accounts for: its budget is with its turns or left, and a turn that
\* has not settled was charged nothing.
Accounted(runtime) ==
  Subject!Conserved(runtime) /\ \A t \in Turn : Subject!Uncharged(runtime.turns[t])
\* What a session that was closed may still do: its turns settle, so that what remains
\* grows, and it does not open again.
Recedes(runtime, next) ==
  runtime.status # "open" =>
    /\ next.status # "open"
    /\ \A r \in Resource : runtime.remaining[r] <= next.remaining[r]
\* What a day has given to a session and not been given back.
Kept(entry, day, r) ==
  IF entry.life # "absent" /\ entry.createdAt \div DayLength = day
  THEN InitialBudget[r] - entry.refund[r] ELSE 0
\* A session's budget: it returned no more than what its turns leave of it, and once.
SessionAccounts(entry) ==
  /\ Accounted(entry.runtime)
  /\ entry.reconciled => entry.runtime.status # "open" \/ entry.life = "deleted"
  /\ ~entry.reconciled => entry.refund = Subject!NoBudget
  /\ \A r \in Resource : entry.refund[r] <= entry.runtime.remaining[r]
KeptBySessions(day, r) == Subject!SumFunctionOnSet([s \in Session |-> Kept(session[s], day, r)], Session)
\* The accounts of the subject: what a day has left and what its sessions keep is its
\* limit, and only sessions that were created are erased.
SubjectAccounts ==
  /\ \A s \in Session : SessionAccounts(session[s])
  /\ \A e \in Eraser : erasing[e] = Nil \/ \A s \in erasing[e] : session[s].life # "absent"
  /\ \A day \in Subject!Day, r \in Resource :
       bucket[day][r] + KeptBySessions(day, r) = DailyLimit[r]

\* What remains of a session is no more than its budget, and with what its turns are
\* charged it is no more than that either.
LEMMA RemainingFits ==
  ASSUME SubjectConstants, NEW runtime \in Subject!Snapshot, Accounted(runtime), NEW r \in Resource
  PROVE  /\ runtime.remaining[r] \in Nat /\ InitialBudget[r] \in Nat
         /\ runtime.remaining[r] <= InitialBudget[r]
         /\ Subject!SumFunctionOnSet([t \in Turn |-> runtime.turns[t].usage[r]], Turn) \in Nat
         /\ runtime.remaining[r]
              + Subject!SumFunctionOnSet([t \in Turn |-> runtime.turns[t].usage[r]], Turn)
              <= InitialBudget[r]
<1> DEFINE f == [t \in Turn |-> runtime.turns[t].usage[r]]
           h == [t \in Turn |-> Subject!Withheld(runtime.turns[t], r)]
<1>0. Subject!AggregateAssumption
  BY DEF SubjectConstants
<1>1. Subject!IsFiniteSet(Turn) /\ InitialBudget[r] \in Nat
  BY <1>0 DEF Subject!AggregateAssumption, Subject!Budget
<1>2. ASSUME NEW t \in Turn
      PROVE  f[t] \in Nat /\ h[t] \in Nat /\ f[t] <= h[t]
  <2>1. runtime.turns[t] \in Subject!TurnRecord
    BY <1>0, Subject!TurnOf
  <2>2. h[t] \in Nat /\ f[t] \in Nat
    BY <1>0, <2>1, Subject!WithheldType DEF Subject!TurnRecord, Subject!Budget
  <2>3. CASE runtime.turns[t].status \in Subject!ActiveStatus
    <3>1. f[t] = 0
      BY <2>3 DEF Accounted, Subject!Uncharged, Subject!ActiveStatus, Subject!TerminalStatus,
                  Subject!NoBudget
    <3> QED BY <2>2, <3>1
  <2>4. CASE runtime.turns[t].status \notin Subject!ActiveStatus
    <3>1. f[t] = h[t]
      BY <2>4 DEF Subject!Withheld
    <3> QED BY <2>2, <3>1
  <2> QED BY <2>2, <2>3, <2>4
<1>3. Subject!WithheldBy(runtime.turns, r) = Subject!SumFunctionOnSet(h, Turn)
  BY DEF Subject!WithheldBy
<1> HIDE DEF f, h
<1>4. Turn \in SUBSET Turn
  OBVIOUS
<1>5. Subject!SumFunctionOnSet(f, Turn) <= Subject!SumFunctionOnSet(h, Turn)
  BY <1>0, <1>1, <1>2, <1>4, Subject!SumFits
<1>6. Subject!SumFunctionOnSet(f, Turn) \in Nat /\ Subject!SumFunctionOnSet(h, Turn) \in Nat
  BY <1>0, <1>1, <1>2, Subject!SumType
<1>7. runtime.remaining[r] + Subject!SumFunctionOnSet(h, Turn) = InitialBudget[r]
  BY <1>3 DEF Accounted, Subject!Conserved
<1>8. runtime.remaining[r] \in Nat
  BY DEF Subject!Snapshot, Subject!Budget
<1>9. /\ runtime.remaining[r] <= InitialBudget[r]
      /\ runtime.remaining[r] + Subject!SumFunctionOnSet(f, Turn) <= InitialBudget[r]
  BY <1>1, <1>5, <1>6, <1>7, <1>8
<1> QED BY <1>1, <1>6, <1>8, <1>9 DEF f

\* A turn that settles gives back what it was not charged.
LEMMA SettlementRecedes ==
  ASSUME NEW a \in Subject!Budget, NEW b \in Subject!Budget, NEW u \in Subject!Budget,
         Subject!Fits(u, b), NEW r \in Resource
  PROVE  a[r] <= Subject!ReleaseUnusedBudget(a, b, u)[r]
<1>1. /\ Subject!ReleaseUnusedBudget(a, b, u)[r] = a[r] + b[r] - u[r]
      /\ a[r] \in Nat /\ b[r] \in Nat /\ u[r] \in Nat /\ u[r] <= b[r]
  BY DEF Subject!ReleaseUnusedBudget, Subject!Budget, Subject!Fits
<1> QED BY <1>1

\* Whatever a session's conversation does keeps its accounts.
LEMMA EngagementAccounts ==
  ASSUME SubjectConstants, SubjectInv, NEW s \in Session, Subject!Engage(s),
         Accounted(session[s].runtime)
  PROVE  \E next \in Subject!Snapshot :
           /\ Subject!Commit(s, next) /\ Accounted(next) /\ Recedes(session[s].runtime, next)
<1> DEFINE Goal == \E next \in Subject!Snapshot :
             Subject!Commit(s, next) /\ Accounted(next) /\ Recedes(session[s].runtime, next)
<1>1. PICK runtime \in Subject!Snapshot : runtime = session[s].runtime
  BY DEF SubjectInv, SubjectTypes, SessionRow
<1>2. /\ Subject!AggregateAssumption /\ subjectClock \in Nat
      /\ runtime.turns \in [Turn -> Subject!TurnRecord]
      /\ runtime.remaining \in Subject!Budget /\ runtime.fencingTokenHighWatermark \in Nat
      /\ Accounted(runtime) /\ Subject!Conserved(runtime)
      /\ \A t \in Turn : Subject!Uncharged(runtime.turns[t])
  BY <1>1 DEF SubjectInv, SubjectTypes, Subject!Snapshot, SubjectConstants, Accounted
<1>3. ASSUME NEW next \in Subject!Snapshot, NEW t \in Turn, Subject!Conserved(next),
             \A u \in Turn \ {t} : next.turns[u] = runtime.turns[u],
             Subject!Uncharged(next.turns[t])
      PROVE  Accounted(next)
  BY <1>2, <1>3 DEF Accounted
<1>4. ASSUME NEW t \in Turn, NEW m \in Message, NEW f \in Fingerprint, NEW b \in Reservation,
             Subject!CanAccept(runtime, t, b),
             Subject!Commit(s, Subject!AcceptMessage(runtime, t, m, f, b))
      PROVE  Goal
  <2>1. PICK next \in Subject!Snapshot : next = Subject!AcceptMessage(runtime, t, m, f, b)
    BY <1>2, <1>4, Subject!AcceptType
  <2>2. Subject!Conserved(next)
    BY <1>2, <1>4, <2>1, Subject!AcceptConserves
  <2>3. /\ \A u \in Turn \ {t} : next.turns[u] = runtime.turns[u]
        /\ next.turns[t] = Subject!AcceptedTurn(runtime, m, f, b)
    BY <1>2, <2>1 DEF Subject!AcceptMessage, Subject!Advance
  <2>4. Subject!Uncharged(next.turns[t])
    BY <1>2, <2>3, Subject!AcceptedFields DEF Subject!Uncharged
  <2>5. Recedes(runtime, next)
    BY <1>4 DEF Subject!CanAccept, Recedes
  <2> QED BY <1>1, <1>3, <1>4, <2>1, <2>2, <2>3, <2>4, <2>5
<1>5. ASSUME NEW t \in Turn,
             Subject!CanClaim(runtime, t, runtime.fencingTokenHighWatermark + 1, subjectClock),
             Subject!Commit(s, Subject!ClaimTurn(runtime, t,
                                 runtime.fencingTokenHighWatermark + 1, subjectClock))
      PROVE  Goal
  <2> DEFINE fence1 == runtime.fencingTokenHighWatermark + 1
  <2>1. fence1 \in Nat
    BY <1>2
  <2>2. Subject!CanClaim(runtime, t, fence1, subjectClock)
    BY <1>5
  <2>3. Subject!Commit(s, Subject!ClaimTurn(runtime, t, fence1, subjectClock))
    BY <1>5
  <2> HIDE DEF fence1
  <2>4. PICK next \in Subject!Snapshot : next = Subject!ClaimTurn(runtime, t, fence1, subjectClock)
    BY <1>2, <2>1, Subject!ClaimType
  <2>5. Subject!Conserved(next)
    BY <1>2, <2>1, <2>2, <2>4, Subject!ClaimConserves
  <2>6. /\ \A u \in Turn \ {t} : next.turns[u] = runtime.turns[u]
        /\ next.turns[t] = Subject!ClaimedTurn(runtime.turns[t], fence1, subjectClock)
    BY <1>2, <2>4 DEF Subject!ClaimTurn, Subject!Advance
  <2>7. Subject!Uncharged(next.turns[t])
    <3>1. runtime.turns[t].status \in {"accepted", "claimed"}
      BY <2>2 DEF Subject!CanClaim, Subject!IsFirstClaimable, Subject!Claimable
    <3>2. runtime.turns[t].usage = Subject!NoBudget
      BY <1>2, <3>1 DEF Subject!Uncharged, Subject!TerminalStatus
    <3>3. next.turns[t].usage = runtime.turns[t].usage
      BY <1>2, <2>6, Subject!ClaimedFields
    <3> QED BY <3>2, <3>3 DEF Subject!Uncharged
  <2>8. Recedes(runtime, next)
    BY <2>2 DEF Subject!CanClaim, Recedes
  <2> QED BY <1>1, <1>3, <2>3, <2>4, <2>5, <2>6, <2>7, <2>8
<1>6. ASSUME NEW t \in Turn, NEW next \in Subject!Snapshot, NEW charged \in Subject!Budget,
             Subject!Fits(charged, runtime.turns[t].budget), Subject!Conserved(next),
             \A u \in Turn \ {t} : next.turns[u] = runtime.turns[u],
             next.turns[t].status \in Subject!TerminalStatus,
             next.remaining = Subject!ReleaseUnusedBudget(runtime.remaining,
                                runtime.turns[t].budget, charged),
             next.status \in {"handoff", runtime.status},
             Subject!Commit(s, next)
      PROVE  Goal
  <2>1. Subject!Uncharged(next.turns[t])
    BY <1>6 DEF Subject!Uncharged
  <2>2. runtime.turns[t].budget \in Subject!Budget
    BY <1>2 DEF Subject!TurnRecord
  <2>3. \A r \in Resource : runtime.remaining[r] <= next.remaining[r]
    BY <1>2, <1>6, <2>2, SettlementRecedes
  <2>4. Recedes(runtime, next)
    BY <1>6, <2>3 DEF Recedes
  <2> QED BY <1>1, <1>3, <1>6, <2>1, <2>4
<1>7. ASSUME NEW t \in Turn, NEW used \in Usage, NEW outcome, NEW held,
             Subject!CanComplete(runtime, t, held, used, Nil, subjectClock),
             Subject!Commit(s, Subject!CompleteTurn(runtime, t, outcome, used, Nil))
      PROVE  Goal
  <2>1. PICK next \in Subject!Snapshot : next = Subject!CompleteTurn(runtime, t, outcome, used, Nil)
    BY <1>2, <1>7, Subject!CompleteType
  <2>2. Subject!Conserved(next)
    BY <1>2, <1>7, <2>1, Subject!CompleteConserves
  <2>3. /\ \A u \in Turn \ {t} : next.turns[u] = runtime.turns[u]
        /\ next.turns[t] = Subject!CompletedTurn(runtime.turns[t], outcome, used, Nil)
        /\ next.remaining = Subject!ReleaseUnusedBudget(runtime.remaining,
                              runtime.turns[t].budget, used)
        /\ next.status \in {"handoff", runtime.status}
    BY <1>2, <2>1 DEF Subject!CompleteTurn, Subject!Advance
  <2>4. next.turns[t].status \in Subject!TerminalStatus
    BY <1>2, <2>3, Subject!SettledTurnFields DEF Subject!CompletedTurn, Subject!TerminalStatus
  <2>5. used \in Subject!Budget /\ Subject!Fits(used, runtime.turns[t].budget)
    BY <1>2, <1>7 DEF Subject!CanComplete, Subject!AggregateAssumption
  <2> QED BY <1>6, <1>7, <2>1, <2>2, <2>3, <2>4, <2>5
<1>8. ASSUME NEW t \in Turn, NEW used \in Usage, NEW authority, NEW held,
             Subject!CanCancel(runtime, t, authority, held, used, subjectClock),
             Subject!Commit(s, Subject!CancelTurn(runtime, t, authority, used))
      PROVE  Goal
  <2> DEFINE charged == Subject!CancelUsage(runtime.turns[t], authority, used)
  <2>1. PICK next \in Subject!Snapshot : next = Subject!CancelTurn(runtime, t, authority, used)
    BY <1>2, <1>8, Subject!CancelType
  <2>2. Subject!Conserved(next)
    BY <1>2, <1>8, <2>1, Subject!CancelConserves
  <2>3. /\ \A u \in Turn \ {t} : next.turns[u] = runtime.turns[u]
        /\ next.turns[t] = Subject!CancelledTurn(runtime.turns[t], authority, used)
        /\ next.remaining = Subject!ReleaseUnusedBudget(runtime.remaining,
                              runtime.turns[t].budget, charged)
        /\ next.status = runtime.status
    BY <1>2, <2>1 DEF Subject!CancelTurn, Subject!Advance
  <2>4. charged \in Subject!Budget /\ Subject!Fits(charged, runtime.turns[t].budget)
    BY <1>2, <1>8, Subject!CancelUsageFits
  <2> HIDE DEF charged
  <2>5. next.turns[t].status \in Subject!TerminalStatus
    BY <1>2, <2>3, Subject!SettledTurnFields DEF Subject!CancelledTurn, Subject!TerminalStatus
  <2> QED BY <1>6, <1>8, <2>1, <2>2, <2>3, <2>4, <2>5
<1>9. ASSUME Subject!Commit(s, Subject!RequestHandoff(runtime))
      PROVE  Goal
  <2>1. PICK next \in Subject!Snapshot : next = Subject!SetStatus(runtime, "handoff")
    BY <1>2, Subject!StatusType DEF Subject!SessionStatus
  <2>2. Subject!Conserved(next)
    BY <1>2, <2>1, Subject!StatusConserves
  <2>3. /\ next.turns = runtime.turns /\ next.remaining = runtime.remaining
        /\ next.status = "handoff"
    BY <2>1 DEF Subject!SetStatus, Subject!Advance
  <2>4. Accounted(next)
    BY <1>2, <2>2, <2>3 DEF Accounted
  <2>5. Recedes(runtime, next)
    BY <1>2, <2>3 DEF Recedes, Subject!Budget
  <2> QED BY <1>1, <1>9, <2>1, <2>4, <2>5 DEF Subject!RequestHandoff
<1> HIDE DEF Goal
<1>10. Goal
  BY <1>1, <1>4, <1>5, <1>7, <1>8, <1>9 DEF Subject!Engage
<1> QED BY <1>10 DEF Goal

\* Where two functions of the sessions differ at one session only, their sums differ as much.
LEMMA SessionSums ==
  ASSUME SubjectConstants, NEW f, NEW h, NEW x \in Session,
         \A y \in Session : f[y] \in Nat /\ h[y] \in Nat, \A y \in Session \ {x} : h[y] = f[y]
  PROVE  /\ Subject!SumFunctionOnSet(f, Session) \in Nat /\ Subject!SumFunctionOnSet(h, Session) \in Nat
         /\ Subject!SumFunctionOnSet(h, Session)
              = Subject!SumFunctionOnSet(f, Session) + h[x] - f[x]
<1>1. Subject!IsFiniteSet(Session) /\ Subject!AggregateAssumption
  BY DEF SubjectConstants, IsFiniteSet, Subject!IsFiniteSet
<1> QED BY <1>1, Subject!SumChanges

\* What the sessions keep of a day changes only by the session that changes.
LEMMA KeptChanges ==
  ASSUME SubjectConstants, NEW s \in Session, NEW entry, NEW day, NEW r \in Resource,
         session' = [session EXCEPT ![s] = entry], DOMAIN session = Session,
         \A u \in Session : Kept(session[u], day, r) \in Nat, Kept(entry, day, r) \in Nat
  PROVE  /\ KeptBySessions(day, r) \in Nat /\ KeptBySessions(day, r)' \in Nat
         /\ KeptBySessions(day, r)'
              = KeptBySessions(day, r) + Kept(entry, day, r) - Kept(session[s], day, r)
<1> DEFINE f == [u \in Session |-> Kept(session[u], day, r)]
           h == [u \in Session |-> Kept(session'[u], day, r)]
<1>2. /\ \A u \in Session : f[u] \in Nat /\ h[u] \in Nat
      /\ \A u \in Session \ {s} : h[u] = f[u]
      /\ f[s] = Kept(session[s], day, r) /\ h[s] = Kept(entry, day, r)
  OBVIOUS
<1>3. /\ KeptBySessions(day, r) = Subject!SumFunctionOnSet(f, Session)
      /\ KeptBySessions(day, r)' = Subject!SumFunctionOnSet(h, Session)
  BY DEF KeptBySessions, Kept
<1> HIDE DEF f, h
<1>4. /\ Subject!SumFunctionOnSet(f, Session) \in Nat /\ Subject!SumFunctionOnSet(h, Session) \in Nat
      /\ Subject!SumFunctionOnSet(h, Session)
           = Subject!SumFunctionOnSet(f, Session) + h[s] - f[s]
  BY <1>2, SessionSums
<1> QED BY <1>2, <1>3, <1>4

\* What a session keeps of a day is a natural: it returned no more than it reserved.
LEMMA KeptType ==
  ASSUME SubjectConstants, NEW entry \in SessionRow, SessionAccounts(entry), NEW day,
         NEW r \in Resource
  PROVE  Kept(entry, day, r) \in Nat
<1>1. /\ entry.runtime \in Subject!Snapshot /\ entry.refund \in Subject!Budget
      /\ Accounted(entry.runtime) /\ entry.refund[r] <= entry.runtime.remaining[r]
  BY DEF SessionRow, SessionAccounts
<1>2. /\ entry.runtime.remaining[r] \in Nat /\ InitialBudget[r] \in Nat
      /\ entry.runtime.remaining[r] <= InitialBudget[r]
  BY <1>1, RemainingFits
<1>3. entry.refund[r] \in Nat
  BY <1>1 DEF Subject!Budget
<1> QED BY <1>1, <1>2, <1>3 DEF Kept

\* A step that writes one session, and moves as much between its day and the session
\* as the session keeps less of it, keeps the accounts.
LEMMA RowAccounts ==
  ASSUME SubjectConstants, SubjectInv, SubjectAccounts, NEW s \in Session,
         NEW entry \in SessionRow, SessionAccounts(entry), entry.life # "absent",
         session' = [session EXCEPT ![s] = entry], erasing' = erasing,
         bucket' \in [Subject!Day -> Subject!Budget],
         \A day \in Subject!Day, r \in Resource :
           bucket'[day][r] + Kept(entry, day, r) = bucket[day][r] + Kept(session[s], day, r)
  PROVE  SubjectAccounts'
<1>1. session \in [Session -> SessionRow] /\ bucket \in [Subject!Day -> Subject!Budget]
  BY DEF SubjectInv, SubjectTypes
<1>2. \A u \in Session : SessionAccounts(session'[u])
  BY <1>1 DEF SubjectAccounts
<1>3. \A e \in Eraser : erasing'[e] = Nil \/ \A u \in erasing'[e] : session'[u].life # "absent"
  <2> SUFFICES ASSUME NEW e \in Eraser, erasing[e] # Nil, NEW u \in erasing[e]
               PROVE  session'[u].life # "absent"
    OBVIOUS
  <2>1. u \in Session /\ session[u].life # "absent"
    BY DEF SubjectInv, SubjectTypes, SubjectAccounts
  <2> QED BY <1>1, <2>1
<1>4. ASSUME NEW day \in Subject!Day, NEW r \in Resource
      PROVE  bucket'[day][r] + KeptBySessions(day, r)' = DailyLimit[r]
  <2>1. /\ \A u \in Session : Kept(session[u], day, r) \in Nat
        /\ Kept(entry, day, r) \in Nat
    BY <1>1, KeptType DEF SubjectAccounts
  <2>2. /\ KeptBySessions(day, r) \in Nat /\ KeptBySessions(day, r)' \in Nat
        /\ KeptBySessions(day, r)'
             = KeptBySessions(day, r) + Kept(entry, day, r) - Kept(session[s], day, r)
    BY <1>1, <2>1, KeptChanges
  <2>3. bucket[day][r] + KeptBySessions(day, r) = DailyLimit[r]
    BY DEF SubjectAccounts
  <2>4. bucket'[day][r] + Kept(entry, day, r) = bucket[day][r] + Kept(session[s], day, r)
    OBVIOUS
  <2>5. bucket[day][r] \in Nat /\ bucket'[day][r] \in Nat
    BY <1>1 DEF Subject!Budget
  <2>6. Kept(session[s], day, r) \in Nat
    BY <2>1
  <2> QED BY <2>1, <2>2, <2>3, <2>4, <2>5, <2>6
<1> QED BY <1>2, <1>3, <1>4 DEF SubjectAccounts, Subject!Day

\* What a session that is closed or purged returned is part of what its turns leave.
LEMMA ReconciledAccounts ==
  ASSUME SubjectConstants, SubjectInv, NEW s \in Session, SessionAccounts(session[s]),
         NEW next \in Subject!Snapshot, next.remaining = session[s].runtime.remaining
  PROVE  /\ Subject!Reconciled(s, next).reconciled = TRUE
         /\ Subject!Reconciled(s, next).runtime = next
         /\ \A r \in Resource :
              /\ Subject!Reconciled(s, next).refund[r]
                   = session[s].refund[r] + Subject!ToReturn(s, next.remaining)[r]
              /\ Subject!Reconciled(s, next).refund[r] <= next.remaining[r]
<1>1. /\ session[s] \in SessionRow /\ session[s].refund \in Subject!Budget
      /\ next.remaining \in Subject!Budget /\ InitialBudget \in Subject!Budget
  BY DEF SubjectInv, SubjectTypes, SessionRow, Subject!Snapshot, SubjectConstants,
         Subject!AggregateAssumption
<1> DEFINE back == Subject!ToReturn(s, next.remaining)
<1>2. back \in Subject!Budget
  BY <1>1, Returned DEF SubjectInv
<1>3. ASSUME NEW r \in Resource
      PROVE  session[s].refund[r] + back[r] <= next.remaining[r]
  <2>1. session[s].refund[r] \in Nat /\ next.remaining[r] \in Nat /\ InitialBudget[r] \in Nat
    BY <1>1 DEF Subject!Budget
  <2>2. CASE session[s].reconciled
    <3>1. back[r] = 0
      BY <2>2 DEF Subject!ToReturn, Subject!NoBudget
    <3>2. session[s].refund[r] <= next.remaining[r]
      BY DEF SessionAccounts
    <3> QED BY <2>1, <3>1, <3>2
  <2>3. CASE ~session[s].reconciled
    <3>1. session[s].refund[r] = 0
      BY <2>3 DEF SessionAccounts, Subject!NoBudget
    <3>2. back[r] <= next.remaining[r] /\ back[r] \in Nat
      BY <2>1, <2>3 DEF Subject!ToReturn, Subject!Returnable, Subject!Least
    <3> QED BY <2>1, <3>1, <3>2
  <2> QED BY <2>2, <2>3
<1> HIDE DEF back
<1> DEFINE refund == Subject!Plus(session[s].refund, back)
<1>4. \A r \in Resource : refund[r] = session[s].refund[r] + back[r]
  BY DEF Subject!Plus
<1> HIDE DEF refund
<1>5. Subject!Reconciled(s, next)
        = [session[s] EXCEPT !.reconciled = TRUE, !.refund = refund, !.runtime = next]
  BY <1>1 DEF Subject!Reconciled, refund, back, SessionRow
<1>6. /\ Subject!Reconciled(s, next).reconciled = TRUE
      /\ Subject!Reconciled(s, next).runtime = next
      /\ Subject!Reconciled(s, next).refund = refund
  BY <1>1, <1>5 DEF SessionRow
<1> QED BY <1>3, <1>4, <1>6 DEF back

\* A session that is closed or purged keeps of its day what it does not give back to it.
LEMMA ReturnAccounts ==
  ASSUME SubjectConstants, SubjectInv, SubjectAccounts, NEW s \in Session,
         session[s].life # "absent", NEW next \in Subject!Snapshot,
         next.remaining = session[s].runtime.remaining, Accounted(next),
         NEW entry \in SessionRow, entry.life # "absent",
         entry.createdAt = session[s].createdAt, entry.reconciled = TRUE,
         entry.runtime = next, entry.refund = Subject!Reconciled(s, next).refund,
         entry.life = "deleted" \/ next.status # "open",
         session' = [session EXCEPT ![s] = entry], UNCHANGED erasing,
         bucket' = [bucket EXCEPT ![session[s].createdAt \div DayLength] =
                      Subject!Plus(@, Subject!ToReturn(s, next.remaining))]
  PROVE  SubjectAccounts'
<1>1. /\ session \in [Session -> SessionRow] /\ bucket \in [Subject!Day -> Subject!Budget]
      /\ session[s].createdAt \in 0..MaxClock /\ DayLength \in Nat \ {0} /\ MaxClock \in Nat
  BY DEF SubjectInv, SubjectTypes, SessionRow, SubjectConstants
<1>2. PICK d \in Subject!Day : d = session[s].createdAt \div DayLength
  BY <1>1, DayOf DEF Subject!Day
<1>3. PICK back \in Subject!Budget : back = Subject!ToReturn(s, next.remaining)
  BY ReconciledRow
<1>4. bucket' = [bucket EXCEPT ![d] = Subject!Plus(bucket[d], back)]
  BY <1>1, <1>2, <1>3
<1>5. Subject!Plus(bucket[d], back) \in Subject!Budget
  BY <1>1, Added
<1>6. bucket' \in [Subject!Day -> Subject!Budget]
  BY <1>1, <1>4, <1>5
<1>7. SessionAccounts(session[s])
  BY DEF SubjectAccounts
<1>8. \A r \in Resource : /\ entry.refund[r] = session[s].refund[r] + back[r]
                          /\ entry.refund[r] <= next.remaining[r]
  <2>1. \A r \in Resource :
          /\ Subject!Reconciled(s, next).refund[r]
               = session[s].refund[r] + Subject!ToReturn(s, next.remaining)[r]
          /\ Subject!Reconciled(s, next).refund[r] <= next.remaining[r]
    BY <1>7, ReconciledAccounts
  <2> QED BY <1>3, <2>1
<1>9. SessionAccounts(entry)
  BY <1>8 DEF SessionAccounts
<1>10. ASSUME NEW day \in Subject!Day, NEW r \in Resource
       PROVE  bucket'[day][r] + Kept(entry, day, r) = bucket[day][r] + Kept(session[s], day, r)
  <2>1. /\ bucket[day][r] \in Nat /\ back[r] \in Nat /\ session[s].refund[r] \in Nat
        /\ InitialBudget[r] \in Nat
    BY <1>1 DEF Subject!Budget, SessionRow, SubjectConstants, Subject!AggregateAssumption
  <2>2. CASE day = d
    <3>1. bucket'[day][r] = bucket[day][r] + back[r]
      BY <1>1, <1>4, <2>2 DEF Subject!Plus
    <3>2. /\ Kept(session[s], day, r) = InitialBudget[r] - session[s].refund[r]
          /\ Kept(entry, day, r) = InitialBudget[r] - entry.refund[r]
      BY <1>2, <2>2 DEF Kept
    <3>3. entry.refund[r] = session[s].refund[r] + back[r]
      BY <1>8
    <3> QED BY <2>1, <3>1, <3>2, <3>3
  <2>3. CASE day # d
    <3>1. bucket'[day] = bucket[day]
      BY <1>1, <1>4, <2>3
    <3>2. Kept(session[s], day, r) = 0 /\ Kept(entry, day, r) = 0
      BY <1>2, <2>3 DEF Kept
    <3> QED BY <3>1, <3>2
  <2> QED BY <2>2, <2>3
<1> QED BY <1>6, <1>9, <1>10, RowAccounts

\* A new session's accounts: it has its whole budget and returned nothing.
LEMMA NewAccounts ==
  ASSUME SubjectConstants
  PROVE  Subject!Absent \in SessionRow /\ SessionAccounts(Subject!Absent)
<1>1. Subject!AggregateAssumption
  BY DEF SubjectConstants
<1>2. Subject!CreateSnapshot \in Subject!Snapshot /\ Subject!Conserved(Subject!CreateSnapshot)
  BY <1>1, Subject!CreateType, Subject!CreateConserves
<1>3. /\ \A t \in Turn : Subject!CreateSnapshot.turns[t].usage = Subject!NoBudget
      /\ \A r \in Resource : Subject!CreateSnapshot.remaining[r] = InitialBudget[r]
  BY DEF Subject!CreateSnapshot, Subject!AbsentTurn
<1>4. Accounted(Subject!CreateSnapshot)
  BY <1>2, <1>3 DEF Accounted, Subject!Uncharged
<1>5. /\ Subject!Absent \in SessionRow /\ Subject!Absent.runtime = Subject!CreateSnapshot
      /\ Subject!Absent.reconciled = FALSE /\ Subject!Absent.refund = Subject!NoBudget
  BY <1>2 DEF Subject!Absent, SessionRow, Subject!NoBudget, Subject!Budget
<1>6. \A r \in Resource : Subject!NoBudget[r] <= InitialBudget[r]
  BY <1>1 DEF Subject!NoBudget, Subject!AggregateAssumption, Subject!Budget
<1> QED BY <1>3, <1>4, <1>5, <1>6 DEF SessionAccounts

\* Every step keeps the accounts of the subject.
LEMMA SubjectAccountsStep ==
  ASSUME SubjectConstants, SubjectInv, SubjectAccounts, [Subject!Next]_subjectVars
  PROVE  SubjectAccounts'
<1>1. /\ session \in [Session -> SessionRow] /\ bucket \in [Subject!Day -> Subject!Budget]
      /\ MaxClock \in Nat /\ DayLength \in Nat \ {0} /\ InitialBudget \in Subject!Budget
      /\ \A u \in Session : SessionAccounts(session[u])
  BY DEF SubjectInv, SubjectTypes, SubjectConstants, Subject!AggregateAssumption, SubjectAccounts
<1>2. ASSUME UNCHANGED <<session, bucket>>,
             \A e \in Eraser : erasing'[e] = Nil \/ \A s \in erasing'[e] : session[s].life # "absent"
      PROVE  SubjectAccounts'
  <2>1. \A day \in Subject!Day, r \in Resource : KeptBySessions(day, r)' = KeptBySessions(day, r)
    BY <1>2 DEF KeptBySessions, Kept
  <2> QED BY <1>2, <2>1 DEF SubjectAccounts, Subject!Day
<1>3. ASSUME Subject!FinishCreate PROVE SubjectAccounts'
  <2>1. /\ creating # Nil /\ UNCHANGED erasing
        /\ bucket' = [bucket EXCEPT ![creating \div DayLength] =
                        Subject!Reserve(@, InitialBudget)]
    BY <1>3 DEF Subject!FinishCreate, Subject!Locked
  <2>2. /\ creating \in 0..MaxClock
        /\ Subject!Fits(InitialBudget, bucket[creating \div DayLength])
    BY <2>1 DEF SubjectInv, CreationFits
  <2>3. PICK d \in Subject!Day : d = creating \div DayLength
    BY <1>1, <2>2, DayOf DEF Subject!Day
  <2>4. Subject!Reserve(bucket[d], InitialBudget) \in Subject!Budget
    BY <1>1, <2>2, <2>3, Subject!ReserveType DEF SubjectConstants
  <2>5. bucket' \in [Subject!Day -> Subject!Budget]
    BY <1>1, <2>1, <2>3, <2>4
  <2>6. PICK s \in Session : session[s].life = "absent" /\
          session' = [session EXCEPT ![s] =
            [Subject!Absent EXCEPT !.life = "live", !.createdAt = creating]]
    BY <1>3 DEF Subject!FinishCreate
  <2>7. Subject!Absent \in SessionRow /\ SessionAccounts(Subject!Absent)
        /\ Subject!Absent.refund = Subject!NoBudget
    BY NewAccounts DEF Subject!Absent
  <2>8. PICK entry \in SessionRow :
          /\ entry = [Subject!Absent EXCEPT !.life = "live", !.createdAt = creating]
          /\ entry.createdAt = creating /\ entry.life = "live" /\ entry.refund = Subject!NoBudget
          /\ entry.runtime = Subject!Absent.runtime
          /\ entry.reconciled = Subject!Absent.reconciled
    <3>1. PICK blank \in SessionRow : blank = Subject!Absent
      BY <2>7
    <3>2. creating \in Nat
      BY <1>1, <2>2
    <3>3. PICK at \in Nat : at = creating
      BY <3>2
    <3>4. /\ [blank EXCEPT !.life = "live", !.createdAt = at] \in SessionRow
          /\ [blank EXCEPT !.life = "live", !.createdAt = at].createdAt = at
          /\ [blank EXCEPT !.life = "live", !.createdAt = at].life = "live"
          /\ [blank EXCEPT !.life = "live", !.createdAt = at].refund = blank.refund
          /\ [blank EXCEPT !.life = "live", !.createdAt = at].runtime = blank.runtime
          /\ [blank EXCEPT !.life = "live", !.createdAt = at].reconciled = blank.reconciled
      BY DEF SessionRow
    <3> QED BY <2>7, <3>1, <3>3, <3>4
  <2>9. SessionAccounts(entry)
    <3>1. ~entry.reconciled
      BY <2>8 DEF Subject!Absent
    <3> QED BY <2>7, <2>8, <3>1 DEF SessionAccounts
  <2>10. ASSUME NEW day \in Subject!Day, NEW r \in Resource
         PROVE  bucket'[day][r] + Kept(entry, day, r) = bucket[day][r] + Kept(session[s], day, r)
    <3>1. Kept(session[s], day, r) = 0
      BY <2>6 DEF Kept
    <3>2. bucket[day][r] \in Nat /\ InitialBudget[r] \in Nat
      BY <1>1 DEF Subject!Budget
    <3>3. CASE day = d
      <4>1. bucket'[day][r] = bucket[day][r] - InitialBudget[r]
        BY <1>1, <2>1, <2>3, <3>3 DEF Subject!Reserve
      <4>2. Kept(entry, day, r) = InitialBudget[r] - 0
        BY <2>3, <2>8, <3>3 DEF Kept, Subject!NoBudget
      <4> QED BY <3>1, <3>2, <4>1, <4>2
    <3>4. CASE day # d
      <4>1. bucket'[day] = bucket[day]
        BY <1>1, <2>1, <2>3, <3>4
      <4>2. Kept(entry, day, r) = 0
        BY <2>3, <2>8, <3>4 DEF Kept
      <4> QED BY <3>1, <4>1, <4>2
    <3> QED BY <3>3, <3>4
  <2>11. session' = [session EXCEPT ![s] = entry] /\ entry.life # "absent"
    BY <2>6, <2>8
  <2> QED BY <2>1, <2>5, <2>9, <2>10, <2>11, RowAccounts
<1>4. ASSUME NEW s \in Session, Subject!Engage(s) PROVE SubjectAccounts'
  <2>1. SessionAccounts(session[s]) /\ Accounted(session[s].runtime)
    BY <1>1 DEF SessionAccounts
  <2>2. PICK next \in Subject!Snapshot :
          /\ Subject!Commit(s, next) /\ Accounted(next) /\ Recedes(session[s].runtime, next)
    BY <1>4, <2>1, EngagementAccounts
  <2>3. /\ session' = [session EXCEPT ![s] = [session[s] EXCEPT !.runtime = next]]
        /\ UNCHANGED <<bucket, erasing>> /\ session[s].life = "live"
    BY <1>1, <2>2 DEF Subject!Commit, Subject!Readable, Subject!Live
  <2>4. PICK entry \in SessionRow :
          /\ entry = [session[s] EXCEPT !.runtime = next]
          /\ entry.life = session[s].life /\ entry.createdAt = session[s].createdAt
          /\ entry.refund = session[s].refund /\ entry.reconciled = session[s].reconciled
          /\ entry.runtime = next
    <3>1. session[s] \in SessionRow
      BY <1>1
    <3>2. [session[s] EXCEPT !.runtime = next] \in SessionRow
      BY <3>1 DEF SessionRow
    <3> QED BY <3>1, <3>2 DEF SessionRow
  <2>5. \A r \in Resource : entry.refund[r] <= next.remaining[r]
    <3> SUFFICES ASSUME NEW r \in Resource PROVE entry.refund[r] <= next.remaining[r]
      OBVIOUS
    <3>1. /\ next.remaining[r] \in Nat /\ session[s].runtime.remaining[r] \in Nat
          /\ session[s].refund[r] \in Nat
      BY <1>1 DEF SessionRow, Subject!Snapshot, Subject!Budget
    <3>2. session[s].refund[r] <= session[s].runtime.remaining[r]
      BY <2>1 DEF SessionAccounts
    <3>3. CASE session[s].runtime.status # "open"
      <4>1. session[s].runtime.remaining[r] <= next.remaining[r]
        BY <2>2, <3>3 DEF Recedes
      <4> QED BY <2>4, <3>1, <3>2, <4>1
    <3>4. CASE session[s].runtime.status = "open"
      <4>1. session[s].refund[r] = 0
        BY <2>1, <2>3, <3>4 DEF SessionAccounts, Subject!NoBudget
      <4> QED BY <2>4, <3>1, <4>1
    <3> QED BY <3>3, <3>4
  <2>6. SessionAccounts(entry)
    BY <2>1, <2>2, <2>3, <2>4, <2>5 DEF SessionAccounts, Recedes
  <2>7. \A day \in Subject!Day, r \in Resource : Kept(entry, day, r) = Kept(session[s], day, r)
    BY <2>4 DEF Kept
  <2>8. session' = [session EXCEPT ![s] = entry] /\ entry.life # "absent" /\ erasing' = erasing
    BY <2>3, <2>4
  <2>9. /\ bucket' \in [Subject!Day -> Subject!Budget]
        /\ \A day \in Subject!Day, r \in Resource :
             bucket'[day][r] + Kept(entry, day, r) = bucket[day][r] + Kept(session[s], day, r)
    BY <1>1, <2>3, <2>7
  <2> QED BY <2>6, <2>8, <2>9, RowAccounts
<1>5. ASSUME NEW s \in Session, Subject!Close(s) PROVE SubjectAccounts'
  <2>1. PICK next \in Subject!Snapshot : next = Subject!CloseSession(session[s].runtime)
    <3>1. session[s].runtime \in Subject!Snapshot
      BY <1>1 DEF SessionRow
    <3>2. "closed" \in Subject!SessionStatus
      BY DEF Subject!SessionStatus
    <3> QED BY <3>1, <3>2, Subject!StatusType DEF Subject!CloseSession, SubjectConstants
  <2>2. /\ session' = [session EXCEPT ![s] = Subject!Reconciled(s, next)]
        /\ bucket' = [bucket EXCEPT ![session[s].createdAt \div DayLength] =
                        Subject!Plus(@, Subject!ToReturn(s, next.remaining))]
        /\ UNCHANGED erasing /\ session[s].life = "live"
    BY <1>5, <2>1 DEF Subject!Close, Subject!BudgetDay, Subject!Readable, Subject!Live
  <2>3. /\ next.status = "closed" /\ next.remaining = session[s].runtime.remaining
        /\ next.turns = session[s].runtime.turns
    BY <2>1 DEF Subject!CloseSession, Subject!SetStatus, Subject!Advance
  <2>4. SessionAccounts(session[s]) /\ Accounted(session[s].runtime)
    BY <1>1 DEF SessionAccounts
  <2>5. Accounted(next)
    BY <2>3, <2>4 DEF Accounted, Subject!Conserved
  <2>6. PICK entry \in SessionRow :
          /\ entry = Subject!Reconciled(s, next)
          /\ entry.createdAt = session[s].createdAt /\ entry.life = session[s].life
    BY ReconciledRow
  <2>7. entry.reconciled = TRUE /\ entry.runtime = next
    BY <2>3, <2>4, <2>6, ReconciledAccounts
  <2> QED BY <2>2, <2>3, <2>5, <2>6, <2>7, ReturnAccounts
<1>6. ASSUME NEW s \in Session, Subject!Purge(s) PROVE SubjectAccounts'
  <2>1. PICK next \in Subject!Snapshot : next = session[s].runtime
    BY <1>1 DEF SessionRow
  <2>2. /\ session' = [session EXCEPT ![s] = [Subject!Reconciled(s, next) EXCEPT !.life = "deleted"]]
        /\ bucket' = [bucket EXCEPT ![session[s].createdAt \div DayLength] =
                        Subject!Plus(@, Subject!ToReturn(s, next.remaining))]
        /\ UNCHANGED erasing /\ session[s].life = "live"
    BY <1>6, <2>1 DEF Subject!Purge, Subject!BudgetDay, Subject!Purgeable, Subject!Live
  <2>3. SessionAccounts(session[s]) /\ Accounted(next)
    BY <1>1, <2>1 DEF SessionAccounts
  <2>4. PICK row1 \in SessionRow :
          /\ row1 = Subject!Reconciled(s, next) /\ row1.createdAt = session[s].createdAt
    BY ReconciledRow
  <2>5. row1.reconciled = TRUE /\ row1.runtime = next
    BY <2>1, <2>3, <2>4, ReconciledAccounts
  <2>6. PICK entry \in SessionRow :
          /\ entry = [row1 EXCEPT !.life = "deleted"] /\ entry.createdAt = row1.createdAt
          /\ entry.life = "deleted" /\ entry.reconciled = row1.reconciled
          /\ entry.runtime = row1.runtime /\ entry.refund = row1.refund
    <3>1. [row1 EXCEPT !.life = "deleted"] \in SessionRow
      BY DEF SessionRow
    <3> QED BY <3>1 DEF SessionRow
  <2>7. session' = [session EXCEPT ![s] = entry]
    BY <2>2, <2>4, <2>6
  <2>8. /\ session[s].life # "absent" /\ entry.life # "absent" /\ entry.reconciled = TRUE
        /\ entry.createdAt = session[s].createdAt /\ entry.runtime = next
        /\ entry.refund = Subject!Reconciled(s, next).refund
        /\ entry.life = "deleted" /\ next.remaining = session[s].runtime.remaining
    BY <2>1, <2>2, <2>4, <2>5, <2>6
  <2>9. /\ UNCHANGED erasing /\ Accounted(next)
        /\ bucket' = [bucket EXCEPT ![session[s].createdAt \div DayLength] =
                        Subject!Plus(@, Subject!ToReturn(s, next.remaining))]
    BY <2>2, <2>3
  <2> QED BY <2>7, <2>8, <2>9, ReturnAccounts
<1>7. ASSUME NEW e \in Eraser, Subject!BeginErase(e) PROVE SubjectAccounts'
  <2>1. /\ erasing' = [erasing EXCEPT ![e] = {s \in Session : Subject!Live(s)}]
        /\ UNCHANGED <<bucket, session>> /\ DOMAIN erasing = Eraser
    BY <1>7 DEF Subject!BeginErase, SubjectInv, SubjectTypes
  <2>2. \A x \in Eraser : erasing'[x] = Nil \/ \A s \in erasing'[x] : session[s].life # "absent"
    BY <2>1 DEF Subject!Live, SubjectAccounts
  <2> QED BY <1>2, <2>1, <2>2
<1>8. ASSUME NEW e \in Eraser, Subject!FinishErase(e) PROVE SubjectAccounts'
  <2>1. /\ erasing' = [erasing EXCEPT ![e] = Nil] /\ erasing[e] # Nil
        /\ session' = [s \in Session |->
             IF s \in erasing[e] THEN [session[s] EXCEPT !.life = "deleted"] ELSE session[s]]
        /\ UNCHANGED bucket /\ DOMAIN erasing = Eraser
    BY <1>8 DEF Subject!FinishErase, SubjectInv, SubjectTypes
  <2>2. ASSUME NEW s \in Session
        PROVE  /\ session'[s].createdAt = session[s].createdAt
               /\ session'[s].refund = session[s].refund
               /\ session'[s].runtime = session[s].runtime
               /\ session'[s].reconciled = session[s].reconciled
               /\ session'[s].life = "absent" <=> session[s].life = "absent"
               /\ session'[s].life \in {"deleted", session[s].life}
    <3>1. session[s] \in SessionRow
      BY <1>1
    <3>2. s \in erasing[e] => session[s].life # "absent"
      BY <2>1 DEF SubjectAccounts
    <3> QED BY <2>1, <3>1, <3>2 DEF SessionRow
  <2>3. \A s \in Session : SessionAccounts(session'[s])
    BY <1>1, <2>2 DEF SessionAccounts
  <2>4. \A x \in Eraser : erasing'[x] = Nil \/ \A s \in erasing'[x] : session'[s].life # "absent"
    <3> SUFFICES ASSUME NEW x \in Eraser, erasing'[x] # Nil, NEW s \in erasing'[x]
                 PROVE  session'[s].life # "absent"
      OBVIOUS
    <3>1. erasing[x] # Nil /\ s \in erasing[x]
      BY <2>1
    <3>2. s \in Session /\ session[s].life # "absent"
      BY <3>1 DEF SubjectInv, SubjectTypes, SubjectAccounts
    <3> QED BY <2>2, <3>2
  <2>5. ASSUME NEW day \in Subject!Day, NEW r \in Resource
        PROVE  KeptBySessions(day, r)' = KeptBySessions(day, r)
    <3>1. \A s \in Session : Kept(session'[s], day, r) = Kept(session[s], day, r)
      BY <2>2 DEF Kept
    <3> QED BY <3>1 DEF KeptBySessions, Kept
  <2> QED BY <2>1, <2>3, <2>4, <2>5 DEF SubjectAccounts, Subject!Day
<1>9. ASSUME Subject!BeginCreate \/ Subject!Tick \/ UNCHANGED subjectVars PROVE SubjectAccounts'
  <2>1. UNCHANGED <<bucket, session, erasing>>
    BY <1>9 DEF Subject!BeginCreate, Subject!Tick, subjectVars
  <2> QED BY <1>2, <2>1 DEF SubjectAccounts
<1> QED
  BY <1>3, <1>4, <1>5, <1>6, <1>7, <1>8, <1>9 DEF Subject!Next

\* A day never gives its sessions more than its limit, and what a session returned
\* leaves what its turns are charged, whatever settles after the session was closed.
THEOREM SubjectAccountsKept ==
  ASSUME SubjectConstants
  PROVE  Subject!Spec => [](Subject!DailyLimitKept /\ Subject!RefundLeavesCharges)
<1>1. Subject!Init => SubjectAccounts
  <2> SUFFICES ASSUME Subject!Init PROVE SubjectAccounts
    OBVIOUS
  <2>1. /\ bucket = [d \in Subject!Day |-> DailyLimit]
        /\ session = [s \in Session |-> Subject!Absent] /\ erasing = [e \in Eraser |-> Nil]
    BY DEF Subject!Init
  <2>2. ASSUME NEW day \in Subject!Day, NEW r \in Resource
        PROVE  bucket[day][r] + KeptBySessions(day, r) = DailyLimit[r]
    <3> DEFINE f == [s \in Session |-> Kept(session[s], day, r)]
    <3>1. \A s \in Session : f[s] = 0
      BY <2>1 DEF Kept, Subject!Absent
    <3>2. KeptBySessions(day, r) = Subject!SumFunctionOnSet(f, Session)
      BY DEF KeptBySessions
    <3> HIDE DEF f
    <3>3. Subject!IsFiniteSet(Session) /\ Subject!AggregateAssumption
      BY DEF SubjectConstants, IsFiniteSet, Subject!IsFiniteSet
    <3>4. Subject!SumFunctionOnSet(f, Session) = 0
      BY <3>1, <3>3, Subject!SumOfNone
    <3>5. DailyLimit[r] \in Nat
      BY DEF SubjectConstants, Subject!Budget
    <3> QED BY <2>1, <3>2, <3>4, <3>5
  <2> QED BY <2>1, <2>2, NewAccounts DEF SubjectAccounts
<1>2. SubjectInv /\ SubjectAccounts /\ [Subject!Next]_subjectVars => SubjectAccounts'
  BY SubjectAccountsStep
<1>3. SubjectInv /\ SubjectAccounts => Subject!DailyLimitKept /\ Subject!RefundLeavesCharges
  <2> SUFFICES ASSUME SubjectInv, SubjectAccounts
               PROVE  Subject!DailyLimitKept /\ Subject!RefundLeavesCharges
    OBVIOUS
  <2>1. ASSUME NEW s \in Session, NEW r \in Resource
        PROVE  /\ session[s].refund[r] + Subject!Spent(s, r) <= InitialBudget[r]
               /\ session[s].refund[r] \in Nat /\ Subject!Spent(s, r) \in Nat
               /\ InitialBudget[r] \in Nat
    <3>1. /\ session[s].runtime \in Subject!Snapshot /\ Accounted(session[s].runtime)
          /\ session[s].refund[r] \in Nat
          /\ session[s].refund[r] <= session[s].runtime.remaining[r]
      BY DEF SubjectInv, SubjectTypes, SessionRow, SubjectAccounts, SessionAccounts, Subject!Budget
    <3>2. PICK runtime \in Subject!Snapshot : runtime = session[s].runtime
      BY <3>1
    <3>3. /\ runtime.remaining[r] \in Nat /\ InitialBudget[r] \in Nat
          /\ Subject!Spent(s, r) \in Nat
          /\ runtime.remaining[r] + Subject!Spent(s, r) <= InitialBudget[r]
      BY <3>1, <3>2, RemainingFits DEF Subject!Spent
    <3> QED BY <3>1, <3>2, <3>3
  <2>2. ASSUME NEW d \in Subject!Day, NEW r \in Resource
        PROVE  Subject!SumFunctionOnSet([s \in Session |-> Subject!Spent(s, r)],
                 {s \in Session : session[s].life # "absent" /\ Subject!BudgetDay(s) = d})
                 + bucket[d][r] <= DailyLimit[r]
    <3> DEFINE f == [s \in Session |-> Subject!Spent(s, r)]
               h == [s \in Session |-> Kept(session[s], d, r)]
               Of == {s \in Session : session[s].life # "absent" /\ Subject!BudgetDay(s) = d}
    <3>1. \A s \in Session : session[s] \in SessionRow /\ SessionAccounts(session[s])
      BY DEF SubjectInv, SubjectTypes, SubjectAccounts
    <3>2. \A s \in Session : f[s] \in Nat /\ h[s] \in Nat
      BY <2>1, <3>1, KeptType
    <3>3. ASSUME NEW s \in Of PROVE f[s] <= h[s]
      <4>1. h[s] = InitialBudget[r] - session[s].refund[r] /\ f[s] = Subject!Spent(s, r)
        BY DEF Kept, Subject!BudgetDay
      <4> QED BY <2>1, <4>1
    <3>4. Of \in SUBSET Session /\ KeptBySessions(d, r) = Subject!SumFunctionOnSet(h, Session)
      BY DEF KeptBySessions
    <3> HIDE DEF f, h, Of
    <3>5. Subject!IsFiniteSet(Session) /\ Subject!AggregateAssumption
      BY DEF SubjectConstants, IsFiniteSet, Subject!IsFiniteSet
    <3>6. Subject!SumFunctionOnSet(f, Of) <= Subject!SumFunctionOnSet(h, Session)
      BY <3>2, <3>3, <3>4, <3>5, Subject!SumFits
    <3>7. /\ Subject!SumFunctionOnSet(h, Session) \in Nat
          /\ Subject!SumFunctionOnSet(f, Of) \in Nat
      <4>1. Subject!IsFiniteSet(Of) /\ \A s \in Of : s \in Session
        <5>1. IsFiniteSet(Session) /\ Of \subseteq Session
          BY <3>4 DEF SubjectConstants
        <5>2. IsFiniteSet(Of)
          BY <5>1, FS_Subset
        <5> QED BY <5>1, <5>2 DEF IsFiniteSet, Subject!IsFiniteSet
      <4> QED BY <3>2, <3>5, <4>1, Subject!SumType
    <3>8. bucket[d][r] + Subject!SumFunctionOnSet(h, Session) = DailyLimit[r]
      BY <3>4 DEF SubjectAccounts
    <3>9. bucket[d][r] \in Nat
      BY DEF SubjectInv, SubjectTypes, Subject!Budget
    <3>10. Subject!SumFunctionOnSet(f, Of) + bucket[d][r] <= DailyLimit[r]
      BY <3>6, <3>7, <3>8, <3>9
    <3> QED BY <3>10 DEF f, Of
  <2> QED BY <2>1, <2>2 DEF Subject!DailyLimitKept, Subject!RefundLeavesCharges
<1> QED BY <1>1, <1>2, <1>3, SubjectInvariance, PTL DEF Subject!Spec, Subject!vars, subjectVars

-----------------------------------------------------------------------------
(* The stores together.                                                    *)

\* A behaviour of the whole is one of each store, which a step of another leaves
\* where it was.
LEMMA StoresBehave ==
  Spec => /\ Subject!Spec /\ Access!Spec /\ Customer!Spec /\ Queue!Spec /\ Staff!Spec
          /\ Credentials!Spec
<1>1. Init => /\ Subject!Init /\ Access!Init /\ Customer!Init /\ Queue!Init /\ Staff!Init
              /\ Credentials!Init
  BY DEF Init
<1>2. [Next]_vars => [Subject!Next]_(Subject!vars)
  BY DEF Next, vars, subjectVars, Subject!vars
<1>3. [Next]_vars => [Access!Next]_(Access!vars)
  BY DEF Next, vars, accessVars, Access!vars
<1>4. [Next]_vars => [Customer!Next]_(Customer!vars)
  BY DEF Next, vars, customerVars, Customer!vars, Customer!fences, Customer!claims
<1>5. [Next]_vars => [Queue!Next]_(Queue!vars)
  BY DEF Next, vars, queueVars, Queue!vars, Queue!tasks
<1>6. [Next]_vars => [Staff!Next]_(Staff!vars)
  BY DEF Next, vars, staffVars, Staff!vars
<1>7. [Next]_vars => [Credentials!Next]_(Credentials!vars)
  BY DEF Next, vars, credentialVars, Credentials!vars, Credentials!operatorVars,
         Credentials!epochVars
<1> QED
  BY <1>1, <1>2, <1>3, <1>4, <1>5, <1>6, <1>7, PTL
  DEF Spec, Subject!Spec, Access!Spec, Customer!Spec, Queue!Spec, Staff!Spec, Credentials!Spec

\* The invariants of the stores hold of the whole.
LEMMA StoresInvariant ==
  Spec => [](/\ SubjectInv /\ AccessInv /\ CustomerInv /\ QueueInv /\ StaffInv
             /\ OperatorInv /\ EpochInv)
<1>1. Subject!Spec => []SubjectInv
  BY SessionsAssumption, SubjectInvariance
<1>2. Access!Spec => []AccessInv
  BY SessionsAssumption, AccessInvariance
<1>3. Customer!Spec => []CustomerInv
  BY SessionsAssumption, CustomerInvariance
<1>4. Queue!Spec => [](QueueInv /\ CallsCounted)
  BY SessionsAssumption, QueueInvariance
<1>5. Staff!Spec => []StaffInv
  BY SessionsAssumption, StaffInvariance
<1>6. Credentials!Spec => []OperatorInv
  BY SessionsAssumption, OperatorInvariance
<1>7. Credentials!Spec => []EpochInv
  BY SessionsAssumption, EpochInvariance
<1> QED BY <1>1, <1>2, <1>3, <1>4, <1>5, <1>6, <1>7, StoresBehave, PTL

\* The rows of every store keep their types.
THEOREM StoresTyped == Spec => []TypeOK
<1>1. SubjectInv => Subject!TypeOK
  <2>1. SUFFICES ASSUME SubjectInv PROVE Subject!TypeOK
    OBVIOUS
  <2>2. creating \in Nat \cup {Nil}
    BY <2>1, SessionsAssumption DEF SubjectConstants, SubjectInv, CreationFits
  <2> QED BY <2>1, <2>2 DEF SubjectInv, SubjectTypes, SessionRow, Subject!TypeOK
<1>2. OperatorInv /\ EpochInv => Credentials!TypeOK
  BY DEF OperatorInv, OperatorTypes, WitnessOfVersion, EpochInv, EpochTypes, JobRow,
         Credentials!TypeOK
<1>3. AccessInv /\ CustomerInv /\ QueueInv /\ StaffInv =>
        Access!TypeOK /\ Customer!TypeOK /\ Queue!TypeOK /\ Staff!TypeOK
  BY DEF AccessInv, CustomerInv, QueueInv, StaffInv
<1>4. SubjectInv /\ AccessInv /\ CustomerInv /\ QueueInv /\ StaffInv /\ OperatorInv /\ EpochInv
        => TypeOK
  BY <1>1, <1>2, <1>3 DEF TypeOK
<1> QED BY <1>4, StoresInvariant, PTL

\* A day's sessions are never given more than its limit, and what a session gave back
\* leaves what its turns were charged.
THEOREM SubjectBudgetIsKept == Spec => []SubjectBudgetKept
<1>1. Subject!Spec => [](Subject!DailyLimitKept /\ Subject!RefundLeavesCharges)
  BY SessionsAssumption, SubjectAccountsKept
<1>2. Subject!DailyLimitKept /\ Subject!RefundLeavesCharges => SubjectBudgetKept
  BY DEF SubjectBudgetKept
<1> QED BY <1>1, <1>2, StoresBehave, PTL

\* A session's revocation is at the provider once at a time, is recorded as
\* confirmed or completed only if the provider revoked, and is given up only when
\* its attempts or its days are over.
THEOREM RevocationsAreTracked == Spec => []RevocationsTracked
<1>1. Access!Spec => [](Access!OneDispatchAtATime /\ Access!ConfirmedWasRevoked)
  BY SessionsAssumption, OneRevocationAtATime
<1>2. Queue!Spec => [](Queue!NoRevocationDropped /\ Queue!CallsBounded)
  BY SessionsAssumption, RevocationsAccounted
<1>3. (Access!OneDispatchAtATime /\ Access!ConfirmedWasRevoked)
        /\ (Queue!NoRevocationDropped /\ Queue!CallsBounded) => RevocationsTracked
  BY DEF RevocationsTracked
<1> QED BY <1>1, <1>2, <1>3, StoresBehave, PTL

\* No session lives behind its fence, what is stored can be used, and a secret holds
\* what its witness or its epoch says.
THEOREM CredentialsAreUsable == Spec => []StoredCredentialsUsable
<1>1. Customer!Spec => [](Customer!FencedNeverLive /\ Customer!StoredTokenCurrent)
  BY SessionsAssumption, CustomerSessionsUsable
<1>2. Staff!Spec => [](Staff!FencedNeverLive /\ Staff!StoredTokenCurrent)
  BY SessionsAssumption, StaffSessionsUsable
<1>3. Credentials!Spec => []Credentials!WitnessIsTrue
  BY SessionsAssumption, WitnessesTrue
<1>4. (Customer!FencedNeverLive /\ Customer!StoredTokenCurrent)
        /\ (Staff!FencedNeverLive /\ Staff!StoredTokenCurrent)
        /\ Credentials!WitnessIsTrue /\ EpochInv => StoredCredentialsUsable
  BY DEF StoredCredentialsUsable, EpochInv, EpochRest
<1> QED BY <1>1, <1>2, <1>3, <1>4, StoresBehave, StoresInvariant, PTL

\* What is over stays over: a fenced subject, a revoked session, a decided revocation,
\* a decided epoch.
THEOREM EndsAreFinal == Spec => OverStaysOver
<1>1. Subject!Spec => Subject!FenceStopsCreation
  BY SessionsAssumption, FencedSubjectOpensNothing
<1>2. Access!Spec => Access!RevokedStaysRevoked
  BY SessionsAssumption, RevokedSessionStays
<1>3. Queue!Spec => Queue!SettledTaskStays
  BY SessionsAssumption, DecidedTaskStays
<1>4. Credentials!Spec => [][Credentials!EpochDecidedOnce]_(Credentials!vars)
  BY SessionsAssumption, EpochsDecidedOnce
<1>5. [Credentials!EpochDecidedOnce]_(Credentials!vars) =>
        [Credentials!EpochDecidedOnce]_credentialVars
  BY DEF credentialVars, Credentials!vars, Credentials!operatorVars, Credentials!epochVars
<1>6. Credentials!Spec => [][Credentials!EpochDecidedOnce]_credentialVars
  BY <1>4, <1>5, PTL
<1> QED BY <1>1, <1>2, <1>3, <1>6, StoresBehave, PTL DEF OverStaysOver

\* The three session stores implement SessionLifecycle: a session that ended does not
\* live again, and none lives behind its fence.
THEOREM StoresRefineLifecycle == Spec => SessionLifecycles
<1>1. Customer!Spec => CustomerLifecycle!Spec
  BY SessionsAssumption, CustomerRefinesLifecycle
<1>2. Staff!Spec => StaffLifecycle!Spec
  BY SessionsAssumption, StaffRefinesLifecycle
<1>3. Access!Spec => AccessLifecycle!Spec
  BY SessionsAssumption, AccessRefinesLifecycle
<1> QED BY <1>1, <1>2, <1>3, StoresBehave, PTL DEF SessionLifecycles

=============================================================================
