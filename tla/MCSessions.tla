------------------------------ MODULE MCSessions ------------------------------
(***************************************************************************)
(* Small instances of everything that opens and ends a session, or keeps   *)
(* what one comes in with: the conversation sessions of one subject with   *)
(* their daily budget, purge and erasure; the API's projection of an       *)
(* access session and its revocation; the session stores of the two        *)
(* portals and the queue of revocations they owe the identity provider;    *)
(* the credentials of the private database.  They share no state: a        *)
(* behaviour takes one of them up and leaves the others where they began.  *)
(***************************************************************************)
EXTENDS Naturals, FiniteSets, TLC

CONSTANTS
  Component,   \* the stores this run takes up
  Process,     \* concurrent requests and drainers
  Session,     \* sessions of a store, and the revocations they leave
  Nil,
  \* The subject's sessions.
  Turn, Message, Fingerprint, Resource, Eraser, InitialBudget, DailyLimit,
  Reservation, Usage, LeaseDuration, SessionTtl, Retention, DayLength,
  \* The customer portal's sessions and both portals' tokens.
  Provider, ProviderOf, MaxToken, MaxClock,
  \* The projection and the queue of revocations.
  MaxRevision, MaxVersion, MaxAttempts, MaxLapses

VARIABLES
  component,
  subjectClock, bucket, session, creating, fence, erasing,
  row, call, confirmed,
  vault, issued, subjectFence, providerFence, lease, pending, completed,
  rotation, request, clock,
  status, attempts, aged, revoked, calls, drainLease, drainer, lapses,
  staffVault, staffIssued, staffFence, staffIndex, staffLease, staffRotation,
  staffRequest,
  password, passwordsAsked, passwordsSettled, secret, sending, witness, run, contested,
  epoch, login, version, doubt, job

subjectVars == <<subjectClock, bucket, session, creating, fence, erasing>>
accessVars == <<row, call, confirmed>>
customerVars == <<vault, issued, subjectFence, providerFence, lease, pending,
                  completed, rotation, request, clock>>
queueVars == <<status, attempts, aged, revoked, calls, drainLease, drainer,
               lapses>>
staffVars == <<staffVault, staffIssued, staffFence, staffIndex, staffLease,
               staffRotation, staffRequest>>
credentialVars ==
  <<password, passwordsAsked, passwordsSettled, secret, sending, witness, run, contested,
    epoch, login, version, doubt, job>>

\* A session reserves two of the three units a day has, its turn reserves both
\* and uses one; all sessions are opened under one Keycloak session.
Units(n) == [r \in Resource |-> n]
MCInitialBudget == Units(2)
MCDailyLimit == Units(3)
MCReservation == {Units(2)}
MCUsage == {Units(1)}
MCProviderOf == [s \in Session |-> "sid"]

Subject == INSTANCE ConversationSubject WITH clock <- subjectClock

Access == INSTANCE AccessSession WITH Call <- Process

Customer == INSTANCE CustomerSession WITH Request <- Process

Queue == INSTANCE ProviderRevocation WITH
  lease <- drainLease, Task <- Session, Drainer <- Process

Staff == INSTANCE WorkforceSession WITH
  vault <- staffVault, issued <- staffIssued, fence <- staffFence,
  index <- staffIndex, lease <- staffLease, rotation <- staffRotation,
  request <- staffRequest, Request <- Process

\* The sets of two serve for the runs of the operator and of the job.
Credentials == INSTANCE Provisioning WITH
  pending <- passwordsAsked, settled <- passwordsSettled, Run <- Process, Claim <- Session

Init ==
  /\ component \in Component
  /\ Subject!Init /\ Access!Init /\ Customer!Init /\ Queue!Init /\ Staff!Init
  /\ Credentials!Init

Next ==
  /\ UNCHANGED component
  /\ \/ /\ component = "subject" /\ Subject!Next
        /\ UNCHANGED <<accessVars, customerVars, queueVars, staffVars, credentialVars>>
     \/ /\ component = "access" /\ Access!Next
        /\ UNCHANGED <<subjectVars, customerVars, queueVars, staffVars, credentialVars>>
     \/ /\ component = "customer" /\ Customer!Next
        /\ UNCHANGED <<subjectVars, accessVars, queueVars, staffVars, credentialVars>>
     \/ /\ component = "queue" /\ Queue!Next
        /\ UNCHANGED <<subjectVars, accessVars, customerVars, staffVars, credentialVars>>
     \/ /\ component = "staff" /\ Staff!Next
        /\ UNCHANGED <<subjectVars, accessVars, customerVars, queueVars, credentialVars>>
     \/ /\ component = "credentials" /\ Credentials!Next
        /\ UNCHANGED <<subjectVars, accessVars, customerVars, queueVars, staffVars>>

vars ==
  <<component, subjectVars, accessVars, customerVars, queueVars, staffVars, credentialVars>>

Spec == Init /\ [][Next]_vars

(***************************************************************************)
(* What the proofs about the stores ask of the constants: bounds that are  *)
(* numbers, a limit the runtime has, and a null that is nothing else.      *)
(***************************************************************************)
SubjectConstants ==
  /\ Subject!AggregateAssumption /\ IsFiniteSet(Session)
  /\ DailyLimit \in Subject!Budget /\ DayLength \in Nat \ {0} /\ MaxClock \in Nat
AccessConstants ==
  MaxVersion \in Nat /\ MaxRevision \in Nat /\ Nil \notin Access!Row
CustomerConstants ==
  /\ MaxToken \in Nat /\ MaxClock \in Nat \ {0}
  /\ ProviderOf \in [Session -> Provider] /\ Session \cap Provider = {}
  /\ Nil \notin Session \cup Process \cup Nat \cup Customer!Record
QueueConstants ==
  MaxAttempts \in Nat \ {0} /\ MaxLapses \in Nat /\ Nil \notin Process
StaffConstants == MaxToken \in Nat /\ Nil \notin Session \cup Process \cup Nat
OperatorConstants ==
  Nil \notin Process \cup Nat \cup [of : Process, version : Nat]
EpochConstants == Nil \notin Session \cup Credentials!EpochRow

ASSUME SessionsAssumption ==
  /\ SubjectConstants /\ AccessConstants /\ CustomerConstants /\ QueueConstants
  /\ StaffConstants /\ OperatorConstants /\ EpochConstants

Interchangeable == Permutations(Session) \cup Permutations(Process)

-----------------------------------------------------------------------------
(* Properties.                                                             *)

\* The rows of the store at work keep their types.
TypeOK ==
  /\ component = "subject" => Subject!TypeOK
  /\ component = "access" => Access!TypeOK
  /\ component = "customer" => Customer!TypeOK
  /\ component = "queue" => Queue!TypeOK
  /\ component = "staff" => Staff!TypeOK
  /\ component = "credentials" => Credentials!TypeOK

\* A day never gives its sessions more than its limit, and what a session gives
\* back leaves what its turns were charged.
SubjectBudgetKept ==
  component = "subject" =>
    Subject!DailyLimitKept /\ Subject!RefundLeavesCharges

\* No session is created for a subject once its erasure has set the fence, a
\* projected session that was revoked is not brought back by an observation, what
\* a drain decided about a revocation is final, and so is the epoch in which the
\* database's logins were given their passwords.
OverStaysOver ==
  /\ Subject!FenceStopsCreation
  /\ Access!RevokedStaysRevoked
  /\ Queue!SettledTaskStays
  /\ [][Credentials!EpochDecidedOnce]_credentialVars

\* The three session stores implement SessionLifecycle: a customer's, fenced by
\* the Keycloak session it was opened under; a workforce member's; and the API's
\* projection of one session, which ends when it is revoked or expires.
CustomerLifecycle == INSTANCE SessionLifecycle WITH
  stage <- [s \in Session |-> IF vault[s] # Nil THEN "live"
                              ELSE IF s \in issued THEN "ended" ELSE "new"],
  fenced <- {s \in Session : ProviderOf[s] \in providerFence}

StaffLifecycle == INSTANCE SessionLifecycle WITH
  stage <- [s \in Session |-> IF staffVault[s] # Nil THEN "live"
                              ELSE IF s \in staffIssued THEN "ended" ELSE "new"],
  fenced <- staffFence

AccessLifecycle == INSTANCE SessionLifecycle WITH
  Session <- {"sid"}, fenced <- {},
  stage <- [s \in {"sid"} |-> IF row = Nil THEN "new"
                              ELSE IF row.revoked \/ row.expired THEN "ended"
                              ELSE "live"]

SessionLifecycles ==
  CustomerLifecycle!Spec /\ StaffLifecycle!Spec /\ AccessLifecycle!Spec

\* No customer session outlives the fence of a logout everywhere, and a stored
\* session of either portal holds the refresh token Keycloak accepts unless the
\* refresh that rotated it is still to store it or to end the session.  A secret that
\* a witness or a completed epoch names holds the password its role has, and what a
\* failed epoch left behind is disabled.
StoredCredentialsUsable ==
  /\ component = "customer" =>
       Customer!FencedNeverLive /\ Customer!StoredTokenCurrent
  /\ component = "staff" => Staff!FencedNeverLive /\ Staff!StoredTokenCurrent
  /\ component = "credentials" =>
       /\ Credentials!WitnessIsTrue /\ Credentials!LoginsMatchEpoch
       /\ Credentials!FailureLeavesUnheard

\* A session's revocation is at the provider once at a time, is recorded as
\* confirmed or completed only if the provider revoked, and is given up only when
\* its attempts or its days are over.
RevocationsTracked ==
  /\ component = "access" =>
       Access!OneDispatchAtATime /\ Access!ConfirmedWasRevoked
  /\ component = "queue" => Queue!NoRevocationDropped /\ Queue!CallsBounded

=============================================================================
