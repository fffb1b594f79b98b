--------------------------- MODULE AccessSession ---------------------------
(***************************************************************************)
(* The API's projection of one customer session: what the identity        *)
(* provider reports of it, and its revocation, which marks the row, calls *)
(* the provider and records the answer in three separate steps.           *)
(*                                                                         *)
(* Client details are left out; a retry is due or not by chance, as its   *)
(* minute runs on the clock alone.                                        *)
(***************************************************************************)
EXTENDS Naturals

CONSTANTS
  Call,         \* revocation requests being handled
  MaxRevision,  \* bound on the revisions of observations
  MaxVersion,   \* bound on the revocation versions
  Nil

VARIABLES
  row,   \* the projection row, or Nil before the first observation
  call,  \* a request: its step and what it read or claimed
  confirmed  \* EXTERNAL: the provider revoked the session

vars == <<row, call, confirmed>>

State == {"none", "pending", "confirmed", "retry_required", "manual_review_required"}
Answer == {"confirmed", "retry_required", "manual_review_required"}
Row == [state : State, revoked : BOOLEAN, expired : BOOLEAN, version : 0..MaxVersion,
        revision : 1..MaxRevision, reference : BOOLEAN]
CallRow == [step : {"idle", "claim", "dispatch", "complete"}, state : State,
            version : 0..MaxVersion, reference : BOOLEAN]
Idle == [step |-> "idle", state |-> "none", version |-> 0, reference |-> FALSE]

TypeOK ==
  /\ row \in Row \cup {Nil}
  /\ call \in [Call -> CallRow]
  /\ confirmed \in BOOLEAN

Init == row = Nil /\ call = [c \in Call |-> Idle] /\ confirmed = FALSE

\* reconcile: one serializable transaction.  An observation older than the last,
\* or of a session revoked or expired, changes nothing.
Reconcile(revision, revoked, reference) ==
  /\ \/ /\ row = Nil
        /\ row' = [state |-> "none", revoked |-> revoked, expired |-> FALSE, version |-> 0,
                   revision |-> revision, reference |-> reference]
     \/ /\ row # Nil /\ ~row.revoked /\ ~row.expired /\ revision > row.revision
        /\ row' = [row EXCEPT !.revision = revision, !.revoked = revoked,
                              !.reference = reference]
  /\ UNCHANGED <<call, confirmed>>

Expire ==
  /\ row # Nil /\ ~row.expired
  /\ row' = [row EXCEPT !.expired = TRUE]
  /\ UNCHANGED <<call, confirmed>>

(***************************************************************************)
(* revoke: the row is read; a state that is settled or in hand is only     *)
(* reported.                                                               *)
(***************************************************************************)
ReadRow(c) ==
  /\ call[c].step = "idle" /\ row # Nil
  /\ row.state \in {"none", "retry_required"}
  /\ call' = [call EXCEPT ![c] = [step |-> "claim", state |-> row.state,
                                  version |-> row.version, reference |-> row.reference]]
  /\ UNCHANGED <<row, confirmed>>

\* Fault: the update is not conditional on what was read.
ClaimableAnyway(c) == TRUE
\* The conditional update; no other writer touches a row it made pending.
AsRead(c) == row.state = call[c].state /\ row.version = call[c].version
Claim(c) ==
  /\ call[c].step = "claim" /\ row.version < MaxVersion
  /\ IF AsRead(c)
     THEN /\ row' = [row EXCEPT !.version = @ + 1, !.revoked = TRUE,
                       !.state = IF call[c].reference THEN "pending"
                                 ELSE "manual_review_required"]
          /\ call' = [call EXCEPT ![c] =
               IF call[c].reference
               THEN [@ EXCEPT !.step = "dispatch", !.version = row.version + 1]
               ELSE Idle]
     ELSE UNCHANGED row /\ call' = [call EXCEPT ![c] = Idle]
  /\ UNCHANGED confirmed

\* The provider revokes the session or not; its answer may not reach the API.
Dispatch(c) ==
  /\ call[c].step = "dispatch"
  /\ \E answer \in Answer :
       /\ call' = [call EXCEPT ![c].step = "complete", ![c].state = answer]
       /\ IF answer = "confirmed" THEN confirmed' = TRUE
          ELSE confirmed' \in {confirmed, TRUE}
  /\ UNCHANGED row

Complete(c) ==
  /\ call[c].step = "complete"
  /\ row' = IF row.state = "pending" /\ row.version = call[c].version
            THEN [row EXCEPT !.state = call[c].state] ELSE row
  /\ call' = [call EXCEPT ![c] = Idle]
  /\ UNCHANGED confirmed

\* The process dies between two steps; what it claimed stays pending.
Crash(c) ==
  /\ call[c].step # "idle"
  /\ call' = [call EXCEPT ![c] = Idle]
  /\ UNCHANGED <<row, confirmed>>

\* revokeCurrent and revokeAll: local revocations of a row not yet revoked.
RevokeLocally(state) ==
  /\ row # Nil /\ ~row.revoked /\ row.version < MaxVersion
  /\ state = "pending" => ~row.expired
  /\ row' = [row EXCEPT !.revoked = TRUE, !.state = state, !.version = @ + 1]
  /\ UNCHANGED <<call, confirmed>>

RevokeCurrent == RevokeLocally("manual_review_required")
RevokeAll == RevokeLocally("pending")

Next ==
  \/ \E revision \in 1..MaxRevision, revoked, reference \in BOOLEAN :
       Reconcile(revision, revoked, reference)
  \/ Expire \/ RevokeCurrent \/ RevokeAll
  \/ \E c \in Call : ReadRow(c) \/ Claim(c) \/ Dispatch(c) \/ Complete(c) \/ Crash(c)

Spec == Init /\ [][Next]_vars

(***************************************************************************)
(* Properties.                                                             *)
(***************************************************************************)

\* Once revoked a session stays revoked and keeps the revision it was revoked at:
\* a later or a racing observation of the provider does not bring it back.
RevokedStaysRevoked ==
  [][row # Nil /\ row.revoked =>
       row'.revoked /\ row'.revision = row.revision]_vars

\* One request at a time is at the provider for a row, the one whose version the
\* row carries, so a retry never races an answer still on its way.
OneDispatchAtATime ==
  LET atProvider == {c \in Call : call[c].step \in {"dispatch", "complete"}}
  IN  /\ \A c, d \in atProvider : c = d
      /\ \A c \in atProvider : row.state = "pending" /\ row.version = call[c].version

\* A revocation is recorded as confirmed only when the provider did revoke.
ConfirmedWasRevoked == row # Nil /\ row.state = "confirmed" => confirmed

=============================================================================
