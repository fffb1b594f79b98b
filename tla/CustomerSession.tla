-------------------------- MODULE CustomerSession --------------------------
(***************************************************************************)
(* The session vault of the customer portal for one subject: the browser  *)
(* session records in Redis, their logout fences, the refresh lease and   *)
(* the replay marks of Keycloak's back-channel logout tokens, with the    *)
(* route handlers that use them.  Every handler is a sequence of Redis or *)
(* Keycloak calls, one step each, so that requests interleave between     *)
(* any two of them.                                                       *)
(*                                                                         *)
(* Ciphertext, cookies, CSRF and origin checks and the client's device    *)
(* details are left out.  Fences outlive every session they fence.        *)
(***************************************************************************)
EXTENDS Naturals

CONSTANTS
  Session,      \* opaque session identifiers, each written by one callback
  Provider,     \* Keycloak sessions (the sid claim)
  ProviderOf,   \* the Keycloak session a session was opened under
  Request,      \* requests being handled
  MaxToken,     \* bound on the rotations of one session's refresh token
  MaxClock,     \* bound on the clock
  Nil

VARIABLES
  vault,          \* the stored record of a session, or Nil
  issued,         \* the sessions ever stored
  subjectFence,   \* the subject's logout fence: a time, 0 when there is none
  providerFence,  \* the Keycloak sessions that are fenced
  lease,          \* who holds a session's refresh lease, or Nil
  pending,        \* who holds a Keycloak session's logout-token claim, or Nil
  completed,      \* Keycloak sessions whose logout token is marked completed
  rotation,       \* EXTERNAL: the refresh token Keycloak accepts, per session
  request,        \* what a request does next, and what it read
  clock

vars == <<vault, issued, subjectFence, providerFence, lease, pending, completed,
          rotation, request, clock>>
fences == <<subjectFence, providerFence>>
claims == <<pending, completed>>

Record == [revision : 0..MaxToken, token : 0..MaxToken, auth : 1..MaxClock]
Step == {"idle", "store-new", "lease", "rotate", "store", "refuse", "release",
         "delete", "fence-subject", "claim", "fence", "fence-all", "complete"}
Target == Session \cup Provider \cup {Nil}

\* A request: its next step, the session or Keycloak session it is about, the
\* record it read and the time it took.
Handling == [step : Step, target : Target, record : Record \cup {Nil}, at : 0..MaxClock]
Idle == [step |-> "idle", target |-> Nil, record |-> Nil, at |-> 0]

TypeOK ==
  /\ vault \in [Session -> Record \cup {Nil}]
  /\ issued \subseteq Session
  /\ subjectFence \in 0..MaxClock /\ providerFence \subseteq Provider
  /\ lease \in [Session -> Request \cup {Nil}]
  /\ pending \in [Provider -> Request \cup {Nil}] /\ completed \subseteq Provider
  /\ rotation \in [Session -> 0..MaxToken]
  /\ request \in [Request -> Handling]
  /\ clock \in 1..MaxClock

Init ==
  /\ vault = [s \in Session |-> Nil] /\ issued = {}
  /\ subjectFence = 0 /\ providerFence = {}
  /\ lease = [s \in Session |-> Nil]
  /\ pending = [p \in Provider |-> Nil] /\ completed = {}
  /\ rotation = [s \in Session |-> 0]
  /\ request = [r \in Request |-> Idle]
  /\ clock = 1

At(r, step) == request[r].step = step
Goto(r, step) == request' = [request EXCEPT ![r].step = step]
Finish(r) == request' = [request EXCEPT ![r] = Idle]
Begin(r, step, target, record, at) ==
  /\ At(r, "idle")
  /\ request' = [request EXCEPT ![r] =
       [step |-> step, target |-> target, record |-> record, at |-> at]]

\* Fault: only the subject's fence is looked at.
WritableUnderFence(s, auth, expected) ==
  /\ auth > subjectFence
  /\ IF expected = Nil THEN vault[s] = Nil
     ELSE vault[s] # Nil /\ vault[s].revision = expected

\* The script of writeSession accepts a record: the login is younger than the
\* subject's fence, its Keycloak session is not fenced, and a refresh still
\* finds the revision it read.
Writable(s, auth, expected) ==
  /\ auth > subjectFence
  /\ ProviderOf[s] \notin providerFence
  /\ IF expected = Nil THEN vault[s] = Nil
     ELSE vault[s] # Nil /\ vault[s].revision = expected

\* deleteSession
Delete(sessions) == vault' = [s \in Session |-> IF s \in sessions THEN Nil ELSE vault[s]]

(***************************************************************************)
(* Login: the callback exchanged its code; Keycloak authenticated now.     *)
(***************************************************************************)
CodeExchanged(r, s) ==
  /\ s \notin issued /\ \A q \in Request : request[q].target # s
  /\ Begin(r, "store-new", s, Nil, clock)
  /\ UNCHANGED <<vault, issued, fences, lease, claims, rotation, clock>>

StoreNew(r) ==
  /\ At(r, "store-new")
  /\ LET s == request[r].target
         at == request[r].at
     IN  IF Writable(s, at, Nil)
         THEN /\ vault' = [vault EXCEPT ![s] = [revision |-> 0, token |-> 0, auth |-> at]]
              /\ issued' = issued \cup {s}
         ELSE UNCHANGED <<vault, issued>>
  /\ Finish(r)
  /\ UNCHANGED <<fences, lease, claims, rotation, clock>>

(***************************************************************************)
(* Refresh: read the record, take the lease, present the token that was    *)
(* read, store what Keycloak returned.                                     *)
(***************************************************************************)
ReadForRefresh(r, s) ==
  /\ vault[s] # Nil
  /\ Begin(r, "lease", s, vault[s], 0)
  /\ UNCHANGED <<vault, issued, fences, lease, claims, rotation, clock>>

AcquireLease(r) ==
  /\ At(r, "lease")
  /\ LET s == request[r].target
     IN  IF lease[s] = Nil
         THEN lease' = [lease EXCEPT ![s] = r] /\ Goto(r, "rotate")
         ELSE UNCHANGED lease /\ Finish(r)
  /\ UNCHANGED <<vault, issued, fences, claims, rotation, clock>>

\* Keycloak rotates a refresh token once; a token it rotated before is refused,
\* and its answer may be lost on the way.
RotateToken(r) ==
  /\ At(r, "rotate")
  /\ LET s == request[r].target
     IN  \/ /\ request[r].record.token = rotation[s] /\ rotation[s] < MaxToken
            /\ rotation' = [rotation EXCEPT ![s] = @ + 1]
            /\ \E answered \in BOOLEAN : Goto(r, IF answered THEN "store" ELSE "refuse")
         \/ UNCHANGED rotation /\ Goto(r, "refuse")
  /\ UNCHANGED <<vault, issued, fences, lease, claims, clock>>

StoreRotated(r) ==
  /\ At(r, "store")
  /\ LET s == request[r].target
         seen == request[r].record
     IN  vault' = IF Writable(s, seen.auth, seen.revision)
                  THEN [vault EXCEPT ![s].revision = @ + 1,
                                     ![s].token = seen.token + 1]
                  ELSE vault
  /\ Goto(r, "release")
  /\ UNCHANGED <<issued, fences, lease, claims, rotation, clock>>

\* Fault: a failed refresh leaves the session as it is.
RefuseRefreshKeeping(r) ==
  /\ At(r, "refuse") /\ Goto(r, "release")
  /\ UNCHANGED <<vault, issued, fences, lease, claims, rotation, clock>>

\* The catch of the handler: a failed refresh ends the session.
RefuseRefresh(r) ==
  /\ At(r, "refuse")
  /\ Delete({request[r].target})
  /\ Goto(r, "release")
  /\ UNCHANGED <<issued, fences, lease, claims, rotation, clock>>

ReleaseLease(r) ==
  /\ At(r, "release")
  /\ lease' = [s \in Session |-> IF s = request[r].target /\ lease[s] = r THEN Nil ELSE lease[s]]
  /\ Finish(r)
  /\ UNCHANGED <<vault, issued, fences, claims, rotation, clock>>

(***************************************************************************)
(* Logout of one session, of every session of the subject, and expiry.     *)
(***************************************************************************)
ReadForLogout(r, s) ==
  /\ vault[s] # Nil
  /\ Begin(r, "delete", s, vault[s], 0)
  /\ UNCHANGED <<vault, issued, fences, lease, claims, rotation, clock>>

\* What follows, the revocation at Keycloak, is ProviderRevocation's.
LogOut(r) ==
  /\ At(r, "delete")
  /\ Delete({request[r].target})
  /\ Finish(r)
  /\ UNCHANGED <<issued, fences, lease, claims, rotation, clock>>

\* An absolute or idle timeout seen by a read, or the record's TTL.
Expire(s) ==
  /\ vault[s] # Nil
  /\ Delete({s})
  /\ UNCHANGED <<issued, fences, lease, claims, rotation, request, clock>>

\* deleteAllSessions takes its time in the process, before the script runs.
BeginSignOutAll(r) ==
  /\ \E s \in Session : vault[s] # Nil
  /\ Begin(r, "fence-subject", Nil, Nil, clock)
  /\ UNCHANGED <<vault, issued, fences, lease, claims, rotation, clock>>

DeleteAll(r) ==
  /\ subjectFence' = request[r].at
  /\ providerFence' = providerFence \cup {ProviderOf[s] : s \in {t \in Session : vault[t] # Nil}}
  /\ Delete(Session)

SignOutAll(r) ==
  /\ At(r, "fence-subject")
  /\ DeleteAll(r)
  /\ Finish(r)
  /\ UNCHANGED <<issued, lease, claims, rotation, clock>>

(***************************************************************************)
(* Back-channel logout: one token per Keycloak session, delivered as often *)
(* as Keycloak likes; it names the Keycloak session or only the subject.   *)
(***************************************************************************)
ReceiveLogoutToken(r, p) ==
  /\ p \notin completed
  /\ Begin(r, "claim", p, Nil, 0)
  /\ UNCHANGED <<vault, issued, fences, lease, claims, rotation, clock>>

ClaimLogoutToken(r, whole) ==
  /\ At(r, "claim")
  /\ LET p == request[r].target
     IN  IF pending[p] = Nil
         THEN /\ pending' = [pending EXCEPT ![p] = r]
              /\ request' = [request EXCEPT ![r].step = IF whole THEN "fence-all" ELSE "fence",
                                            ![r].at = clock]
         ELSE UNCHANGED pending /\ Finish(r)
  /\ UNCHANGED <<vault, issued, fences, lease, completed, rotation, clock>>

\* deleteProviderSessions, or deleteAllSessions for a token without sid.
ApplyLogoutToken(r) ==
  /\ \/ /\ At(r, "fence")
        /\ providerFence' = providerFence \cup {request[r].target}
        /\ Delete({s \in Session : ProviderOf[s] = request[r].target})
        /\ UNCHANGED subjectFence
     \/ At(r, "fence-all") /\ DeleteAll(r)
  /\ Goto(r, "complete")
  /\ UNCHANGED <<issued, lease, claims, rotation, clock>>

\* The mark is set only by the request that still holds the claim.
CompleteLogoutToken(r) ==
  /\ At(r, "complete")
  /\ LET p == request[r].target
     IN  IF pending[p] = r
         THEN /\ completed' = completed \cup {p}
              /\ pending' = [pending EXCEPT ![p] = Nil]
         ELSE UNCHANGED claims
  /\ Finish(r)
  /\ UNCHANGED <<vault, issued, fences, lease, rotation, clock>>

\* The Redis call failed: the claim is given back and Keycloak delivers again.
FailLogoutToken(r) ==
  /\ request[r].step \in {"fence", "fence-all", "complete"}
  /\ pending' = [p \in Provider |->
       IF p = request[r].target /\ pending[p] = r THEN Nil ELSE pending[p]]
  /\ Finish(r)
  /\ UNCHANGED <<vault, issued, fences, lease, completed, rotation, clock>>

(***************************************************************************)
(* Leases end by themselves when their holder is slow.                     *)
(***************************************************************************)
LapseRefreshLease(s) ==
  /\ lease[s] # Nil /\ lease' = [lease EXCEPT ![s] = Nil]
  /\ UNCHANGED <<vault, issued, fences, claims, rotation, request, clock>>

LapseLogoutClaim(p) ==
  /\ pending[p] # Nil /\ pending' = [pending EXCEPT ![p] = Nil]
  /\ UNCHANGED <<vault, issued, fences, lease, completed, rotation, request, clock>>

Tick ==
  /\ clock < MaxClock /\ clock' = clock + 1
  /\ UNCHANGED <<vault, issued, fences, lease, claims, rotation, request>>

RefreshStep(r) ==
  \/ AcquireLease(r) \/ RotateToken(r) \/ StoreRotated(r)
  \/ RefuseRefresh(r) \/ ReleaseLease(r)
LogoutStep(r) ==
  \/ LogOut(r) \/ BeginSignOutAll(r) \/ SignOutAll(r)
  \/ \E whole \in BOOLEAN : ClaimLogoutToken(r, whole)
  \/ ApplyLogoutToken(r) \/ CompleteLogoutToken(r) \/ FailLogoutToken(r)

Next ==
  \/ \E r \in Request :
       \/ \E s \in Session : CodeExchanged(r, s) \/ ReadForRefresh(r, s) \/ ReadForLogout(r, s)
       \/ \E p \in Provider : ReceiveLogoutToken(r, p)
       \/ StoreNew(r) \/ RefreshStep(r) \/ LogoutStep(r)
  \/ \E s \in Session : Expire(s) \/ LapseRefreshLease(s)
  \/ \E p \in Provider : LapseLogoutClaim(p)
  \/ Tick

Spec == Init /\ [][Next]_vars

(***************************************************************************)
(* Properties.                                                             *)
(***************************************************************************)

\* No stored session was opened by a login at or before the subject's fence, or
\* under a fenced Keycloak session: a callback or a refresh that was in flight
\* while the subject signed out everywhere does not bring a session back.
FencedNeverLive ==
  \A s \in Session : vault[s] # Nil =>
    /\ vault[s].auth > subjectFence
    /\ ProviderOf[s] \notin providerFence

\* A stored session holds the refresh token Keycloak accepts; otherwise the
\* refresh that rotated it has still to store it or to end the session.
StoredTokenCurrent ==
  \A s \in Session : vault[s] # Nil /\ vault[s].token # rotation[s] =>
    \E r \in Request : request[r].target = s /\ request[r].step \in {"store", "refuse"}

=============================================================================
