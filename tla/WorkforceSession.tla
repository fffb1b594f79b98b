-------------------------- MODULE WorkforceSession --------------------------
(***************************************************************************)
(* The session vault of the workforce portal for one subject: records,    *)
(* logout fences, the subject's index and the refresh lease in Redis, and *)
(* the handlers that use them: callback, ensureFreshWorkforceSession,     *)
(* logout and logout of every indexed session.                            *)
(*                                                                         *)
(* A record is the refresh token it holds.  Whether its access token is   *)
(* still usable is left to chance, as it depends on the clock only.       *)
(***************************************************************************)
EXTENDS Naturals

CONSTANTS
  Session,   \* opaque session identifiers, each written by one callback
  Request,   \* requests being handled
  MaxToken,  \* bound on the rotations of one session's refresh token
  Nil

VARIABLES
  vault,     \* the refresh token of a stored session, or Nil
  issued,    \* the sessions ever stored
  fence,     \* the sessions with a logout fence
  index,     \* the sessions in the subject's index
  lease,     \* who holds a session's refresh lease, or Nil
  rotation,  \* EXTERNAL: the refresh token Keycloak accepts, per session
  request    \* what a request does next

vars == <<vault, issued, fence, index, lease, rotation, request>>

Token == 0..MaxToken
Step == {"idle", "create", "check", "lease", "latest", "rotate", "store", "delete",
         "delete-refresh", "release", "revoke-all", "list-again", "delete-all"}
\* A request: its step, its session, the token it read and the sessions it listed.
Handling == [step : Step, session : Session \cup {Nil}, token : Token, list : SUBSET Session]
Idle == [step |-> "idle", session |-> Nil, token |-> 0, list |-> {}]
Live == {s \in Session : vault[s] # Nil}

TypeOK ==
  /\ vault \in [Session -> Token \cup {Nil}]
  /\ issued \subseteq Session /\ fence \subseteq Session /\ index \subseteq Session
  /\ lease \in [Session -> Request \cup {Nil}]
  /\ rotation \in [Session -> Token]
  /\ request \in [Request -> Handling]

Init ==
  /\ vault = [s \in Session |-> Nil] /\ issued = {} /\ fence = {} /\ index = {}
  /\ lease = [s \in Session |-> Nil] /\ rotation = [s \in Session |-> 0]
  /\ request = [r \in Request |-> Idle]

At(r, step) == request[r].step = step
Goto(r, step) == request' = [request EXCEPT ![r].step = step]
Finish(r) == request' = [request EXCEPT ![r] = Idle]
Begin(r, step, s) ==
  At(r, "idle") /\ request' = [request EXCEPT ![r].step = step, ![r].session = s]

\* deleteSession: the fence is set for any identifier, stored or not.
Delete(s) ==
  /\ vault' = [vault EXCEPT ![s] = Nil]
  /\ fence' = fence \cup {s}
  /\ index' = IF vault[s] = Nil THEN index ELSE index \ {s}

(***************************************************************************)
(* Callback.                                                               *)
(***************************************************************************)
BeginCreate(r, s) ==
  /\ s \notin issued /\ \A q \in Request : request[q].session # s
  /\ Begin(r, "create", s)
  /\ UNCHANGED <<vault, issued, fence, index, lease, rotation>>

\* writeSession without requireExisting also removes a fence.
Create(r) ==
  /\ At(r, "create")
  /\ LET s == request[r].session
     IN  /\ vault' = [vault EXCEPT ![s] = 0]
         /\ fence' = fence \ {s}
         /\ index' = index \cup {s}
         /\ issued' = issued \cup {s}
  /\ Finish(r)
  /\ UNCHANGED <<lease, rotation>>

(***************************************************************************)
(* ensureFreshWorkforceSession.                                            *)
(***************************************************************************)
BeginEnsureFresh(r, s) ==
  /\ s \in issued
  /\ Begin(r, "check", s)
  /\ UNCHANGED <<vault, issued, fence, index, lease, rotation>>

CheckSession(r) ==
  /\ At(r, "check")
  /\ \/ vault[request[r].session] = Nil /\ Goto(r, "delete")
     \/ vault[request[r].session] # Nil /\ (Finish(r) \/ Goto(r, "lease"))
  /\ UNCHANGED <<vault, issued, fence, index, lease, rotation>>

\* Without the lease the request waits for the holder and reads what it stored.
AcquireLease(r) ==
  /\ At(r, "lease")
  /\ LET s == request[r].session
     IN  \/ lease[s] = Nil /\ lease' = [lease EXCEPT ![s] = r] /\ Goto(r, "latest")
         \/ lease[s] # Nil /\ UNCHANGED lease /\ Finish(r)
  /\ UNCHANGED <<vault, issued, fence, index, rotation>>

\* The record is read again under the lease; it may be usable by now.
ReadLatest(r) ==
  /\ At(r, "latest")
  /\ LET s == request[r].session
     IN  \/ Goto(r, "release")
         \/ /\ vault[s] # Nil
            /\ request' = [request EXCEPT ![r].step = "rotate", ![r].token = vault[s]]
  /\ UNCHANGED <<vault, issued, fence, index, lease, rotation>>

\* Keycloak accepts only the token it issued last; its answer may be lost.
RotateToken(r) ==
  /\ At(r, "rotate")
  /\ LET s == request[r].session
     IN  \/ /\ request[r].token = rotation[s] /\ rotation[s] < MaxToken
            /\ rotation' = [rotation EXCEPT ![s] = @ + 1]
            /\ Goto(r, "store") \/ Goto(r, "delete-refresh")
         \/ UNCHANGED rotation /\ Goto(r, "delete-refresh")
  /\ UNCHANGED <<vault, issued, fence, index, lease>>

\* writeSession with requireExisting; what it refuses ends in the catch.
StoreRotated(r) ==
  /\ At(r, "store")
  /\ LET s == request[r].session
     IN  \/ /\ vault[s] # Nil /\ s \notin fence
            /\ vault' = [vault EXCEPT ![s] = request[r].token + 1]
            /\ index' = index \cup {s}
            /\ Goto(r, "release")
         \/ /\ vault[s] = Nil \/ s \in fence
            /\ UNCHANGED <<vault, index>> /\ Goto(r, "delete-refresh")
  /\ UNCHANGED <<issued, fence, lease, rotation>>

DeleteSession(r) ==
  /\ At(r, "delete") \/ At(r, "delete-refresh")
  /\ Delete(request[r].session)
  /\ IF At(r, "delete") THEN Finish(r) ELSE Goto(r, "release")
  /\ UNCHANGED <<issued, lease, rotation>>

ReleaseLease(r) ==
  /\ At(r, "release")
  /\ LET s == request[r].session
     IN  lease' = [lease EXCEPT ![s] = IF @ = r THEN Nil ELSE @]
  /\ Finish(r)
  /\ UNCHANGED <<vault, issued, fence, index, rotation>>

(***************************************************************************)
(* Logout, logout of every indexed session, expiry.                        *)
(***************************************************************************)
BeginLogout(r, s) ==
  /\ s \in issued
  /\ Begin(r, "delete", s)
  /\ UNCHANGED <<vault, issued, fence, index, lease, rotation>>

\* The route lists the sessions, revokes their tokens at Keycloak, lists again
\* and deletes what the second list named, together with the whole index.
BeginLogoutAll(r) ==
  /\ Live # {} /\ Begin(r, "revoke-all", Nil)
  /\ index' = index \cap Live
  /\ UNCHANGED <<vault, issued, fence, lease, rotation>>

ListAgain(r) ==
  /\ At(r, "revoke-all")
  /\ index' = index \cap Live
  /\ LET listed == index \cap Live
     IN  IF listed = {} THEN Finish(r)
         ELSE request' = [request EXCEPT ![r].step = "delete-all", ![r].list = listed]
  /\ UNCHANGED <<vault, issued, fence, lease, rotation>>

DeleteAll(r) ==
  /\ At(r, "delete-all")
  /\ vault' = [s \in Session |-> IF s \in request[r].list THEN Nil ELSE vault[s]]
  /\ fence' = fence \cup request[r].list
  /\ index' = {}
  /\ Finish(r)
  /\ UNCHANGED <<issued, lease, rotation>>

\* A timeout seen by a read; no fence is set.
Expire(s) ==
  /\ vault[s] # Nil
  /\ vault' = [vault EXCEPT ![s] = Nil] /\ index' = index \ {s}
  /\ UNCHANGED <<issued, fence, lease, rotation, request>>

LapseLease(s) ==
  /\ lease[s] # Nil /\ lease' = [lease EXCEPT ![s] = Nil]
  /\ UNCHANGED <<vault, issued, fence, index, rotation, request>>

RequestStep(r) ==
  \/ Create(r) \/ CheckSession(r) \/ AcquireLease(r) \/ ReadLatest(r) \/ RotateToken(r)
  \/ StoreRotated(r) \/ DeleteSession(r) \/ ReleaseLease(r)
  \/ BeginLogoutAll(r) \/ ListAgain(r) \/ DeleteAll(r)

Next ==
  \/ \E r \in Request :
       \/ \E s \in Session : BeginCreate(r, s) \/ BeginEnsureFresh(r, s) \/ BeginLogout(r, s)
       \/ RequestStep(r)
  \/ \E s \in Session : Expire(s) \/ LapseLease(s)

Spec == Init /\ [][Next]_vars

(***************************************************************************)
(* Properties.                                                             *)
(***************************************************************************)

\* A session with a logout fence is not stored: a refresh in flight when its
\* session was signed out, alone or with all others, does not bring it back.
FencedNeverLive == fence \cap Live = {}

\* A stored session holds the token Keycloak accepts, or the refresh that rotated
\* it has still to store it or to end the session.
StoredTokenCurrent ==
  \A s \in Live : vault[s] # rotation[s] =>
    \E r \in Request : request[r].session = s /\ request[r].step \in {"store", "delete-refresh"}

=============================================================================
