------------------------- MODULE CommandReservations -------------------------
(***************************************************************************)
(* The two tables of the access module in which a request reserves the     *)
(* right to act before it acts.  Of the first, one idempotency key of the  *)
(* workforce authorization commands: the reservation, the command and the  *)
(* recorded outcome are three transactions of one request.  Of the second, *)
(* the reservations of controlled applies: one verified request per key    *)
(* and nonce, completed once by the claim it was reserved for, or          *)
(* cancelled once; each of its operations is one serializable transaction, *)
(* and what the facade verifies is verified before it.  The tables share   *)
(* no row and no step.                                                     *)
(*                                                                         *)
(* Digests, locators and subjects of a controlled apply are one value, the *)
(* content of a request; a claim is its identifier and fencing token       *)
(* together.                                                               *)
(***************************************************************************)
EXTENDS Naturals, FiniteSets

CONSTANTS
  Request,     \* requests that carry the idempotency key
  HashOf,      \* the content hash of a request
  MaxReclaims, \* bound on the reservations that lapse and are taken again
  Key,         \* keys of controlled applies
  Nonce,
  Content,     \* what else an apply binds: envelope, subjects, approval
  Claim,       \* claims with their fencing tokens
  Receipt,     \* completion and cancellation receipts
  Caller,
  Expiry,      \* when a reservation of an apply expires
  MaxClock,
  Nil

VARIABLES
  record,       \* the idempotency key's row, or Nil
  lapsed,       \* the row's time to live has passed
  step,         \* per request: idle, run, record, done, conflict or failed
  outcome,      \* per request: whose execution answered it, or Nil
  executed,     \* the requests whose command committed
  reclaims,     \* reservations taken again
  reservation,  \* per key of an apply, Nil or the row
  verified,     \* per caller, the reserve request it verified, or Nil
  clock

-----------------------------------------------------------------------------
(* An idempotency key.                                                     *)

keyVars == <<record, lapsed, step, outcome, executed, reclaims>>

KeyRow == [hash : {HashOf[r] : r \in Request}, completed : BOOLEAN, result : Request \cup {Nil}]
KeyStep == {"idle", "run", "record", "done", "conflict", "failed"}

KeyTypeOK ==
  /\ record \in KeyRow \cup {Nil} /\ lapsed \in BOOLEAN
  /\ step \in [Request -> KeyStep] /\ outcome \in [Request -> Request \cup {Nil}]
  /\ executed \subseteq Request /\ reclaims \in 0..MaxReclaims

KeyInit ==
  /\ record = Nil /\ lapsed = FALSE /\ reclaims = 0 /\ executed = {}
  /\ step = [r \in Request |-> "idle"] /\ outcome = [r \in Request |-> Nil]

Goto(r, s) == step' = [step EXCEPT ![r] = s]
Reserved(r) == record' = [hash |-> HashOf[r], completed |-> FALSE, result |-> Nil]

\* reserve, one serializable transaction: create, conflict, replay or reclaim.
ReserveKey(r) ==
  /\ step[r] = "idle"
  /\ \/ /\ record = Nil /\ Reserved(r) /\ Goto(r, "run")
        /\ UNCHANGED <<lapsed, outcome, reclaims>>
     \/ /\ record # Nil /\ record.hash # HashOf[r] /\ Goto(r, "conflict")
        /\ UNCHANGED <<record, lapsed, outcome, reclaims>>
     \/ /\ record # Nil /\ record.hash = HashOf[r] /\ record.completed
        /\ outcome' = [outcome EXCEPT ![r] = record.result] /\ Goto(r, "done")
        /\ UNCHANGED <<record, lapsed, reclaims>>
     \/ /\ record # Nil /\ record.hash = HashOf[r] /\ ~record.completed /\ ~lapsed
        /\ Goto(r, "conflict")
        /\ UNCHANGED <<record, lapsed, outcome, reclaims>>
     \/ /\ record # Nil /\ record.hash = HashOf[r] /\ ~record.completed /\ lapsed
        /\ reclaims < MaxReclaims /\ reclaims' = reclaims + 1
        /\ Reserved(r) /\ lapsed' = FALSE /\ Goto(r, "run")
        /\ UNCHANGED outcome
  /\ UNCHANGED executed

\* The command commits, is refused (an outcome too), or fails unexpectedly: then
\* nothing is recorded and the key waits for its time to live.
RunCommand(r) ==
  /\ step[r] = "run"
  /\ \/ executed' = executed \cup {r} /\ Goto(r, "record")
     \/ UNCHANGED executed /\ (Goto(r, "record") \/ Goto(r, "failed"))
  /\ UNCHANGED <<record, lapsed, outcome, reclaims>>

\* complete, whoever reserved the key since.
RecordOutcome(r) ==
  /\ step[r] = "record"
  /\ record' = [record EXCEPT !.completed = TRUE, !.result = r]
  /\ outcome' = [outcome EXCEPT ![r] = r] /\ Goto(r, "done")
  /\ UNCHANGED <<lapsed, executed, reclaims>>

CrashCommand(r) ==
  /\ step[r] \in {"run", "record"}
  /\ Goto(r, "failed")
  /\ UNCHANGED <<record, lapsed, outcome, executed, reclaims>>

LapseKey ==
  /\ record # Nil /\ ~lapsed /\ lapsed' = TRUE
  /\ UNCHANGED <<record, step, outcome, executed, reclaims>>

KeyNext ==
  \/ LapseKey
  \/ \E r \in Request : ReserveKey(r) \/ RunCommand(r) \/ RecordOutcome(r) \/ CrashCommand(r)

KeySpec == KeyInit /\ [][KeyNext]_keyVars

\* The command commits once per reservation, so more than once only when the key
\* lapsed before the first outcome was recorded.
ExecutedOncePerReservation == Cardinality(executed) <= 1 + reclaims

\* Requests answered under one key were answered for the same content, and as
\* long as no reservation lapsed with the same outcome.
RepliesAgree ==
  \A q, r \in Request : outcome[q] # Nil /\ outcome[r] # Nil =>
    /\ HashOf[q] = HashOf[r]
    /\ reclaims = 0 => outcome[q] = outcome[r]

-----------------------------------------------------------------------------
(* The reservations of controlled applies.                                 *)

applyVars == <<reservation, verified, clock>>

VerifiedRequest == [key : Key, nonce : Nonce, content : Content, claim : Claim]
ApplyState == {"reserved", "completed", "cancelled"}
ApplyRow == [request : VerifiedRequest, state : ApplyState, receipt : Receipt \cup {Nil}]

ApplyTypeOK ==
  /\ reservation \in [Key -> ApplyRow \cup {Nil}]
  /\ verified \in [Caller -> VerifiedRequest \cup {Nil}]
  /\ clock \in 0..MaxClock

ApplyInit ==
  /\ reservation = [k \in Key |-> Nil] /\ verified = [c \in Caller |-> Nil] /\ clock = 0

\* assertVerifiedControlledApplyRequest: the request is unexpired when verified.
VerifyApply(c, request) ==
  /\ verified[c] = Nil /\ clock < Expiry
  /\ verified' = [verified EXCEPT ![c] = request]
  /\ UNCHANGED <<reservation, clock>>

\* reserve: a replay needs the same request, a new row an unused nonce.
ReserveApply(c) ==
  /\ verified[c] # Nil
  /\ LET x == verified[c]
     IN  IF reservation[x.key] = Nil
            /\ \A k \in Key : reservation[k] # Nil => reservation[k].request.nonce # x.nonce
         THEN reservation' = [reservation EXCEPT ![x.key] =
                [request |-> x, state |-> "reserved", receipt |-> Nil]]
         ELSE UNCHANGED reservation
  /\ verified' = [verified EXCEPT ![c] = Nil]
  /\ UNCHANGED clock

\* assertReservationCurrent; a cancellation does not look at the expiry.
Settle(k, claim, receipt, state) ==
  /\ reservation[k] # Nil
  /\ reservation[k].request.claim = claim
  /\ reservation[k].state = "reserved"
  /\ state = "completed" => clock < Expiry
  /\ reservation' = [reservation EXCEPT ![k].state = state, ![k].receipt = receipt]
  /\ UNCHANGED <<verified, clock>>

CompleteApply(k, claim, receipt) == Settle(k, claim, receipt, "completed")
CancelApply(k, claim, receipt) == Settle(k, claim, receipt, "cancelled")

Tick == clock < MaxClock /\ clock' = clock + 1 /\ UNCHANGED <<reservation, verified>>

ApplyNext ==
  \/ \E c \in Caller : ReserveApply(c) \/ \E x \in VerifiedRequest : VerifyApply(c, x)
  \/ \E k \in Key, claim \in Claim, receipt \in Receipt :
       CompleteApply(k, claim, receipt) \/ CancelApply(k, claim, receipt)
  \/ Tick

ApplySpec == ApplyInit /\ [][ApplyNext]_applyVars

\* A nonce is spent by one reservation, whatever the order of verified requests.
NonceSpentOnce ==
  \A j, k \in Key : reservation[j] # Nil /\ reservation[k] # Nil /\ j # k =>
    reservation[j].request.nonce # reservation[k].request.nonce

\* A reservation keeps its request, and its receipt once it is settled: a caller
\* with another claim or a late second outcome changes nothing.
SettledReservationStays ==
  [][\A k \in Key : reservation[k] # Nil =>
       /\ reservation'[k].request = reservation[k].request
       /\ reservation[k].state # "reserved" => reservation'[k] = reservation[k]]_applyVars

=============================================================================
