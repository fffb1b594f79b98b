---------------------------- MODULE ProviderSpend ----------------------------
(***************************************************************************)
(* What may be spent at the model provider by hand: the synthetic smoke    *)
(* and the tuning rehearsal, each with a sealed ledger under a file lock   *)
(* and an anchor that tells a removed ledger from a new one.  They share   *)
(* no state.  Processes may be killed anywhere; the file system does not   *)
(* fail.                                                                   *)
(*                                                                         *)
(* Smoke: an operator's script sends one fixed request per capability,     *)
(* after a marker in a bucket and a reservation in the ledger have been    *)
(* taken, and writes a packet of what happened.  One day is modelled.  A   *)
(* manifest is the second its script began in: two scripts of one second   *)
(* have the same.  What the preflight looks at (endpoints, prices,         *)
(* controls, permissions) is a verdict from outside.  The lock covers a    *)
(* whole change; the one state seen between is that of the first write,    *)
(* which creates the anchor and then the file.                             *)
(*                                                                         *)
(* Rehearsal: what calls the ledger is outside the sources; a caller asks  *)
(* for operations and settles what it was granted.  Each change replaces   *)
(* the file and then its anchor, which is of exactly that file.            *)
(***************************************************************************)
EXTENDS Naturals, FiniteSets

CONSTANTS
  Runner,    \* runs of the script
  Dir,       \* ledger directories
  Manifest,
  Cost,      \* the reservation of a capability
  SmokeCap,  \* maxTotalCostMicrousd and the day's cap, whichever is less
  Caller,    \* callers of the rehearsal's ledger
  Price,     \* the reservation of an operation
  TuningCap, \* maxTotalCostMicrousd of the rehearsal
  Nil

VARIABLES
  smokeLedger,  \* the file of each directory: Nil or its manifest and reservations
  smokeAnchor,  \* the manifest each directory's anchor binds
  witness,      \* capabilities whose marker is in the bucket
  script,
  sent,         \* the capabilities each script's requests reached the provider for
  tuningLedger, \* the rows of the file by operation, Nil before the first
  tuningAnchor, \* the rows its anchor is of
  caller,
  granted       \* authorizations that reached their caller

smokeVars == <<smokeLedger, smokeAnchor, witness, script, sent>>
tuningVars == <<tuningLedger, tuningAnchor, caller, granted>>

(***************************************************************************)
(* The synthetic smoke                                                     *)
(***************************************************************************)
Capability == {"generation", "embedding"}
Outcome == {"succeeded", "failed", "ambiguous", "cancelled"}
\* A reservation; by is the script whose authorization its digest is of.
Row == [state : {"reserved", "dispatching"} \cup Outcome, by : Runner]
Book == [manifest : Manifest, rows : UNION {[S -> Row] : S \in SUBSET Capability}]
\* What a manifest must satisfy to exist: reservations for all it asks for, within
\* the cap.
CostOf(capabilities) ==
  LET share(c) == IF c \in capabilities THEN Cost[c] ELSE 0
  IN  share("generation") + share("embedding")
ManifestValid == Cost \in [Capability -> Nat] /\ CostOf(Capability) <= SmokeCap

NoScript == [at |-> "off", dir |-> Nil, manifest |-> Nil, capability |-> Nil,
             outcome |-> Nil, results |-> {}, packet |-> Nil]

SmokeTypeOK ==
  /\ ManifestValid
  /\ smokeLedger \in [Dir -> Book \cup {Nil}]
  /\ smokeAnchor \in [Dir -> Manifest \cup {Nil}]
  /\ witness \subseteq Capability
  /\ sent \in [Runner -> SUBSET Capability]
  /\ \A p \in Runner : script[p].at \in
       {"off", "claim", "reserve", "replace", "begin", "token", "send", "settle",
        "packet", "done", "killed"}

SmokeInit ==
  /\ smokeLedger = [d \in Dir |-> Nil] /\ smokeAnchor = [d \in Dir |-> Nil]
  /\ witness = {} /\ sent = [p \in Runner |-> {}]
  /\ script = [p \in Runner |-> NoScript]

At(p, at) == script[p].at = at
Goto(p, at) == script' = [script EXCEPT ![p].at = at]
\* Every failure ends the script's loop; the packet is still written.
Failed(p) == Goto(p, "packet")
\* Another script may take the lock of the directory.
Unlocked(d) == \A p \in Runner : ~(At(p, "replace") /\ script[p].dir = d)

\* Before each capability fixture, endpoint, prices, controls, principal and
\* permissions are as the authority expects them, or the script goes on to its packet.
Preflight == {"claim", "packet"}

\* The key is read or created, and the manifest made, of the second it is.
Opened(d, m) ==
  [NoScript EXCEPT !.dir = d, !.manifest = m, !.capability = "generation"]

Begin(p) ==
  /\ At(p, "off")
  /\ \E d \in Dir, m \in Manifest, verdict \in Preflight :
       script' = [script EXCEPT ![p] = [Opened(d, m) EXCEPT !.at = verdict]]
  /\ UNCHANGED <<smokeLedger, smokeAnchor, witness, sent>>

\* GcsDispatchWitness.claim: the object is created only if it is not there.
Unclaimed(c) == c \notin witness
Claim(p) ==
  /\ At(p, "claim")
  /\ LET c == script[p].capability IN
     \/ /\ Unclaimed(c) /\ witness' = witness \cup {c} /\ Goto(p, "reserve")
     \/ /\ witness' \in {witness, witness \cup {c}}  \* it is there, or the bucket failed, or its answer
        /\ Failed(p)
  /\ UNCHANGED <<smokeLedger, smokeAnchor, sent>>

\* A ledger that is gone while its anchor is not was removed.
Readable(d) == smokeLedger[d] # Nil \/ smokeAnchor[d] = Nil
Rows(d) == IF smokeLedger[d] = Nil THEN [c \in {} |-> Nil] ELSE smokeLedger[d].rows
Mine(p) == LET d == script[p].dir IN
  Readable(d) /\ (smokeLedger[d] # Nil => smokeLedger[d].manifest = script[p].manifest)
Reserved(d) == CostOf(DOMAIN Rows(d))

Put(p, c, state) == LET d == script[p].dir IN
  smokeLedger' = [smokeLedger EXCEPT ![d] = [manifest |-> script[p].manifest,
    rows |-> [x \in DOMAIN Rows(d) \cup {c} |->
                IF x = c THEN [state |-> state, by |-> p] ELSE Rows(d)[x]]]]

Admissible(p, c) ==
  /\ Mine(p) /\ c \notin DOMAIN Rows(script[p].dir)
  /\ Reserved(script[p].dir) + Cost[c] <= SmokeCap

\* FileSmokeLedger.reserve.  The first writes the anchor, then the file.
Reserve(p) ==
  /\ At(p, "reserve") /\ Unlocked(script[p].dir)
  /\ LET c == script[p].capability
         d == script[p].dir IN
     \/ /\ Admissible(p, c) /\ smokeAnchor[d] = Nil
        /\ smokeAnchor' = [smokeAnchor EXCEPT ![d] = script[p].manifest]
        /\ Goto(p, "replace") /\ UNCHANGED smokeLedger
     \/ /\ Admissible(p, c) /\ smokeAnchor[d] = script[p].manifest
        /\ Put(p, c, "reserved") /\ Goto(p, "begin") /\ UNCHANGED smokeAnchor
     \/ /\ ~Admissible(p, c) /\ Failed(p) /\ UNCHANGED <<smokeLedger, smokeAnchor>>
  /\ UNCHANGED <<witness, sent>>

\* _write_atomic after the anchor is there
Replace(p) ==
  /\ At(p, "replace")
  /\ Put(p, script[p].capability, "reserved") /\ Goto(p, "begin")
  /\ UNCHANGED <<smokeAnchor, witness, sent>>

\* The request is made from the sealed authorization of this reservation.
Bound(p) ==
  Rows(script[p].dir)[script[p].capability] = [state |-> "reserved", by |-> p]

\* begin_dispatch: the sealed reservation is consumed before a token is asked for.
BeginDispatch(p) ==
  /\ At(p, "begin") /\ Unlocked(script[p].dir)
  /\ LET c == script[p].capability IN
     IF Mine(p) /\ Bound(p)
     THEN Put(p, c, "dispatching") /\ Goto(p, "token")
     ELSE Failed(p) /\ UNCHANGED smokeLedger
  /\ UNCHANGED <<smokeAnchor, witness, sent>>

Settling(p, outcome) ==
  script' = [script EXCEPT ![p].at = "settle", ![p].outcome = outcome]

\* Around the token the script may be told to stop; without one nothing is sent.
AcquireToken(p) ==
  /\ At(p, "token")
  /\ Goto(p, "send") \/ \E o \in {"cancelled", "failed"} : Settling(p, o)
  /\ UNCHANGED <<smokeLedger, smokeAnchor, witness, sent>>

\* Only an answer that is whole, of the model asked, finished and within the sealed
\* token caps counts.
Verdicts == {"succeeded", "ambiguous"}

\* _dispatch: any other answer, and none, leaves open whether the provider worked
\* for the request.
Dispatch(p) ==
  /\ At(p, "send")
  /\ \/ /\ \E o \in Verdicts : Settling(p, o)
        /\ sent' = [sent EXCEPT ![p] = @ \cup {script[p].capability}]
     \/ Settling(p, "ambiguous") /\ UNCHANGED sent
  /\ UNCHANGED <<smokeLedger, smokeAnchor, witness>>

\* reconcile; what is recorded as incurred is the reservation or nothing.  After a
\* success the preflight of the next capability.
Reconcile(p) ==
  /\ At(p, "settle") /\ Unlocked(script[p].dir)
  /\ LET c == script[p].capability
         o == script[p].outcome IN
     /\ Mine(p) /\ Rows(script[p].dir)[c].state = "dispatching"
     /\ Put(p, c, o)
     /\ IF o # "succeeded" THEN Failed(p)
        ELSE \E verdict \in IF c = "generation" THEN Preflight ELSE {"packet"} :
               script' = [script EXCEPT ![p].results = @ \cup {c},
                            ![p].capability = "embedding", ![p].at = verdict]
  /\ UNCHANGED <<smokeAnchor, witness, sent>>

\* The packet: the script's results and, where the ledger can be read and is its
\* own, the states the reservations are in.
WritePacket(p) ==
  /\ At(p, "packet") /\ Unlocked(script[p].dir)
  /\ LET rows == IF Mine(p) THEN Rows(script[p].dir) ELSE [c \in {} |-> Nil]
         in(states) == {c \in DOMAIN rows : rows[c].state \in states} IN
     script' = [script EXCEPT ![p].at = "done", ![p].packet =
       [attempts |-> Cardinality(in({"ambiguous", "succeeded"})),
        outcome |-> IF script[p].results = Capability THEN "succeeded"
                    ELSE IF in({"ambiguous", "dispatching"}) # {} THEN "ambiguous"
                    ELSE "failed"]]
  /\ UNCHANGED <<smokeLedger, smokeAnchor, witness, sent>>

KillScript(p) ==
  /\ script[p].at \notin {"off", "done", "killed"}
  /\ Goto(p, "killed") /\ UNCHANGED <<smokeLedger, smokeAnchor, witness, sent>>

SmokeNext == \E p \in Runner :
  \/ Begin(p) \/ Claim(p) \/ Reserve(p) \/ Replace(p) \/ BeginDispatch(p)
  \/ AcquireToken(p) \/ Dispatch(p) \/ Reconcile(p) \/ WritePacket(p) \/ KillScript(p)

(***************************************************************************)
(* The tuning rehearsal                                                    *)
(***************************************************************************)
Operation == {"baseline", "training", "post_tune_evaluation", "storage"}
Terminal == {"succeeded", "failed", "ambiguous", "cancelled"}
OperationState == {"dispatching"} \cup Terminal

\* The reservations are the pinned worst prices and together within the cap.
PriceOf(operations) ==
  LET share(o) == IF o \in operations THEN Price[o] ELSE 0
  IN  share("baseline") + share("training") + share("post_tune_evaluation") + share("storage")
PricesValid == Price \in [Operation -> Nat] /\ PriceOf(Operation) <= TuningCap

NoCall == [at |-> "free", operation |-> Nil, writes |-> Nil]

TuningTypeOK ==
  /\ PricesValid
  /\ \A file \in {tuningLedger, tuningAnchor} : file # Nil =>
       DOMAIN file \subseteq Operation /\ \A o \in DOMAIN file : file[o] \in OperationState
  /\ granted \in [Operation -> Nat]
  /\ \A c \in Caller : caller[c].at \in {"free", "anchoring", "settling", "killed"}

TuningInit ==
  /\ tuningLedger = Nil /\ tuningAnchor = Nil /\ granted = [o \in Operation |-> 0]
  /\ caller = [c \in Caller |-> NoCall]

Asked == IF tuningLedger = Nil THEN [o \in {} |-> Nil] ELSE tuningLedger
AskedWith(o, state) == [x \in DOMAIN Asked \cup {o} |-> IF x = o THEN state ELSE Asked[x]]

NobodyWrites == \A c \in Caller : caller[c].at # "anchoring"
\* No ledger without an anchor is new, any other pair must match.
Intact == tuningLedger = tuningAnchor

AskedPrice == PriceOf(DOMAIN Asked)

\* _write_atomic: the file first.
WriteFile(c, o, state) ==
  /\ tuningLedger' = AskedWith(o, state)
  /\ caller' = [caller EXCEPT ![c] =
       [at |-> "anchoring", operation |-> o, writes |-> state]]

\* authorize_dispatch; one that is refused raises and changes nothing.
Authorize(c) ==
  /\ caller[c].at = "free" /\ NobodyWrites /\ Intact
  /\ \E o \in Operation \ DOMAIN Asked :
       AskedPrice + Price[o] <= TuningCap /\ WriteFile(c, o, "dispatching")
  /\ UNCHANGED <<tuningAnchor, granted>>

\* reconcile; a cost above the reservation is refused.
SettleOperation(c) ==
  /\ caller[c].at = "settling" /\ NobodyWrites /\ Intact
  /\ Asked[caller[c].operation] = "dispatching"
  /\ \E outcome \in Terminal : WriteFile(c, caller[c].operation, outcome)
  /\ UNCHANGED <<tuningAnchor, granted>>

\* _write_anchor, after which the call returns.
WriteAnchor(c) ==
  /\ caller[c].at = "anchoring"
  /\ tuningAnchor' = tuningLedger
  /\ LET o == caller[c].operation IN
     IF caller[c].writes = "dispatching"
     THEN /\ granted' = [granted EXCEPT ![o] = @ + 1]
          /\ caller' = [caller EXCEPT ![c].at = "settling"]
     ELSE caller' = [caller EXCEPT ![c] = NoCall] /\ UNCHANGED granted
  /\ UNCHANGED tuningLedger

KillCaller(c) ==
  /\ caller[c].at \in {"anchoring", "settling"}
  /\ caller' = [caller EXCEPT ![c].at = "killed"]
  /\ UNCHANGED <<tuningLedger, tuningAnchor, granted>>

TuningNext == \E c \in Caller :
  Authorize(c) \/ SettleOperation(c) \/ WriteAnchor(c) \/ KillCaller(c)

-----------------------------------------------------------------------------
(* Properties.                                                             *)

\* A capability is sent to the provider once a day, over every ledger, every
\* script and every script that was killed half way.
SentOnce ==
  \A c \in Capability : Cardinality({p \in Runner : c \in sent[p]}) <= 1

\* A request that left is in its script's ledger as one that may have cost what was
\* reserved for it, and the reservations stay within the cap.
SentIsReserved ==
  /\ \A p \in Runner : \A c \in sent[p] :
       /\ c \in DOMAIN Rows(script[p].dir) /\ Rows(script[p].dir)[c].by = p
       /\ Rows(script[p].dir)[c].state \in {"dispatching", "succeeded", "ambiguous"}
  /\ \A d \in Dir : Reserved(d) <= SmokeCap

\* A packet counts every request its script sent, says "succeeded" only when both
\* were answered, and "failed" only when none is open.
PacketTellsTheTruth ==
  \A p \in Runner : script[p].packet # Nil =>
    /\ script[p].packet.attempts >= Cardinality(sent[p])
    /\ script[p].packet.outcome = "succeeded" => sent[p] = Capability
    /\ script[p].packet.outcome = "failed" => sent[p] \subseteq script[p].results

\* An operation is granted once, training with it, and everything granted is in the
\* ledger and within the cap.
GrantedOnce ==
  /\ \A o \in Operation : granted[o] <= 1 /\ (granted[o] = 1 => o \in DOMAIN Asked)
  /\ AskedPrice <= TuningCap

\* A ledger its process was killed in the middle of is never written again: nothing
\* is granted or settled from it.
TornStaysTorn ==
  tuningLedger # tuningAnchor /\ NobodyWrites =>
    tuningLedger' = tuningLedger /\ granted' = granted

=============================================================================
