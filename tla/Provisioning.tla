---------------------------- MODULE Provisioning ----------------------------
(***************************************************************************)
(* How the private database gets its credentials.  An operator sets a      *)
(* random administrator password, keeps it as the first version of a       *)
(* secret and leaves one witness of having done so; a one-shot job that    *)
(* connects with it publishes a secret for each of two restricted logins,  *)
(* and gives them those passwords in the transaction that ends its epoch.  *)
(* A provider may do what it was asked and not be heard: later, or never.  *)
(* A password is identified with the run that drew it; a run happens once. *)
(***************************************************************************)
EXTENDS Naturals, Sequences, FiniteSets

CONSTANTS
  Run,     \* runs of the credential operator
  Claim,   \* runs of the identity job, each with a claim of its own
  Nil

VARIABLES
  password,  \* of the database's administrator: the run that drew it, or Nil
  pending,   \* password changes that the database was asked for and has not settled
  settled,   \* password changes that ended while their run polls: whether they were applied
  secret,    \* versions of the administrator's secret: the runs that wrote them
  sending,   \* runs whose new version may still arrive
  witness,   \* the one witness object, or Nil
  run,       \* per operator run: what it is about
  contested, \* history: a run began before another, and what that had asked for, was over
  epoch,     \* the row of the bootstrap epoch, or Nil
  login,     \* per login role: the claim whose password it has, or Nil
  version,   \* versions of the logins' secrets
  doubt,     \* the claim whose completing transaction is open and unheard of, or Nil
  job        \* per claim: what its job is about

operatorVars == <<password, pending, settled, secret, sending, witness, run, contested>>
epochVars == <<epoch, login, version, doubt, job>>
vars == <<operatorVars, epochVars>>

Login == {"submitter", "reconciler"}
Change == [of : Run, attempt : 1..2]
EpochRow == [of : Claim, state : {"reserved", "completed", "failed"}, incomplete : BOOLEAN]
LoginVersion == [login : Login, of : Claim, enabled : BOOLEAN, heard : BOOLEAN]
Stage == {"new", "set", "poll", "add", "list", "witness", "compare", "again",
          "done", "ended"}
Phase == {"new", "reserve", "submitter", "reconciler", "commit", "unsure", "disable", "record",
          "done", "ended"}

TypeOK ==
  /\ password \in Run \cup {Nil} /\ pending \subseteq Change
  /\ settled \subseteq [change : Change, applied : BOOLEAN]
  /\ secret \in Seq(Run) /\ sending \subseteq Run /\ contested \in BOOLEAN
  /\ witness # Nil => witness.of \in Run /\ witness.version \in DOMAIN secret
  /\ \A r \in Run : run[r].at \in Stage
  /\ epoch \in EpochRow \cup {Nil}
  /\ login \in [Login -> Claim \cup {Nil}] /\ version \subseteq LoginVersion
  /\ doubt \in Claim \cup {Nil} /\ \A c \in Claim : job[c].at \in Phase

Init ==
  /\ password = Nil /\ pending = {} /\ settled = {} /\ secret = <<>> /\ sending = {}
  /\ witness = Nil /\ run = [r \in Run |-> [at |-> "new", attempt |-> 0, version |-> Nil]]
  /\ contested = FALSE
  /\ epoch = Nil /\ login = [l \in Login |-> Nil] /\ version = {}
  /\ doubt = Nil /\ job = [c \in Claim |-> [at |-> "new", todo |-> {}, incomplete |-> FALSE]]

-----------------------------------------------------------------------------
(* The credential operator.                                                 *)

At(r, stage) == run[r].at = stage
Move(r, stage) == run' = [run EXCEPT ![r].at = stage]
Over(r) == run[r].at \in {"new", "done", "ended"}
secretVars == <<secret, sending>>
passwordVars == <<password, pending, settled>>

\* Instance, database, bucket or secret are not what the request says they are.
Refuse(r) ==
  /\ At(r, "new") /\ Move(r, "ended")
  /\ UNCHANGED <<passwordVars, secretVars, witness, contested>>
\* The foundation is as it should be, nobody stored a version, nobody left a witness.
Begin(r) ==
  /\ At(r, "new") /\ secret = <<>> /\ witness = Nil /\ Move(r, "set")
  /\ contested' = (contested \/ pending # {} \/ sending # {} \/ \E q \in Run : ~Over(q))
  /\ UNCHANGED <<passwordVars, secretVars, witness>>

\* The same password is sent again once if neither an operation nor an error came back.
SetPassword(r) ==
  /\ At(r, "set")
  /\ LET change == [of |-> r, attempt |-> run[r].attempt + 1] IN
     \/ /\ pending' = pending \cup {change}
        /\ run' = [run EXCEPT ![r].attempt = change.attempt, ![r].at = "poll"]
     \/ /\ pending' \in {pending, pending \cup {change}}
        /\ run' = [run EXCEPT ![r].attempt = change.attempt,
                              ![r].at = IF change.attempt = 2 THEN "ended" ELSE "set"]
  /\ UNCHANGED <<password, settled, secretVars, witness, contested>>
Poll(r) ==
  /\ At(r, "poll")
  /\ \E s \in settled :
       /\ s.change = [of |-> r, attempt |-> run[r].attempt]
       /\ Move(r, IF s.applied THEN "add" ELSE "ended") /\ settled' = settled \ {s}
  /\ UNCHANGED <<password, pending, secretVars, witness, contested>>

\* The database settles what it was asked for in an order of its own; the outcome is
\* kept for the run that polls it.
Polled(c) == At(c.of, "poll") /\ run[c.of].attempt = c.attempt
SettleChange ==
  /\ \E c \in pending, applied \in BOOLEAN :
       /\ pending' = pending \ {c}
       /\ settled' = IF Polled(c) THEN settled \cup {[change |-> c, applied |-> applied]}
                     ELSE settled
       /\ password' = IF applied THEN c.of ELSE password
  /\ UNCHANGED <<secretVars, witness, run, contested>>

\* One request for a version; unheard of, it may arrive, at once or later.
AddVersion(r) ==
  /\ At(r, "add")
  /\ \/ /\ secret' = Append(secret, r)
        /\ run' = [run EXCEPT ![r].version = Len(secret) + 1, ![r].at = "witness"]
        /\ UNCHANGED sending
     \/ /\ sending' \in {sending, sending \cup {r}} /\ Move(r, "list") /\ UNCHANGED secret
  /\ UNCHANGED <<passwordVars, witness, contested>>
Arrive(r) ==
  /\ r \in sending /\ sending' = sending \ {r} /\ secret' = Append(secret, r)
  /\ UNCHANGED <<passwordVars, witness, run, contested>>
\* The only version there is must be the run's own, as reading it back tells.
ListVersions(r) ==
  /\ At(r, "list") /\ secret # <<>>
  /\ run' = IF secret = <<r>> THEN [run EXCEPT ![r].version = 1, ![r].at = "witness"]
            ELSE [run EXCEPT ![r].at = "ended"]
  /\ UNCHANGED <<passwordVars, secretVars, witness, contested>>

\* create_witness with ifGenerationMatch=0: whether it was created or refused may
\* remain unheard of; the object is compared then, and created once more if missing.
Receipt(r) == [of |-> r, version |-> run[r].version]
CreateWitness(r) ==
  /\ run[r].at \in {"witness", "again"}
  /\ LET unheard == IF At(r, "again") THEN "ended" ELSE "compare" IN
     \/ /\ witness = Nil /\ witness' = Receipt(r)
        /\ run' \in {[run EXCEPT ![r].at = "done"], [run EXCEPT ![r].at = unheard]}
     \/ Move(r, unheard) /\ UNCHANGED witness
  /\ UNCHANGED <<passwordVars, secretVars, contested>>
CompareWitness(r) ==
  /\ At(r, "compare")
  /\ Move(r, IF witness = Nil THEN "again"
             ELSE IF witness = Receipt(r) THEN "done" ELSE "ended")
  /\ UNCHANGED <<passwordVars, secretVars, witness, contested>>

CrashRun(r) ==
  /\ ~Over(r) /\ Move(r, "ended")
  /\ UNCHANGED <<passwordVars, secretVars, witness, contested>>

-----------------------------------------------------------------------------
(* The identity job.                                                        *)

In(c, phase) == job[c].at = phase
Go(c, phase) == job' = [job EXCEPT ![c].at = phase]
Known(c) == {v \in version : v.of = c /\ v.heard}

\* The guard of the table: a reserved row is decided, once.
Decide(state, incomplete) ==
  /\ epoch.state = "reserved"
  /\ epoch' = [epoch EXCEPT !.state = state, !.incomplete = incomplete]

\* The job connects with the witnessed administrator version, if that opens the
\* database as it is, and looks at its migrations, roles and privileges.
Preflight(c) ==
  /\ In(c, "new") /\ witness # Nil /\ secret[witness.version] = password
  /\ Go(c, "reserve") \/ Go(c, "ended")
  /\ UNCHANGED <<epoch, login, version, doubt>>

\* The singleton's insert wins, or the job is over.
Reserve(c) ==
  /\ In(c, "reserve")
  /\ IF epoch = Nil
     THEN /\ epoch' = [of |-> c, state |-> "reserved", incomplete |-> FALSE]
          /\ Go(c, "submitter")
     ELSE Go(c, "ended") /\ UNCHANGED epoch
  /\ UNCHANGED <<login, version, doubt>>

\* A version for each login; a failure ends in the cleanup of those heard of.
Publish(c, l) ==
  /\ In(c, l)
  /\ LET Added(heard) ==
           version' = version \cup {[login |-> l, of |-> c, enabled |-> TRUE, heard |-> heard]}
     IN \/ Added(TRUE) /\ Go(c, IF l = "submitter" THEN "reconciler" ELSE "commit")
        \/ /\ Added(FALSE) \/ UNCHANGED version
           /\ job' = [job EXCEPT ![c].at = "disable", ![c].todo = Known(c)]
  /\ UNCHANGED <<epoch, login, doubt>>

\* Both roles are rotated and the row completed in one transaction.
RotateRoles(c) == login' = [l \in Login |-> c]
Complete == Decide("completed", FALSE)
Commit(c) ==
  /\ In(c, "commit")
  /\ \/ RotateRoles(c) /\ Complete /\ Go(c, "done") /\ UNCHANGED doubt
     \/ /\ doubt' \in {c, Nil} /\ Go(c, "unsure") /\ UNCHANGED <<login, epoch>>
  /\ UNCHANGED version
EndTransaction ==
  /\ doubt # Nil /\ doubt' = Nil
  /\ \/ RotateRoles(doubt) /\ Complete
     \/ UNCHANGED <<login, epoch>>
  /\ UNCHANGED <<version, job>>

\* The row is read FOR UPDATE: while the transaction holds it, the read waits, and
\* gives up after a while.
RowFree == doubt = Nil
Reconcile(c) ==
  /\ In(c, "unsure")
  /\ \/ /\ RowFree /\ epoch.state = "completed" /\ Go(c, "done")
     \/ /\ RowFree /\ epoch.state = "reserved"
        /\ job' = [job EXCEPT ![c].at = "disable", ![c].todo = Known(c)]
     \/ Go(c, "ended")
  /\ UNCHANGED <<epoch, login, version, doubt>>

Disable(c) ==
  /\ In(c, "disable")
  /\ IF job[c].todo = {} THEN Go(c, "record") /\ UNCHANGED version
     ELSE \E v \in job[c].todo :
            \/ /\ version' = (version \ {v}) \cup {[v EXCEPT !.enabled = FALSE]}
               /\ job' = [job EXCEPT ![c].todo = @ \ {v}]
            \/ /\ job' = [job EXCEPT ![c].todo = @ \ {v}, ![c].incomplete = TRUE]
               /\ UNCHANGED version
  /\ UNCHANGED <<epoch, login, doubt>>
\* Recording the failure waits for the row too, and may itself fail unnoticed.
Record(c) ==
  /\ In(c, "record") /\ Go(c, "ended")
  /\ \/ RowFree /\ Decide("failed", job[c].incomplete)
     \/ UNCHANGED epoch
  /\ UNCHANGED <<login, version, doubt>>

CrashJob(c) ==
  /\ job[c].at \notin {"new", "done", "ended"} /\ Go(c, "ended")
  /\ UNCHANGED <<epoch, login, version, doubt>>

-----------------------------------------------------------------------------

Operate(r) ==
  \/ Refuse(r) \/ Begin(r) \/ SetPassword(r) \/ Poll(r) \/ AddVersion(r) \/ Arrive(r)
  \/ ListVersions(r) \/ CreateWitness(r) \/ CompareWitness(r) \/ CrashRun(r)
Provide(c) ==
  \/ Preflight(c) \/ Reserve(c) \/ \E l \in Login : Publish(c, l)
  \/ Commit(c) \/ Reconcile(c) \/ Disable(c) \/ Record(c) \/ CrashJob(c)

Next ==
  \/ ((\E r \in Run : Operate(r)) \/ SettleChange) /\ UNCHANGED epochVars
  \/ ((\E c \in Claim : Provide(c)) \/ EndTransaction) /\ UNCHANGED operatorVars

Spec == Init /\ [][Next]_vars

-----------------------------------------------------------------------------
(* Properties.                                                             *)

\* One run at most reports success, the witness is its own, and the version the
\* witness names holds the password of that run; it is the database's password
\* too, unless runs overlapped or left requests behind.
WitnessIsTrue ==
  /\ witness # Nil =>
       /\ secret[witness.version] = witness.of
       /\ ~contested => password = witness.of
  /\ \A r \in Run : At(r, "done") => witness # Nil /\ witness.of = r

\* The logins change together and with the epoch: a completed epoch is that of the
\* claim whose passwords both have, and an enabled version holds each of them.
LoginsMatchEpoch ==
  /\ \A l \in Login :
       login[l] = IF epoch # Nil /\ epoch.state = "completed" THEN epoch.of ELSE Nil
  /\ epoch # Nil /\ epoch.state = "completed" =>
       \A l \in Login :
         [login |-> l, of |-> epoch.of, enabled |-> TRUE, heard |-> TRUE] \in version
  /\ \A c \in Claim : In(c, "done") => epoch.of = c /\ epoch.state = "completed"

\* After a failure recorded without the mark of an incomplete cleanup, the versions
\* still enabled are those nobody heard of.
FailureLeavesUnheard ==
  epoch # Nil /\ epoch.state = "failed" /\ ~epoch.incomplete =>
    \A v \in version : v.enabled => ~v.heard

\* The row of the epoch is written once and decided once.
EpochDecidedOnce ==
  epoch # Nil =>
    \/ epoch' = epoch
    \/ epoch.state = "reserved" /\ epoch'.of = epoch.of /\ epoch'.state \in {"completed", "failed"}

=============================================================================
