------------------------------ MODULE AgentRun ------------------------------
(***************************************************************************)
(* One run of the agent runtime: its row in the SQLite store, the approval *)
(* of the tool calls it asks for and the ledger of the calls carried out.  *)
(* Workers claim the run, a person resumes it from the command line, and   *)
(* either may be cut off or sleep through its heartbeat at any await.      *)
(***************************************************************************)
EXTENDS Naturals, Sequences, SequencesExt

CONSTANTS
  Process,     \* workers and resuming command lines, by their worker id
  ToolCall,    \* calls of the writing tool that the model may make
  MaxAttempts, \* claims of a run that may execute
  MaxVersion,  \* bound on the row's version when it is claimed, resumed or cancelled
  Nil

VARIABLES
  run,        \* the run's row
  approval,   \* per call: no row, or the status of its approval
  saved,      \* the checkpoints, each the call it is interrupted at, or "done"
  issued,     \* calls the model has made
  ledger,     \* per call: nothing, "intent" or "completed"
  writes,     \* per call: how often the tool was run
  local       \* per process: where it is and what it holds

vars == <<run, approval, saved, issued, ledger, writes, local>>
rows == <<run, approval, saved>>
tool == <<issued, ledger, writes>>

State == {"queued", "running", "waiting_approval", "waiting_dependency", "reviewing",
          "succeeded", "failed_safely", "cancelled"}
terminalStates == {"succeeded", "failed_safely", "cancelled"}
Active == {"running", "reviewing"}
Undecided == {"none", "pending"}

canTransition(from, to) ==
  \/ from \notin terminalStates /\ to \in {"failed_safely", "cancelled"}
  \/ from \in {"queued", "waiting_approval", "waiting_dependency", "reviewing"} /\ to = "running"
  \/ from = "running" /\ to \in {"waiting_approval", "waiting_dependency", "reviewing"}
  \/ from \in Active /\ to = "succeeded"

Step == {"off", "start", "resolve", "execute", "tool", "write", "written", "think",
         "accept", "verify", "conclude", "suspend", "review", "catch"}
Checkpoint == ToolCall \cup {"done"}
Row == [state : State, version : 0..(MaxVersion + 4), claimedBy : Process \cup {Nil},
        beat : {"none", "fresh", "stale"}, cancel : BOOLEAN, claims : 0..MaxVersion,
        controlled : BOOLEAN]
Approval == {"none", "pending", "approved", "rejected"}
Operation == {"none", "intent", "completed"}
Latest == IF saved = <<>> THEN Nil ELSE Last(saved)

Off == [step |-> "off", kind |-> Nil, seen |-> 0, as |-> Nil, input |-> Nil,
        decided |-> [c \in ToolCall |-> "none"], ask |-> Nil, aborted |-> "no"]

TypeOK ==
  /\ run \in Row /\ approval \in [ToolCall -> Approval]
  /\ saved \in Seq(Checkpoint) /\ issued \subseteq ToolCall
  /\ ledger \in [ToolCall -> Operation]
  /\ writes \in [ToolCall -> Nat]
  /\ \A p \in Process :
       /\ local[p].step \in Step /\ local[p].kind \in {"worker", "resume", Nil}
       /\ local[p].as \in Process \cup {Nil} /\ local[p].aborted \in {"no", "cancel", "lost"}
       /\ local[p].input \in Checkpoint \cup {Nil} /\ local[p].ask \in Checkpoint \cup {Nil}

Init ==
  /\ run \in [state : {"queued"}, version : {0}, claimedBy : {Nil}, beat : {"none"},
              cancel : {FALSE}, claims : {0}, controlled : BOOLEAN]
  /\ approval = [c \in ToolCall |-> "none"] /\ saved = <<>>
  /\ issued = {} /\ ledger = [c \in ToolCall |-> "none"] /\ writes = [c \in ToolCall |-> 0]
  /\ local = [p \in Process |-> Off]

Goto(p, s) == local' = [local EXCEPT ![p].step = s]
Leave(p) == local' = [local EXCEPT ![p] = Off]

\* What was read at the start is not used after this step.
Forgetting(p, s, ask) ==
  local' = [local EXCEPT ![p] = [Off EXCEPT !.step = s, !.kind = local[p].kind, !.ask = ask]]
Running(p, s, ask) ==
  local' = [local EXCEPT ![p] = [@ EXCEPT !.step = s, !.ask = ask, !.input = Nil,
                                          !.decided = Off.decided]]
Moved(to) == [run EXCEPT !.state = to, !.version = @ + 1, !.beat = "fresh"]
Resumed(worker) == [Moved("running") EXCEPT !.claimedBy = worker]

\* A worker catches what is thrown, the command line reports it and ends.
Throw(p) == IF local[p].kind = "worker" THEN Forgetting(p, "catch", Nil) ELSE Leave(p)

\* transition, for a process whose work ends with it.
Settle(p, expectedVersion, to) ==
  IF run.version = expectedVersion /\ canTransition(run.state, to)
  THEN run' = Moved(to) /\ Leave(p)
  ELSE Throw(p) /\ UNCHANGED run

\* heartbeat touches the row of whoever it names, as long as the run is active.
Owned(worker) == run.claimedBy = worker /\ run.state \in Active
Abort(worker) == IF ~Owned(worker) THEN "lost" ELSE IF run.cancel THEN "cancel" ELSE "no"
Touched(worker) == IF Owned(worker) THEN [run EXCEPT !.beat = "fresh"] ELSE run

-----------------------------------------------------------------------------
(* The store: claims, stale heartbeats, requests of people.                *)

\* claimNextRun.
Claim(p) ==
  /\ local[p].step = "off" /\ run.state = "queued" /\ run.version < MaxVersion
  /\ run' = [Resumed(p) EXCEPT !.claims = @ + 1]
  /\ local' = [local EXCEPT ![p].step = "start", ![p].kind = "worker"]
  /\ UNCHANGED <<approval, saved, tool>>

\* Five minutes pass without a heartbeat.
FallSilent ==
  /\ run.state \in Active /\ run.beat = "fresh"
  /\ run' = [run EXCEPT !.beat = "stale"]
  /\ UNCHANGED <<approval, saved, tool, local>>

Finalized == IF run.cancel THEN "cancelled" ELSE "queued"

\* reconcileStale, which every worker runs before it claims.
Reconcile(p) ==
  /\ local[p].step = "off" /\ run.state \in Active /\ run.beat = "stale"
  /\ run' = [Moved(Finalized) EXCEPT !.claimedBy = Nil, !.beat = "none"]
  /\ UNCHANGED <<approval, saved, tool, local>>

\* resumeRun: a rejection fails the run, approvals and answers let it go on.
Resume(p) ==
  /\ local[p].step = "off" /\ run.version < MaxVersion
  /\ \/ run.state = "waiting_approval" /\ \A c \in ToolCall : approval[c] # "pending"
     \/ run.state = "waiting_dependency"
  /\ IF run.state = "waiting_approval" /\ \E c \in ToolCall : approval[c] = "rejected"
     THEN run' = Moved("failed_safely") /\ UNCHANGED local
     ELSE /\ run' = Resumed(p)
          /\ local' = [local EXCEPT ![p].step = "start", ![p].kind = "resume"]
  /\ UNCHANGED <<approval, saved, tool>>

\* requestCancellation, again and again if it must be.
RequestCancellation ==
  /\ run.state \notin terminalStates /\ run.version < MaxVersion
  /\ run' = [run EXCEPT !.cancel = TRUE, !.version = @ + 1,
                        !.state = IF @ \in Active THEN @ ELSE "cancelled"]
  /\ UNCHANGED <<approval, saved, tool, local>>

\* decideApproval by the required authority: the first decision stands.
Decide(c) ==
  /\ approval[c] = "pending"
  /\ \E d \in {"approved", "rejected"} : approval' = [approval EXCEPT ![c] = d]
  /\ UNCHANGED <<run, saved, tool, local>>

-----------------------------------------------------------------------------
(* executeRun, cut at its awaits and at its writes.                        *)

Start(p) ==
  /\ local[p].step = "start"
  /\ CASE run.state # "running" -> Throw(p) /\ UNCHANGED run
       [] run.state = "running" /\ run.cancel -> Settle(p, run.version, "cancelled")
       [] OTHER -> /\ local' = [local EXCEPT ![p].step = "resolve", ![p].seen = run.version,
                                             ![p].as = run.claimedBy]
                   /\ UNCHANGED run
  /\ UNCHANGED <<approval, saved, tool>>

\* The context and the authority answer; the row that was read then must still
\* be the row.  Claims beyond the budget end here.
Refuse(p) ==
  /\ local[p].step = "resolve"
  /\ Settle(p, local[p].seen, "failed_safely")
  /\ UNCHANGED <<approval, saved, tool>>

Begin(p) ==
  /\ local[p].step = "resolve" /\ run.claims <= MaxAttempts
  /\ local' = [local EXCEPT ![p].step = "execute", ![p].seen = 0, ![p].input = Latest,
                            ![p].decided = approval, ![p].aborted = Abort(local[p].as)]
  /\ run' = Touched(local[p].as)
  /\ UNCHANGED <<approval, saved, tool>>

\* The heartbeat's timer, while the executor runs.
Beat(p) ==
  /\ local[p].step \in {"execute", "tool", "write", "written", "think"}
  /\ local[p].aborted = "no" \/ Abort(local[p].as) = "lost"
  /\ local' = [local EXCEPT ![p].aborted = IF @ = "lost" THEN @ ELSE Abort(local[p].as)]
  /\ run' = Touched(local[p].as)
  /\ UNCHANGED <<approval, saved, tool>>

NothingDecided(p) == \A c \in ToolCall : local[p].decided[c] \in Undecided

\* execute from the latest checkpoint: an interrupted call needs its decision,
\* and is asked for again when there is no decision at all.
Execute(p) ==
  /\ local[p].step = "execute"
  /\ LET at == local[p].input IN
     CASE at \in ToolCall /\ NothingDecided(p) ->
            Running(p, "accept", at)
       [] at \in ToolCall /\ ~NothingDecided(p) /\ local[p].decided[at] \in Undecided -> Throw(p)
       [] at \in ToolCall /\ local[p].decided[at] = "approved" ->
            Running(p, "tool", at)
       [] at \in ToolCall /\ local[p].decided[at] = "rejected" -> Running(p, "think", Nil)
       [] at = "done" -> Running(p, "accept", at)
       [] at = Nil -> Running(p, "think", Nil)
  /\ UNCHANGED <<rows, tool>>

Recorded(c) == ledger[c] # "none"

\* begin of the operation ledger: a completed call is answered from it, one of
\* uncertain completion is refused, and both go back to the model.
BeginOperation(p) ==
  /\ local[p].step = "tool"
  /\ LET c == local[p].ask IN
     IF Recorded(c) THEN Running(p, "think", Nil) /\ UNCHANGED ledger
     ELSE ledger' = [ledger EXCEPT ![c] = "intent"] /\ Goto(p, "write")
  /\ UNCHANGED <<rows, issued, writes>>

RunOperation(p) ==
  /\ local[p].step = "write"
  /\ writes' = [writes EXCEPT ![local[p].ask] = @ + 1] /\ Goto(p, "written")
  /\ UNCHANGED <<rows, issued, ledger>>

\* The result passes its checks and is recorded, or the call's error goes back to
\* the model and the intent stays.
EndOperation(p) ==
  /\ local[p].step = "written" /\ Running(p, "think", Nil)
  /\ \/ ledger' = [ledger EXCEPT ![local[p].ask] = "completed"]
     \/ UNCHANGED ledger
  /\ UNCHANGED <<rows, issued, writes>>

\* The model makes another call, which interrupts it, or ends.
Think(p) ==
  /\ local[p].step = "think"
  /\ \/ \E c \in ToolCall \ issued :
          /\ issued' = issued \cup {c}
          /\ Running(p, "accept", c)
     \/ Running(p, "accept", "done") /\ UNCHANGED issued
  /\ UNCHANGED <<rows, ledger, writes>>

\* Governance cannot be asked, the provider fails, a signal aborts it, a tool or
\* the evidence throws.
Fail(p) ==
  /\ local[p].step \in {"resolve", "execute", "think", "conclude"}
  /\ Throw(p)
  /\ UNCHANGED <<rows, tool>>

SaveCheckpoint(state) ==
  saved' = IF state \in Range(saved) THEN saved ELSE Append(saved, state)

\* The executor returned: the heartbeat proves the run is still this worker's, the
\* checkpoint and the usage are written, and the usage may exceed the budget.
Accept(p) ==
  /\ local[p].step = "accept"
  /\ LET aborted == IF local[p].aborted = "no" THEN Abort(local[p].as) ELSE local[p].aborted IN
     CASE aborted = "lost" \/ ~Owned(local[p].as) -> Throw(p) /\ UNCHANGED <<run, saved>>
       [] aborted = "cancel" /\ Owned(local[p].as) ->
            Settle(p, run.version, "cancelled") /\ UNCHANGED saved
       [] OTHER -> /\ SaveCheckpoint(local[p].ask)
                   /\ \/ Settle(p, run.version, "failed_safely")
                      \/ run' = Touched(local[p].as) /\ Forgetting(p, "verify", local[p].ask)
  /\ UNCHANGED <<approval, tool>>

\* Freshness and authority are asked again; the row is read again after them,
\* whoever holds it by now.
Verify(p) ==
  /\ local[p].step = "verify"
  /\ \/ Settle(p, run.version, "failed_safely")
     \/ Goto(p, "conclude") /\ UNCHANGED run
  /\ UNCHANGED <<approval, saved, tool>>

Requested(c) == [approval EXCEPT ![c] = IF @ = "none" THEN "pending" ELSE @]

\* The row is read once more, and the outcome decides where the run goes.
Conclude(p) ==
  /\ local[p].step = "conclude"
  /\ \/ run.cancel /\ Settle(p, run.version, "cancelled") /\ UNCHANGED approval
     \/ /\ ~run.cancel /\ local[p].ask \in ToolCall
        /\ approval' = Requested(local[p].ask)
        /\ local' = [local EXCEPT ![p].step = "suspend", ![p].seen = run.version]
        /\ UNCHANGED run
     \/ /\ ~run.cancel /\ local[p].ask = "done" /\ UNCHANGED approval
        /\ \/ Settle(p, run.version, "waiting_dependency")
           \/ Settle(p, run.version, "failed_safely")
           \/ ~run.controlled /\ Settle(p, run.version, "succeeded")
           \/ /\ run.controlled /\ canTransition(run.state, "reviewing")
              /\ run' = Moved("reviewing")
              /\ local' = [local EXCEPT ![p].step = "review", ![p].seen = run.version + 1]
           \/ /\ run.controlled /\ ~canTransition(run.state, "reviewing")
              /\ Throw(p) /\ UNCHANGED run
  /\ UNCHANGED <<saved, tool>>

Suspend(p) ==
  /\ local[p].step = "suspend" /\ Settle(p, local[p].seen, "waiting_approval")
  /\ UNCHANGED <<approval, saved, tool>>

Review(p) ==
  /\ local[p].step = "review" /\ Settle(p, local[p].seen, "succeeded")
  /\ UNCHANGED <<approval, saved, tool>>

\* processOne's catch settles an active run, its own or not.
Catch(p) ==
  /\ local[p].step = "catch" /\ Leave(p)
  /\ run' = CASE run.state \in Active /\ run.cancel -> Moved("cancelled")
              [] run.state \in Active /\ ~run.cancel -> Moved("failed_safely")
              [] OTHER -> run
  /\ UNCHANGED <<approval, saved, tool>>

Crash(p) ==
  /\ local[p].step # "off" /\ Leave(p)
  /\ UNCHANGED <<rows, tool>>

Executes(p) ==
  \/ Start(p) \/ Refuse(p) \/ Begin(p) \/ Beat(p) \/ Execute(p)
  \/ BeginOperation(p) \/ RunOperation(p) \/ EndOperation(p) \/ Think(p) \/ Fail(p)
  \/ Accept(p) \/ Verify(p) \/ Conclude(p) \/ Suspend(p) \/ Review(p) \/ Catch(p)

Next ==
  \/ FallSilent \/ RequestCancellation \/ \E c \in ToolCall : Decide(c)
  \/ \E p \in Process : Claim(p) \/ Reconcile(p) \/ Resume(p) \/ Executes(p) \/ Crash(p)

Spec == Init /\ [][Next]_vars

(***************************************************************************)
(* Properties.                                                             *)
(***************************************************************************)

\* docs/operations.md: an operation of uncertain completion is stopped rather than
\* replayed.  A call is run once however many processes resume it, and only when
\* it was approved.
ApprovedRunsOnce ==
  \A c \in ToolCall : writes[c] <= 1 /\ (writes[c] = 1 => approval[c] = "approved")

\* Once cancellation is requested the run is never queued again and never
\* succeeds, whoever holds it; what ended stays as it ended.
CancelledNeverResumes ==
  [][/\ run.cancel => run'.state \in {run.state, "cancelled", "failed_safely"}
     /\ run.state \in terminalStates => run'.state = run.state]_run

=============================================================================
