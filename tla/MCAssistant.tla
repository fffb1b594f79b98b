----------------------------- MODULE MCAssistant -----------------------------
(***************************************************************************)
(* Small instances of the parts of the AI plane that decide whether and    *)
(* under which authority a turn is answered: the graph runtime behind the  *)
(* resume gate, the execution of turns, the classifier's binding and the   *)
(* assistant's release authority; and the runs of the agent runtime, which *)
(* pass a gate of their own; and what an answer is generated with: the     *)
(* calls of the model mesh and the meshes a process keeps.  They share no  *)
(* state: a behaviour takes one of them up and leaves the others where     *)
(* they began.                                                             *)
(***************************************************************************)
EXTENDS Naturals, FiniteSets, TLC

CONSTANTS
  Component,   \* the parts this run takes up
  Call,        \* calls of the graph
  Process,     \* requests to execute a turn, workers of a run, calls of the mesh
  Activation, First, Binding, EventRef, Writer, Turn, Resolver, Safe,
  ToolCall, Turning, Envelope,
  Nil,
  \* Fences, ticks and the ticks a call has, of the graph and of the execution.
  MaxFence, GraphTicks, GraphBudget, TurnTicks, TurnBudget,
  \* The binding's windows; the pins, leases and revisions of the releases.
  BindingTicks, WindowOf, AuthorityTicks, PriorOf, LeaseTime, MaxRevision,
  \* The agent's row; the deployments of the mesh and what its calls may cost.
  MaxVersion, MaxAttempts, Routes, CostOf, MaxCost, Threshold, Permits, Limit

VARIABLES
  component,
  graphGate, graphClock, graphCall, claimed,
  gate, fence, turnClock, call, granted, cancelled,
  state, revision, events, trusted, resolver, bindingClock,
  history, pointer, outbox, tx, trust, turn, lease, clock,
  run, approval, saved, issued, ledger, writes, local,
  circuit, permits, request,
  cache, leases, meshTurn, closed

graphVars == <<graphGate, graphClock, graphCall, claimed>>
executionVars == <<gate, fence, turnClock, call, granted, cancelled>>
bindingVars == <<state, revision, events, trusted, resolver, bindingClock>>
authorityVars == <<history, pointer, outbox, tx, trust, turn, lease, clock>>
agentVars == <<run, approval, saved, issued, ledger, writes, local>>
meshVars == <<circuit, permits, request>>
cacheVars == <<cache, leases, meshTurn, closed>>

Graph == INSTANCE ConversationGraphRuntime WITH
  gate <- graphGate, clock <- graphClock, call <- graphCall,
  MaxClock <- GraphTicks, TurnBudget <- GraphBudget

Execution == INSTANCE TurnExecution WITH
  clock <- turnClock, Call <- Process, MaxClock <- TurnTicks

\* The windows overlap in part: a replacement may not be effective yet, or the
\* row it replaces may have lapsed.
MCWindowOf == [b \in Binding |-> CASE b = 1 -> [from |-> 0, to |-> 2]
                                   [] b = 2 -> [from |-> 1, to |-> 3]
                                   [] OTHER -> [from |-> 0, to |-> 3]]
Classifier == INSTANCE ClassifierBinding WITH
  history <- events, clock <- bindingClock, MaxClock <- BindingTicks

\* The first activation falls back to the static safe release, the other to it.
MCPriorOf == [a \in Activation |-> IF a = First THEN Nil ELSE First]
Authority == INSTANCE ReleaseAuthority WITH MaxClock <- AuthorityTicks

Agent == INSTANCE AgentRun

\* A mesh of two deployments, each opened by one failure and with room for one
\* call; a call may cost what two attempts reserve; one mesh is kept.
MCCostOf == [r \in 1..Routes |-> 1]
Mesh == INSTANCE ModelMesh WITH
  Call <- Process, Turn <- Turning, turn <- meshTurn

Init ==
  /\ component \in Component
  /\ Graph!Init /\ Execution!Init /\ Classifier!Init /\ Authority!Init
  /\ Agent!Init /\ (component = "agent" \/ run.controlled)
  /\ Mesh!CallsInit /\ Mesh!CacheInit

Next ==
  /\ UNCHANGED component
  /\ \/ /\ component = "graph" /\ Graph!Next
        /\ UNCHANGED <<executionVars, bindingVars, authorityVars, agentVars, meshVars, cacheVars>>
     \/ /\ component = "execution" /\ Execution!Next
        /\ UNCHANGED <<graphVars, bindingVars, authorityVars, agentVars, meshVars, cacheVars>>
     \/ /\ component = "classifier" /\ Classifier!Next
        /\ UNCHANGED <<graphVars, executionVars, authorityVars, agentVars, meshVars, cacheVars>>
     \/ /\ component = "authority" /\ Authority!Next
        /\ UNCHANGED <<graphVars, executionVars, bindingVars, agentVars, meshVars, cacheVars>>
     \/ /\ component = "agent" /\ Agent!Next
        /\ UNCHANGED <<graphVars, executionVars, bindingVars, authorityVars, meshVars, cacheVars>>
     \/ /\ component = "mesh" /\ Mesh!CallsNext
        /\ UNCHANGED <<graphVars, executionVars, bindingVars, authorityVars, agentVars,
                       cacheVars>>
     \/ /\ component = "cache" /\ Mesh!CacheNext
        /\ UNCHANGED <<graphVars, executionVars, bindingVars, authorityVars, agentVars,
                       meshVars>>

vars == <<component, graphVars, executionVars, bindingVars, authorityVars, agentVars,
          meshVars, cacheVars>>

Spec == Init /\ [][Next]_vars

Interchangeable == Permutations(Call) \cup Permutations(Process)

(***************************************************************************)
(* What the proofs ask of the constants: bounds that are numbers, finitely *)
(* many calls, and a null that is nothing else.                            *)
(***************************************************************************)
GraphConstants == Nil \notin Call /\ {MaxFence, GraphTicks, GraphBudget} \subseteq Nat
ExecutionConstants ==
  /\ Nil \notin Process /\ IsFiniteSet(Process)
  /\ {MaxFence, TurnTicks, TurnBudget} \subseteq Nat
BindingConstants == BindingTicks \in Nat
AuthorityConstants ==
  /\ {LeaseTime, MaxRevision, AuthorityTicks} \subseteq Nat
  /\ Nil \notin Activation \cup Authority!Leases /\ Safe \notin Activation
  /\ PriorOf \in [Activation -> Activation \cup {Nil}]
AgentConstants ==
  /\ MaxVersion \in Nat
  /\ Nil \notin Process \cup ToolCall \cup {"done"} /\ "done" \notin ToolCall
MeshConstants ==
  /\ IsFiniteSet(Process)
  /\ {Routes, MaxCost, MaxAttempts, Threshold, Permits} \subseteq Nat
  /\ CostOf \in [1..Routes -> Nat]
CacheConstants == Nil \notin Envelope /\ IsFiniteSet(Turning) /\ Limit \in Nat
ASSUME AssistantAssumption ==
  /\ GraphConstants /\ ExecutionConstants /\ BindingConstants /\ AuthorityConstants
  /\ AgentConstants /\ MeshConstants /\ CacheConstants

-----------------------------------------------------------------------------
(* Properties.                                                             *)

\* The rows of the part at work keep their types.
TypeOK ==
  /\ component = "graph" => Graph!TypeOK
  /\ component = "execution" => Execution!TypeOK
  /\ component = "classifier" => Classifier!TypeOK
  /\ component = "authority" => Authority!TypeOK
  /\ component = "agent" => Agent!TypeOK
  /\ component = "mesh" => Mesh!CallsTypeOK
  /\ component = "cache" => Mesh!CacheTypeOK

\* Whatever is resent or cut off, the graph runs one start of a turn, its
\* checkpoint is consumed once, and what a caller was given is what the gate
\* recorded; an agent's writing call runs once, and only when approved; and no call
\* of the mesh passes a deployment's breaker or bulkhead that should have held it,
\* or is kept from a deployment by a probe nobody runs.
GatePassedOnce ==
  /\ component = "graph" =>
       Graph!OneStartRuns /\ Graph!CheckpointConsumedOnce /\ Graph!ReturnedIsRecorded
  /\ component = "agent" => Agent!ApprovedRunsOnce
  /\ component = "mesh" => Mesh!NoStrandedProbe /\ Mesh!ConcurrencyBounded

\* A turn is answered at most once, and its fence says cancelled exactly when a
\* cancellation of it was acknowledged; an answer is paid for within
\* the call's budget, by a mesh that stays open until its turn is done.
AnsweredOrCancelled ==
  /\ component = "execution" =>
       Execution!AnsweredAtMostOnce /\ Execution!CancelledAsAcknowledged
  /\ component = "mesh" => Mesh!CostIsCovered
  /\ component = "cache" => Mesh!TurnKeepsMesh /\ Mesh!CacheBounded

\* What is over stays over: an expired gate, the work on a cancelled turn, whose
\* results pass no check any more, a retired binding, a run of an agent that is
\* cancelled or has ended.
OverStaysOver ==
  /\ Graph!ExpiredIsFinal /\ Execution!CancelledStopsWorkers
  /\ Classifier!RetiredStaysRetired /\ Agent!CancelledNeverResumes

\* Replacing a classifier binding leaves no gap.
CutoverIsAtomic == Classifier!CutoverIsAtomic

\* Committed pointer, history and outbox never tell different stories, a live
\* commit lease holds the pointer where it found it, and every classifier binding
\* that is no longer active has the one event that retired it.
AuthorityConsistent ==
  /\ component = "authority" =>
       /\ Authority!PointerFollowsHistory /\ Authority!LeaseHoldsPointer
       /\ Authority!RollbackAlwaysReady
  /\ component = "classifier" => Classifier!HistoryExplainsRetirement

\* An answered turn was resolved, run and answered under one revision.
AnsweredUnderItsRelease == Authority!AnsweredUnderItsRelease

\* docs/work/items/VFBIZ-0189.md:49-52: superseded rows are retained and their
\* effective replacement is the usable binding, so no read fails because of
\* them.  The store's query matches both.
ReplacementIsResolved == Classifier!ReplacementIsResolved

\* app/api/internal_v1/conversation_router.py:71: a turn answered as stale "was
\* superseded".  A turn whose execution fence has no row yet is told so too.
StaleMeansSuperseded == Execution!StaleMeansSuperseded

\* docs/conversation-graph.md:180: cancellation is checked before routing.  What
\* the supervisor answers itself is not kept back by an acknowledged cancellation.
CancelledNotAnswered == Execution!CancelledNotAnswered

\* docs/inference-serving.md:63-64: "exactly one half-open probe may run after
\* recovery".
ProbesAlone == component = "mesh" => Mesh!ProbesAlone

=============================================================================
