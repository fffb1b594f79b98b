--------------------------- MODULE AssistantProofs ---------------------------
(***************************************************************************)
(* Proofs about the parts of the AI plane that MCAssistant puts side by    *)
(* side: the graph behind its resume gate, the execution of turns, the     *)
(* classifier's binding, the runs of the agent, the calls and the cache of *)
(* the model mesh, and the release authority.  Each part has an inductive  *)
(* invariant of its own; the last section carries them to the whole.       *)
(***************************************************************************)
EXTENDS MCAssistant, FiniteSetTheorems, SequenceTheorems, TLAPS

-----------------------------------------------------------------------------
(* The resume gate and the calls that start and resume the graph.          *)

GraphRow ==
  {Graph!New} \cup [pc : Graph!Pc, fence : 1..MaxFence, deadline : Nat, succeeded : BOOLEAN]
\* The calls between a reservation and the end of the graph's first run.
Started == {"running", "closing", "preparing"}
\* Whoever still runs in time holds the reservation, and the gate has its deadline.
RunnersHoldGate ==
  \A c \in Call :
    graphCall[c].pc \in Started /\ Graph!InTime(c) =>
      Graph!HoldsReservation(graphGate, c) /\ graphGate.deadline = graphCall[c].deadline
\* A checkpoint that was claimed is claimed still, or what became of it is final.
ClaimedForGood ==
  claimed # {} => graphGate.state \in {"claimed"} \cup Graph!TerminalState
GraphInv ==
  /\ Graph!TypeOK /\ graphCall \in [Call -> GraphRow]
  /\ RunnersHoldGate /\ ClaimedForGood
  /\ Graph!CheckpointConsumedOnce /\ Graph!ReturnedIsRecorded

LEMMA GraphInit == ASSUME GraphConstants, Graph!Init PROVE GraphInv
BY DEF GraphConstants, Graph!Init, GraphInv, Graph!TypeOK, GraphRow, RunnersHoldGate, Started,
       ClaimedForGood, Graph!CheckpointConsumedOnce, Graph!ReturnedIsRecorded, Graph!At,
       Graph!NoGate, Graph!Gate, Graph!New, Graph!AbandonedState, Graph!TerminalState

\* A step of one call changes its own row, to one that has the type.
LEMMA GraphRowsKept ==
  ASSUME GraphInv, NEW c \in Call, NEW x \in GraphRow, graphCall' = [graphCall EXCEPT ![c] = x]
  PROVE  /\ graphCall' \in [Call -> GraphRow] /\ graphCall'[c] = x
         /\ \A d \in Call : d # c => graphCall'[d] = graphCall[d]
         /\ \A d \in Call :
              \/ graphCall'[d] = Graph!New
              \/ graphCall'[d] \in [pc : Graph!Pc, fence : 1..MaxFence, deadline : Nat,
                                    succeeded : BOOLEAN]
BY DEF GraphInv, GraphRow

LEMMA GraphGoto ==
  ASSUME GraphInv, NEW c \in Call, NEW s \in Graph!Pc, ~Graph!At(c, "new"), Graph!Goto(c, s)
  PROVE  \E x \in GraphRow :
           /\ graphCall' = [graphCall EXCEPT ![c] = x]
           /\ x.pc = s /\ x.deadline = graphCall[c].deadline
<1> DEFINE x == [graphCall[c] EXCEPT !.pc = s]
<1>1. graphCall[c] \in GraphRow
  BY DEF GraphInv
<1>2. x \in GraphRow /\ x.pc = s /\ x.deadline = graphCall[c].deadline
  BY <1>1 DEF GraphRow, Graph!At, Graph!New
<1>3. graphCall' = [graphCall EXCEPT ![c] = x]
  BY DEF Graph!Goto
<1> QED BY <1>2, <1>3

\* The steps that leave the gate alone, of a call that does not begin to run.
LEMMA GraphQuiet ==
  ASSUME GraphConstants, GraphInv, NEW c \in Call, NEW x \in GraphRow,
         graphCall' = [graphCall EXCEPT ![c] = x], UNCHANGED <<graphGate, graphClock, claimed>>,
         x.pc \in Started => graphCall[c].pc \in Started /\ x.deadline = graphCall[c].deadline,
         x.pc # "returned"
  PROVE  GraphInv'
<1>1. /\ graphCall' \in [Call -> GraphRow] /\ graphCall'[c] = x
      /\ \A d \in Call : d # c => graphCall'[d] = graphCall[d]
      /\ Graph!TypeOK'
  BY GraphRowsKept DEF GraphInv, Graph!TypeOK
<1>2. RunnersHoldGate'
  BY <1>1 DEF GraphInv, RunnersHoldGate, Graph!InTime, Graph!HoldsReservation
<1>3. ClaimedForGood' /\ Graph!CheckpointConsumedOnce' /\ Graph!ReturnedIsRecorded'
  BY <1>1 DEF GraphInv, ClaimedForGood, Graph!CheckpointConsumedOnce, Graph!ReturnedIsRecorded,
              Graph!At
<1> QED BY <1>1, <1>2, <1>3 DEF GraphInv

\* The steps that close the gate, for good.
LEMMA GraphCloses ==
  ASSUME GraphConstants, GraphInv, NEW c \in Call, NEW x \in GraphRow, NEW g \in Graph!Gate,
         graphCall' = [graphCall EXCEPT ![c] = x], UNCHANGED <<graphClock, claimed>>,
         graphGate' = g, g.state \in Graph!TerminalState, x.pc \notin Started,
         graphGate.state = "reserved" => graphGate.reservation = c
  PROVE  GraphInv'
<1>1. /\ graphCall' \in [Call -> GraphRow] /\ graphCall'[c] = x
      /\ \A d \in Call : d # c => graphCall'[d] = graphCall[d]
      /\ Graph!TypeOK'
  BY GraphRowsKept DEF GraphInv, Graph!TypeOK
<1>2. RunnersHoldGate'
  BY <1>1 DEF GraphInv, RunnersHoldGate, Graph!InTime, Graph!HoldsReservation
<1>3. ClaimedForGood' /\ Graph!CheckpointConsumedOnce' /\ Graph!ReturnedIsRecorded'
  BY <1>1 DEF GraphInv, ClaimedForGood, Graph!CheckpointConsumedOnce, Graph!ReturnedIsRecorded,
              Graph!At
<1> QED BY <1>1, <1>2, <1>3 DEF GraphInv

LEMMA GraphStartStep ==
  ASSUME GraphConstants, GraphInv, NEW c \in Call, Graph!Start(c)
  PROVE  GraphInv'
<1>g. graphGate \in Graph!Gate /\ graphClock \in Nat /\ graphCall[c] \in GraphRow
  BY DEF GraphInv, Graph!TypeOK, GraphConstants
<1>1. CASE Graph!BeginStart(c)
  <2>1. PICK f \in 1..MaxFence :
          Graph!CallWith(c, "reserving", f, graphClock + GraphBudget)
    BY <1>1 DEF Graph!BeginStart
  <2> DEFINE x == [pc |-> "reserving", fence |-> f, deadline |-> graphClock + GraphBudget,
                   succeeded |-> FALSE]
  <2>2. x \in GraphRow
    BY <1>g DEF GraphRow, Graph!Pc, GraphConstants
  <2>3. graphCall' = [graphCall EXCEPT ![c] = x] /\ UNCHANGED <<graphGate, graphClock, claimed>>
    BY <1>1, <2>1 DEF Graph!BeginStart, Graph!CallWith
  <2> QED BY <2>2, <2>3, GraphQuiet DEF Started
<1>2. CASE Graph!ReserveStart(c)
  <2>1. PICK s \in {"running", "rejected"} : Graph!Goto(c, s)
    BY <1>2 DEF Graph!ReserveStart
  <2>2. PICK x \in GraphRow : /\ graphCall' = [graphCall EXCEPT ![c] = x]
                              /\ x.pc = s /\ x.deadline = graphCall[c].deadline
    BY <1>2, <2>1, GraphGoto DEF Graph!ReserveStart, Graph!At, Graph!Pc
  <2>3. CASE ~(Graph!CanReserve(graphGate, graphCall[c].fence, graphClock) /\ Graph!InTime(c))
    <3>1. Graph!Goto(c, "rejected") /\ UNCHANGED <<graphGate, graphClock, claimed>>
      BY <1>2, <2>3 DEF Graph!ReserveStart
    <3>2. PICK y \in GraphRow : /\ graphCall' = [graphCall EXCEPT ![c] = y]
                                /\ y.pc = "rejected" /\ y.deadline = graphCall[c].deadline
      BY <1>2, <3>1, GraphGoto DEF Graph!ReserveStart, Graph!At, Graph!Pc
    <3> QED BY <3>1, <3>2, GraphQuiet DEF Started
  <2>4. CASE Graph!CanReserve(graphGate, graphCall[c].fence, graphClock) /\ Graph!InTime(c)
    <3>1. /\ graphGate' = Graph!Reserve(c, graphCall[c].fence, graphCall[c].deadline)
          /\ UNCHANGED <<graphClock, claimed>>
      BY <1>2, <2>4 DEF Graph!ReserveStart
    <3>2. graphCall[c] # Graph!New
      BY <1>2 DEF Graph!ReserveStart, Graph!At, Graph!New
    <3>3. graphGate' \in Graph!Gate
      BY <1>g, <3>1, <3>2 DEF Graph!Reserve, Graph!Gate, Graph!AbandonedState, GraphRow, GraphConstants
    <3>4. /\ graphCall' \in [Call -> GraphRow] /\ graphCall'[c] = x
          /\ \A d \in Call : d # c => graphCall'[d] = graphCall[d]
          /\ Graph!TypeOK'
      BY <2>2, <3>1, <3>3, GraphRowsKept DEF GraphInv, Graph!TypeOK
    <3>5. RunnersHoldGate'
      BY <1>g, <2>2, <2>4, <3>1, <3>4
      DEF GraphInv, RunnersHoldGate, Graph!InTime, Graph!HoldsReservation, Graph!CanReserve,
          Graph!Reserve, Graph!Gate
    <3>6. claimed = {} /\ \A d \in Call : ~Graph!At(d, "returned")
      BY <2>4 DEF GraphInv, ClaimedForGood, Graph!CanReserve, Graph!TerminalState,
                  Graph!ReturnedIsRecorded
    <3>7. ClaimedForGood' /\ Graph!CheckpointConsumedOnce' /\ Graph!ReturnedIsRecorded'
      BY <2>2, <3>1, <3>4, <3>6
      DEF ClaimedForGood, Graph!CheckpointConsumedOnce, Graph!ReturnedIsRecorded, Graph!At
    <3> QED BY <3>4, <3>5, <3>7 DEF GraphInv
  <2> QED BY <2>3, <2>4
<1>3. CASE Graph!GraphEnds(c) \/ Graph!GraphFails(c)
  <2>1. PICK s \in {"closing", "preparing", "failing"} : Graph!Goto(c, s)
    BY <1>3 DEF Graph!GraphEnds, Graph!GraphFails
  <2>2. PICK x \in GraphRow : /\ graphCall' = [graphCall EXCEPT ![c] = x]
                              /\ x.pc = s /\ x.deadline = graphCall[c].deadline
    BY <1>3, <2>1, GraphGoto DEF Graph!GraphEnds, Graph!GraphFails, Graph!At, Graph!Pc
  <2> QED BY <1>3, <2>2, GraphQuiet DEF Graph!GraphEnds, Graph!GraphFails, Graph!At, Started
<1>4. CASE Graph!CloseSucceeded(c) \/ Graph!CloseFailed(c)
  <2>0. ~Graph!At(c, "new")
    BY <1>4 DEF Graph!CloseSucceeded, Graph!CloseFailed, Graph!At
  <2>1. PICK s \in {"returned", "failing", "raised"} : Graph!Goto(c, s)
    BY <1>4 DEF Graph!CloseSucceeded, Graph!CloseFailed
  <2>2. PICK x \in GraphRow : /\ graphCall' = [graphCall EXCEPT ![c] = x]
                              /\ x.pc = s /\ x.deadline = graphCall[c].deadline
    BY <2>0, <2>1, GraphGoto DEF Graph!Pc
  <2>3. CASE Graph!HoldsReservation(graphGate, c)
    <3>1. PICK done \in BOOLEAN : graphGate' = Graph!CloseStart(graphGate, done)
      BY <1>4, <2>3 DEF Graph!CloseSucceeded, Graph!CloseFailed
    <3>2. graphGate' \in Graph!Gate /\ graphGate'.state \in Graph!TerminalState
      BY <1>g, <3>1 DEF Graph!CloseStart, Graph!Gate, Graph!TerminalState
    <3>3. UNCHANGED <<graphClock, claimed>>
      BY <1>4 DEF Graph!CloseSucceeded, Graph!CloseFailed
    <3> QED BY <2>2, <2>3, <3>2, <3>3, GraphCloses DEF Started, Graph!HoldsReservation
  <2>4. CASE ~Graph!HoldsReservation(graphGate, c)
    <3>1. PICK t \in {"failing", "raised"} : Graph!Goto(c, t)
      BY <1>4, <2>4 DEF Graph!CloseSucceeded, Graph!CloseFailed
    <3>2. PICK y \in GraphRow : /\ graphCall' = [graphCall EXCEPT ![c] = y]
                                /\ y.pc = t /\ y.deadline = graphCall[c].deadline
      BY <2>0, <3>1, GraphGoto DEF Graph!Pc
    <3>3. UNCHANGED <<graphGate, graphClock, claimed>>
      BY <1>4, <2>4 DEF Graph!CloseSucceeded, Graph!CloseFailed
    <3> QED BY <3>2, <3>3, GraphQuiet DEF Started
  <2> QED BY <2>3, <2>4
<1>5. CASE Graph!PrepareInterrupt(c)
  <2>1. PICK s \in {"interrupted", "failing"} : Graph!Goto(c, s)
    BY <1>5 DEF Graph!PrepareInterrupt
  <2>2. PICK x \in GraphRow : /\ graphCall' = [graphCall EXCEPT ![c] = x]
                              /\ x.pc = s /\ x.deadline = graphCall[c].deadline
    BY <1>5, <2>1, GraphGoto DEF Graph!PrepareInterrupt, Graph!At, Graph!Pc
  <2>3. CASE ~Graph!CanPrepare(graphGate, c, graphClock)
    BY <1>5, <2>2, <2>3, GraphQuiet DEF Graph!PrepareInterrupt, Started
  <2>4. CASE Graph!CanPrepare(graphGate, c, graphClock)
    <3>1. graphGate' = Graph!Prepare(graphGate) /\ UNCHANGED <<graphClock, claimed>>
      BY <1>5, <2>4 DEF Graph!PrepareInterrupt
    <3>2. graphGate' \in Graph!Gate /\ graphGate'.state = "waiting"
      BY <1>g, <3>1 DEF Graph!Prepare, Graph!Gate, Graph!AbandonedState
    <3>3. graphGate.state = "reserved" /\ graphGate.reservation = c
      BY <2>4 DEF Graph!CanPrepare, Graph!HoldsReservation
    <3>4. /\ graphCall' \in [Call -> GraphRow] /\ graphCall'[c] = x
          /\ \A d \in Call : d # c => graphCall'[d] = graphCall[d]
          /\ Graph!TypeOK'
      BY <2>2, <3>1, <3>2, GraphRowsKept DEF GraphInv, Graph!TypeOK
    <3>5. RunnersHoldGate'
      BY <2>2, <3>1, <3>3, <3>4 DEF GraphInv, RunnersHoldGate, Graph!InTime,
                                    Graph!HoldsReservation, Started
    <3>6. claimed = {} /\ \A d \in Call : ~Graph!At(d, "returned")
      BY <3>3 DEF GraphInv, ClaimedForGood, Graph!TerminalState, Graph!ReturnedIsRecorded
    <3>7. ClaimedForGood' /\ Graph!CheckpointConsumedOnce' /\ Graph!ReturnedIsRecorded'
      BY <2>2, <3>1, <3>4, <3>6
      DEF ClaimedForGood, Graph!CheckpointConsumedOnce, Graph!ReturnedIsRecorded, Graph!At
    <3> QED BY <3>4, <3>5, <3>7 DEF GraphInv
  <2> QED BY <2>3, <2>4
<1> QED BY <1>1, <1>2, <1>3, <1>4, <1>5 DEF Graph!Start

LEMMA GraphResumeStep ==
  ASSUME GraphConstants, GraphInv, NEW c \in Call, Graph!Resume(c)
  PROVE  GraphInv'
<1>g. graphGate \in Graph!Gate /\ graphClock \in Nat /\ graphCall[c] \in GraphRow
  BY DEF GraphInv, Graph!TypeOK, GraphConstants
<1>1. CASE Graph!BeginResume(c)
  <2>1. PICK f \in 1..MaxFence :
          Graph!CallWith(c, "claiming", f, graphClock + GraphBudget)
    BY <1>1 DEF Graph!BeginResume
  <2> DEFINE x == [pc |-> "claiming", fence |-> f, deadline |-> graphClock + GraphBudget,
                   succeeded |-> FALSE]
  <2>2. x \in GraphRow
    BY <1>g DEF GraphRow, Graph!Pc, GraphConstants
  <2>3. graphCall' = [graphCall EXCEPT ![c] = x] /\ UNCHANGED <<graphGate, graphClock, claimed>>
    BY <1>1, <2>1 DEF Graph!BeginResume, Graph!CallWith
  <2> QED BY <2>2, <2>3, GraphQuiet DEF Started
<1>2. CASE Graph!ClaimCheckpoint(c)
  <2>1. PICK s \in {"checking", "rejected"} : Graph!Goto(c, s)
    BY <1>2 DEF Graph!ClaimCheckpoint
  <2>2. PICK x \in GraphRow : /\ graphCall' = [graphCall EXCEPT ![c] = x]
                              /\ x.pc = s /\ x.deadline = graphCall[c].deadline
    BY <1>2, <2>1, GraphGoto DEF Graph!ClaimCheckpoint, Graph!At, Graph!Pc
  <2>3. CASE ~Graph!CanClaimOnce(graphGate, graphCall[c].fence, graphClock)
    <3>1. graphGate' = Graph!Expire(graphGate, graphClock) /\ UNCHANGED <<graphClock, claimed>>
      BY <1>2, <2>3 DEF Graph!ClaimCheckpoint
    <3>2. CASE graphGate' = graphGate
      BY <2>2, <3>1, <3>2, GraphQuiet DEF Started
    <3>3. CASE graphGate' # graphGate
      <4>1. /\ graphGate.state \in {"waiting", "claimed"}
            /\ graphGate' = [graphGate EXCEPT !.state = "expired"]
        BY <3>1, <3>3 DEF Graph!Expire
      <4>2. graphGate' \in Graph!Gate /\ graphGate'.state \in Graph!TerminalState
        BY <1>g, <4>1 DEF Graph!Gate, Graph!TerminalState
      <4> QED BY <2>2, <3>1, <4>1, <4>2, GraphCloses DEF Started
    <3> QED BY <3>2, <3>3
  <2>4. CASE Graph!CanClaimOnce(graphGate, graphCall[c].fence, graphClock)
    <3>1. /\ graphGate' = Graph!ClaimOnce(graphGate, c) /\ claimed' = claimed \cup {c}
          /\ UNCHANGED graphClock
      BY <1>2, <2>4 DEF Graph!ClaimCheckpoint
    <3>2. graphGate' \in Graph!Gate /\ graphGate'.state = "claimed"
      BY <1>g, <3>1 DEF Graph!ClaimOnce, Graph!Gate, Graph!AbandonedState
    <3>3. graphGate.state = "waiting"
      BY <2>4 DEF Graph!CanClaimOnce
    <3>4. /\ graphCall' \in [Call -> GraphRow] /\ graphCall'[c] = x
          /\ \A d \in Call : d # c => graphCall'[d] = graphCall[d]
          /\ Graph!TypeOK'
      BY <2>2, <3>1, <3>2, GraphRowsKept DEF GraphInv, Graph!TypeOK
    <3>5. RunnersHoldGate'
      BY <2>2, <3>1, <3>3, <3>4 DEF GraphInv, RunnersHoldGate, Graph!InTime,
                                    Graph!HoldsReservation, Started
    <3>6. claimed = {} /\ \A d \in Call : ~Graph!At(d, "returned")
      BY <3>3 DEF GraphInv, ClaimedForGood, Graph!TerminalState, Graph!ReturnedIsRecorded
    <3>7. ClaimedForGood' /\ Graph!CheckpointConsumedOnce' /\ Graph!ReturnedIsRecorded'
      BY <2>2, <3>1, <3>2, <3>4, <3>6
      DEF ClaimedForGood, Graph!CheckpointConsumedOnce, Graph!ReturnedIsRecorded, Graph!At
    <3> QED BY <3>4, <3>5, <3>7 DEF GraphInv
  <2> QED BY <2>3, <2>4
<1>3. CASE Graph!CheckBinding(c)
  <2>1. PICK s \in {"resuming", "finalizing"} : Graph!Goto(c, s)
    BY <1>3 DEF Graph!CheckBinding
  <2>2. PICK x \in GraphRow : /\ graphCall' = [graphCall EXCEPT ![c] = x]
                              /\ x.pc = s /\ x.deadline = graphCall[c].deadline
    BY <1>3, <2>1, GraphGoto DEF Graph!CheckBinding, Graph!At, Graph!Pc
  <2> QED BY <1>3, <2>2, GraphQuiet DEF Graph!CheckBinding, Started
<1>4. CASE Graph!Resumed(c)
  <2>1. CASE Graph!Goto(c, "finalizing")
    <3>1. PICK x \in GraphRow : /\ graphCall' = [graphCall EXCEPT ![c] = x]
                                /\ x.pc = "finalizing" /\ x.deadline = graphCall[c].deadline
      BY <1>4, <2>1, GraphGoto DEF Graph!Resumed, Graph!At, Graph!Pc
    <3> QED BY <1>4, <3>1, GraphQuiet DEF Graph!Resumed, Started
  <2>2. CASE graphCall' = [graphCall EXCEPT ![c].pc = "finalizing", ![c].succeeded = TRUE]
    <3> DEFINE x == [graphCall[c] EXCEPT !.pc = "finalizing", !.succeeded = TRUE]
    <3>1. graphCall[c] # Graph!New
      BY <1>4 DEF Graph!Resumed, Graph!At, Graph!New
    <3>2. x \in GraphRow /\ x.pc = "finalizing"
      BY <1>g, <3>1 DEF GraphRow, Graph!Pc
    <3>3. graphCall' = [graphCall EXCEPT ![c] = x]
      BY <2>2, <1>g DEF GraphInv
    <3> QED BY <1>4, <3>2, <3>3, GraphQuiet DEF Graph!Resumed, Started
  <2> QED BY <1>4, <2>1, <2>2 DEF Graph!Resumed
<1>5. CASE Graph!FinalizeClaim(c)
  <2>1. PICK s \in {"returned", "raised"} : Graph!Goto(c, s)
    BY <1>5 DEF Graph!FinalizeClaim
  <2>2. PICK x \in GraphRow : /\ graphCall' = [graphCall EXCEPT ![c] = x]
                              /\ x.pc = s /\ x.deadline = graphCall[c].deadline
    BY <1>5, <2>1, GraphGoto DEF Graph!FinalizeClaim, Graph!At, Graph!Pc
  <2>3. CASE Graph!HoldsClaim(graphGate, c)
    <3>1. PICK done \in BOOLEAN : graphGate' = Graph!Finalize(graphGate, done)
      <4>1. graphCall[c].succeeded \in BOOLEAN
        <5>1. CASE graphCall[c] = Graph!New
          BY <5>1 DEF Graph!New
        <5>2. CASE graphCall[c] # Graph!New
          BY <1>g, <5>2 DEF GraphRow
        <5> QED BY <5>1, <5>2
      <4> QED BY <1>5, <2>3, <4>1 DEF Graph!FinalizeClaim
    <3>2. graphGate' \in Graph!Gate /\ graphGate'.state \in Graph!TerminalState
      BY <1>g, <3>1 DEF Graph!Finalize, Graph!Gate, Graph!TerminalState
    <3>3. UNCHANGED <<graphClock, claimed>> /\ graphGate.state # "reserved"
      BY <1>5, <2>3 DEF Graph!FinalizeClaim, Graph!HoldsClaim
    <3> QED BY <2>2, <3>2, <3>3, GraphCloses DEF Started
  <2>4. CASE ~Graph!HoldsClaim(graphGate, c)
    <3>1. Graph!Goto(c, "raised") /\ UNCHANGED <<graphGate, graphClock, claimed>>
      BY <1>5, <2>4 DEF Graph!FinalizeClaim
    <3>2. PICK y \in GraphRow : /\ graphCall' = [graphCall EXCEPT ![c] = y]
                                /\ y.pc = "raised" /\ y.deadline = graphCall[c].deadline
      BY <1>5, <3>1, GraphGoto DEF Graph!FinalizeClaim, Graph!At, Graph!Pc
    <3> QED BY <3>1, <3>2, GraphQuiet DEF Started
  <2> QED BY <2>3, <2>4
<1> QED BY <1>1, <1>2, <1>3, <1>4, <1>5 DEF Graph!Resume

LEMMA GraphStep ==
  ASSUME GraphConstants, GraphInv, [Graph!Next]_(Graph!vars)
  PROVE  GraphInv'
<1>g. graphGate \in Graph!Gate /\ graphClock \in Nat
  BY DEF GraphInv, Graph!TypeOK, GraphConstants
<1>1. ASSUME NEW c \in Call, Graph!Crash(c) PROVE GraphInv'
  <2>1. PICK x \in GraphRow : /\ graphCall' = [graphCall EXCEPT ![c] = x]
                              /\ x.pc = "raised" /\ x.deadline = graphCall[c].deadline
    BY <1>1, GraphGoto DEF Graph!Crash, Graph!At, Graph!Pc
  <2> QED BY <1>1, <2>1, GraphQuiet DEF Graph!Crash, Started
<1>2. CASE Graph!SweepAbandoned
  <2>1. /\ graphGate.deadline <= graphClock /\ graphGate' = [graphGate EXCEPT !.state = "expired"]
        /\ UNCHANGED <<graphClock, graphCall, claimed>>
    BY <1>2 DEF Graph!SweepAbandoned, Graph!CanSweep, Graph!Sweep
  <2>2. graphGate' \in Graph!Gate /\ graphGate'.state \in Graph!TerminalState
    BY <1>g, <2>1 DEF Graph!Gate, Graph!TerminalState
  <2>3. Graph!TypeOK' /\ graphCall' \in [Call -> GraphRow]
    BY <2>1, <2>2 DEF GraphInv, Graph!TypeOK
  <2>4. RunnersHoldGate'
    <3>1. \A c \in Call : ~(graphCall[c].pc \in Started /\ Graph!InTime(c))
      BY <1>g, <2>1 DEF GraphInv, RunnersHoldGate, Graph!InTime, Graph!Gate
    <3> QED BY <2>1, <3>1 DEF RunnersHoldGate, Graph!InTime
  <2>5. ClaimedForGood' /\ Graph!CheckpointConsumedOnce' /\ Graph!ReturnedIsRecorded'
    BY <2>1, <2>2
    DEF GraphInv, ClaimedForGood, Graph!CheckpointConsumedOnce, Graph!ReturnedIsRecorded, Graph!At
  <2> QED BY <2>3, <2>4, <2>5 DEF GraphInv
<1>3. CASE Graph!Tick
  <2>1. /\ graphClock < GraphTicks /\ graphClock' = graphClock + 1
        /\ UNCHANGED <<graphGate, graphCall, claimed>>
    BY <1>3 DEF Graph!Tick
  <2>2. Graph!TypeOK' /\ graphCall' \in [Call -> GraphRow]
    BY <1>g, <2>1 DEF GraphInv, Graph!TypeOK, GraphConstants
  <2>3. RunnersHoldGate'
    <3>1. \A c \in Call : graphCall[c].deadline \in Nat
      BY DEF GraphInv, GraphRow, Graph!New
    <3> QED BY <1>g, <2>1, <3>1 DEF GraphInv, RunnersHoldGate, Graph!InTime, Graph!HoldsReservation
  <2>4. ClaimedForGood' /\ Graph!CheckpointConsumedOnce' /\ Graph!ReturnedIsRecorded'
    BY <2>1
    DEF GraphInv, ClaimedForGood, Graph!CheckpointConsumedOnce, Graph!ReturnedIsRecorded, Graph!At
  <2> QED BY <2>2, <2>3, <2>4 DEF GraphInv
<1>4. CASE UNCHANGED Graph!vars
  BY <1>4 DEF Graph!vars, GraphInv, Graph!TypeOK, RunnersHoldGate, Graph!InTime,
     Graph!HoldsReservation, ClaimedForGood, Graph!CheckpointConsumedOnce,
     Graph!ReturnedIsRecorded, Graph!At
<1> QED BY <1>1, <1>2, <1>3, <1>4, GraphStartStep, GraphResumeStep DEF Graph!Next

\* The gate and its calls keep the invariant.
THEOREM GraphInvariance == ASSUME GraphConstants PROVE Graph!Spec => []GraphInv
<1>1. GraphInv /\ [Graph!Next]_(Graph!vars) => GraphInv'
  BY GraphStep
<1> QED BY <1>1, GraphInit, PTL DEF Graph!Spec

\* Two competing starts never run at once.
LEMMA OneStart == GraphInv => Graph!OneStartRuns
BY DEF GraphInv, RunnersHoldGate, Graph!OneStartRuns, Graph!Running, Started,
       Graph!HoldsReservation

\* What expired is never rewritten by a process that comes back late.
LEMMA ExpiredStep ==
  ASSUME GraphConstants, GraphInv, [Graph!Next]_(Graph!vars), graphGate.state = "expired"
  PROVE  graphGate'.state = "expired"
<1>g. graphGate \in Graph!Gate
  BY DEF GraphInv, Graph!TypeOK
<1>1. ASSUME NEW c \in Call, Graph!Start(c) PROVE graphGate' = graphGate
  BY <1>1 DEF Graph!Start, Graph!BeginStart, Graph!ReserveStart, Graph!GraphEnds,
     Graph!GraphFails, Graph!CloseSucceeded, Graph!PrepareInterrupt, Graph!CloseFailed,
     Graph!CanReserve, Graph!HoldsReservation, Graph!CanPrepare
<1>2. ASSUME NEW c \in Call, Graph!Resume(c) PROVE graphGate'.state = "expired"
  BY <1>g, <1>2 DEF Graph!Resume, Graph!BeginResume, Graph!ClaimCheckpoint, Graph!CheckBinding,
     Graph!Resumed, Graph!FinalizeClaim, Graph!CanClaimOnce, Graph!Expire, Graph!HoldsClaim,
     Graph!Finalize, Graph!Gate
<1>3. ASSUME NEW c \in Call, Graph!Crash(c) PROVE graphGate' = graphGate
  BY <1>3 DEF Graph!Crash
<1>4. CASE Graph!SweepAbandoned
  BY <1>4 DEF Graph!SweepAbandoned, Graph!CanSweep, Graph!AbandonedState
<1>5. CASE Graph!Tick \/ UNCHANGED Graph!vars
  BY <1>5 DEF Graph!Tick, Graph!vars
<1> QED BY <1>1, <1>2, <1>3, <1>4, <1>5 DEF Graph!Next

\* Action property of the gate.
THEOREM ExpiredGateStays == ASSUME GraphConstants PROVE Graph!Spec => Graph!ExpiredIsFinal
<1>1. GraphInv /\ [Graph!Next]_(Graph!vars)
        => [graphGate.state = "expired" => graphGate'.state = "expired"]_(Graph!vars)
  BY ExpiredStep
<1> QED BY <1>1, GraphInvariance, PTL DEF Graph!Spec, Graph!ExpiredIsFinal

-----------------------------------------------------------------------------
(* The execution of a turn, between its gate and its fence.                *)

ExecutionRow ==
  {Execution!New} \cup [pc : Execution!Pc, fence : 1..MaxFence, deadline : Nat,
                        tries : 0 .. Execution!MaxWorkerAttempts - 1]
\* Whoever answered closed the gate for good, and there is one of them.
AnswerIsLast ==
  /\ (\E c \in Process : call[c].pc = "answered") => gate.state \in Execution!TerminalState
  /\ \A c, d \in Process : call[c].pc = "answered" /\ call[d].pc = "answered" => c = d
ExecutionInv ==
  /\ Execution!TypeOK /\ call \in [Process -> ExecutionRow] /\ AnswerIsLast
  /\ Execution!CancelledAsAcknowledged

LEMMA ExecutionInit == ASSUME ExecutionConstants, Execution!Init PROVE ExecutionInv
BY DEF ExecutionConstants, Execution!Init, ExecutionInv, Execution!TypeOK, ExecutionRow,
       AnswerIsLast, Execution!CancelledAsAcknowledged, Execution!NoGate, Execution!Gate, Execution!New,
       Execution!Fence, Execution!NoFence

\* A request changes its own row, to one that has the type, and does not answer.
LEMMA ExecutionQuiet ==
  ASSUME ExecutionConstants, ExecutionInv, NEW c \in Process, NEW x \in ExecutionRow,
         call' = [call EXCEPT ![c] = x], UNCHANGED <<turnClock, granted, cancelled>>,
         gate' \in Execution!Gate, fence' \in Execution!Fence,
         gate' = gate \/ gate.state \notin Execution!TerminalState,
         fence'.cancelled = fence.cancelled,
         x.pc # "answered"
  PROVE  ExecutionInv'
<1>1. /\ call' \in [Process -> ExecutionRow] /\ call'[c] = x
      /\ \A d \in Process : d # c => call'[d] = call[d]
      /\ \A d \in Process :
           \/ call'[d] = Execution!New
           \/ call'[d] \in [pc : Execution!Pc, fence : 1..MaxFence, deadline : Nat,
                            tries : 0 .. Execution!MaxWorkerAttempts - 1]
  BY DEF ExecutionInv, ExecutionRow
<1>2. Execution!TypeOK'
  BY <1>1 DEF ExecutionInv, Execution!TypeOK
<1>3. AnswerIsLast' /\ Execution!CancelledAsAcknowledged'
  BY <1>1 DEF ExecutionInv, AnswerIsLast, Execution!CancelledAsAcknowledged
<1> QED BY <1>1, <1>2, <1>3 DEF ExecutionInv

LEMMA ExecutionGoto ==
  ASSUME ExecutionInv, NEW c \in Process, NEW s \in Execution!Pc, call[c].pc # "new",
         Execution!Goto(c, s)
  PROVE  \E x \in ExecutionRow : call' = [call EXCEPT ![c] = x] /\ x.pc = s
<1> DEFINE x == [call[c] EXCEPT !.pc = s]
<1>1. call[c] \in ExecutionRow
  BY DEF ExecutionInv
<1>2. x \in ExecutionRow /\ x.pc = s
  BY <1>1 DEF ExecutionRow, Execution!New
<1>3. call' = [call EXCEPT ![c] = x]
  BY DEF Execution!Goto
<1> QED BY <1>2, <1>3

\* Checking in never lifts a cancellation and never makes one.
LEMMA CheckInKeepsWord ==
  ASSUME NEW f \in Execution!Fence, NEW n \in Nat
  PROVE  /\ Execution!AdvanceFence(f, n) \in Execution!Fence
         /\ Execution!AdvanceFence(f, n).cancelled = f.cancelled
BY DEF Execution!Fence, Execution!AdvanceFence, Execution!Greatest

LEMMA ExecuteStep ==
  ASSUME ExecutionConstants, ExecutionInv, NEW c \in Process, Execution!Execute(c)
  PROVE  ExecutionInv'
<1>g. /\ gate \in Execution!Gate /\ fence \in Execution!Fence /\ turnClock \in Nat
      /\ call[c] \in ExecutionRow /\ granted \in 0..MaxFence
  BY DEF ExecutionInv, Execution!TypeOK, ExecutionConstants
<1>1. CASE Execution!Receive(c)
  <2>1. PICK f \in 1..granted, deadline \in turnClock + 1 .. turnClock + TurnBudget :
          call' = [call EXCEPT ![c] = [pc |-> "reserving", fence |-> f,
                                       deadline |-> deadline, tries |-> 0]]
    BY <1>1 DEF Execution!Receive
  <2>2. [pc |-> "reserving", fence |-> f, deadline |-> deadline, tries |-> 0] \in ExecutionRow
    BY <1>g DEF ExecutionRow, Execution!Pc, ExecutionConstants, Execution!MaxWorkerAttempts
  <2> QED BY <1>1, <1>g, <2>1, <2>2, ExecutionQuiet DEF Execution!Receive
<1>2. CASE Execution!ReserveStart(c)
  <2>0. call[c].pc # "new" /\ call[c] # Execution!New
    BY <1>2 DEF Execution!ReserveStart, Execution!At, Execution!New
  <2>1. PICK s \in {"unavailable", "routing", "duplicate"} : Execution!Goto(c, s)
    BY <1>2 DEF Execution!ReserveStart
  <2>2. PICK x \in ExecutionRow : call' = [call EXCEPT ![c] = x] /\ x.pc = s
    BY <2>0, <2>1, ExecutionGoto DEF Execution!Pc
  <2>3. /\ gate' \in Execution!Gate
        /\ gate' = gate \/ gate.state \notin Execution!TerminalState
    BY <1>2, <1>g, <2>0 DEF Execution!ReserveStart, Execution!CanReserve, Execution!Reserve,
       Execution!Gate, Execution!TerminalState, Execution!AbandonedState, ExecutionRow,
       ExecutionConstants
  <2> QED BY <1>2, <1>g, <2>2, <2>3, ExecutionQuiet DEF Execution!ReserveStart
<1>3. CASE Execution!Supervise(c) \/ Execution!Invalidate(c) \/ Execution!WorkerReturns(c)
  <2>0. call[c].pc # "new"
    BY <1>3 DEF Execution!Supervise, Execution!Invalidate, Execution!WorkerReturns, Execution!At
  <2>1. PICK s \in {"running", "answering", "staling", "checking"} : Execution!Goto(c, s)
    BY <1>3 DEF Execution!Supervise, Execution!Invalidate, Execution!WorkerReturns
  <2>2. PICK x \in ExecutionRow : call' = [call EXCEPT ![c] = x] /\ x.pc = s
    BY <2>0, <2>1, ExecutionGoto DEF Execution!Pc
  <2>3. UNCHANGED <<gate, fence, turnClock, granted, cancelled>>
    BY <1>3 DEF Execution!Supervise, Execution!Invalidate, Execution!WorkerReturns
  <2> QED BY <1>g, <2>2, <2>3, ExecutionQuiet
<1>4. CASE Execution!CheckIn(c)
  <2>0. call[c].pc # "new" /\ call[c] # Execution!New
    BY <1>4 DEF Execution!CheckIn, Execution!At, Execution!New
  <2>1. fence' \in Execution!Fence /\ fence'.cancelled = fence.cancelled
    <3>1. call[c].fence \in Nat
      BY <1>g, <2>0 DEF ExecutionRow, ExecutionConstants
    <3> QED BY <1>4, <1>g, <3>1, CheckInKeepsWord DEF Execution!CheckIn
  <2>2. UNCHANGED <<gate, turnClock, granted, cancelled>>
    BY <1>4 DEF Execution!CheckIn
  <2>3. CASE \E s \in {"answering", "staling"} : Execution!Goto(c, s)
    <3>1. PICK s \in {"answering", "staling"} : Execution!Goto(c, s)
      BY <2>3
    <3>2. PICK x \in ExecutionRow : call' = [call EXCEPT ![c] = x] /\ x.pc = s
      BY <2>0, <3>1, ExecutionGoto DEF Execution!Pc
    <3> QED BY <1>g, <2>1, <2>2, <3>2, ExecutionQuiet
  <2>4. CASE /\ Execution!MayRetry(c)
             /\ call' = [call EXCEPT ![c].pc = "routing", ![c].tries = @ + 1]
    <3> DEFINE x == [call[c] EXCEPT !.pc = "routing", !.tries = @ + 1]
    <3>0. /\ call[c] \in [pc : Execution!Pc, fence : 1..MaxFence, deadline : Nat, tries : 0..2]
          /\ call[c].tries + 1 \in 0..2
      <4>1. call[c] \in [pc : Execution!Pc, fence : 1..MaxFence, deadline : Nat, tries : 0..2]
        BY <1>g, <2>0 DEF ExecutionRow, Execution!MaxWorkerAttempts
      <4> QED BY <4>1, <2>4 DEF Execution!MayRetry, Execution!MaxWorkerAttempts
    <3>1. x \in ExecutionRow /\ x.pc = "routing"
      <4>1. "routing" \in Execution!Pc
        BY DEF Execution!Pc
      <4>2. x \in [pc : Execution!Pc, fence : 1..MaxFence, deadline : Nat, tries : 0..2]
        BY <3>0, <4>1
      <4> QED BY <4>2, <3>0 DEF ExecutionRow, Execution!MaxWorkerAttempts
    <3>2. call' = [call EXCEPT ![c] = x]
      BY <2>4, <1>g DEF ExecutionInv
    <3> QED BY <1>g, <2>1, <2>2, <3>1, <3>2, ExecutionQuiet
  <2> QED BY <1>4, <2>3, <2>4 DEF Execution!CheckIn
<1>5. CASE Execution!CloseSucceeded(c)
  <2>0. call[c].pc # "new"
    BY <1>5 DEF Execution!CloseSucceeded
  <2>1. CASE ~Execution!HoldsReservation(gate, c)
    <3>1. Execution!Goto(c, "failing")
      BY <1>5, <2>1 DEF Execution!CloseSucceeded
    <3>2. PICK x \in ExecutionRow : call' = [call EXCEPT ![c] = x] /\ x.pc = "failing"
      BY <2>0, <3>1, ExecutionGoto DEF Execution!Pc
    <3> QED BY <1>5, <1>g, <2>1, <3>2, ExecutionQuiet DEF Execution!CloseSucceeded
  <2>2. CASE Execution!HoldsReservation(gate, c)
    <3>1. PICK s \in {"answered", "stale", "unavailable"} : Execution!Goto(c, s)
      BY <1>5, <2>2 DEF Execution!CloseSucceeded, Execution!Response
    <3>2. PICK x \in ExecutionRow : call' = [call EXCEPT ![c] = x] /\ x.pc = s
      BY <2>0, <3>1, ExecutionGoto DEF Execution!Pc
    <3>3. /\ gate' = Execution!CloseStart(gate, TRUE)
          /\ UNCHANGED <<fence, turnClock, granted, cancelled>>
      BY <1>5, <2>2 DEF Execution!CloseSucceeded
    <3>4. gate' \in Execution!Gate /\ gate'.state \in Execution!TerminalState
      BY <1>g, <3>3 DEF Execution!CloseStart, Execution!Gate, Execution!TerminalState
    <3>5. \A d \in Process : call[d].pc # "answered"
      BY <2>2 DEF ExecutionInv, AnswerIsLast, Execution!HoldsReservation, Execution!TerminalState
    <3>6. /\ call' \in [Process -> ExecutionRow] /\ call'[c] = x
          /\ \A d \in Process : d # c => call'[d] = call[d]
          /\ \A d \in Process :
               \/ call'[d] = Execution!New
               \/ call'[d] \in [pc : Execution!Pc, fence : 1..MaxFence, deadline : Nat,
                                tries : 0 .. Execution!MaxWorkerAttempts - 1]
      BY <3>2 DEF ExecutionInv, ExecutionRow
    <3>7. Execution!TypeOK'
      BY <3>3, <3>4, <3>6 DEF ExecutionInv, Execution!TypeOK
    <3>8. AnswerIsLast' /\ Execution!CancelledAsAcknowledged'
      BY <3>3, <3>4, <3>5, <3>6 DEF ExecutionInv, AnswerIsLast, Execution!CancelledAsAcknowledged
    <3> QED BY <3>6, <3>7, <3>8 DEF ExecutionInv
  <2> QED BY <2>1, <2>2
<1>6. CASE Execution!CloseFailed(c) \/ Execution!Crash(c)
  <2>0. call[c].pc # "new"
    BY <1>6 DEF Execution!CloseFailed, Execution!Crash, Execution!At
  <2>1. Execution!Goto(c, "unavailable")
    BY <1>6 DEF Execution!CloseFailed, Execution!Crash
  <2>2. PICK x \in ExecutionRow : call' = [call EXCEPT ![c] = x] /\ x.pc = "unavailable"
    BY <2>0, <2>1, ExecutionGoto DEF Execution!Pc
  <2>3. /\ gate' \in Execution!Gate
        /\ gate' = gate \/ gate.state \notin Execution!TerminalState
    BY <1>6, <1>g DEF Execution!CloseFailed, Execution!Crash, Execution!HoldsReservation,
       Execution!CloseStart, Execution!Gate, Execution!TerminalState
  <2>4. UNCHANGED <<fence, turnClock, granted, cancelled>>
    BY <1>6 DEF Execution!CloseFailed, Execution!Crash
  <2> QED BY <1>g, <2>2, <2>3, <2>4, ExecutionQuiet
<1>7. CASE Execution!Expires(c) \/ Execution!RunFails(c)
  <2>1. PICK s \in {"expiring", "failing"} : Execution!CutOff(c, s)
    BY <1>7 DEF Execution!Expires, Execution!RunFails
  <2>2. call[c].pc # "new" /\ call[c] # Execution!New
    BY <2>1 DEF Execution!CutOff, Execution!New
  <2>3. PICK x \in ExecutionRow : call' = [call EXCEPT ![c] = x] /\ x.pc = s
    BY <2>1, <2>2, ExecutionGoto DEF Execution!CutOff, Execution!Pc
  <2>4. fence' \in Execution!Fence /\ fence'.cancelled = fence.cancelled
    <3>1. call[c].fence \in Nat
      BY <1>g, <2>2 DEF ExecutionRow, ExecutionConstants
    <3> QED BY <2>1, <1>g, <3>1, CheckInKeepsWord DEF Execution!CutOff
  <2>5. UNCHANGED <<gate, turnClock, granted, cancelled>>
    BY <2>1 DEF Execution!CutOff
  <2> QED BY <1>g, <2>3, <2>4, <2>5, ExecutionQuiet
<1> QED BY <1>1, <1>2, <1>3, <1>4, <1>5, <1>6, <1>7 DEF Execution!Execute

LEMMA ExecutionStep ==
  ASSUME ExecutionConstants, ExecutionInv, [Execution!Next]_(Execution!vars)
  PROVE  ExecutionInv'
<1>g. /\ gate \in Execution!Gate /\ fence \in Execution!Fence /\ turnClock \in Nat
      /\ granted \in 0..MaxFence /\ cancelled \subseteq 1..MaxFence
  BY DEF ExecutionInv, Execution!TypeOK, ExecutionConstants
<1>1. CASE Execution!GrantFence \/ Execution!Tick
  <2>1. UNCHANGED <<gate, fence, call, cancelled>>
    BY <1>1 DEF Execution!GrantFence, Execution!Tick
  <2>2. granted' \in 0..MaxFence /\ turnClock' \in 0..TurnTicks
    BY <1>1, <1>g DEF Execution!GrantFence, Execution!Tick, ExecutionConstants, ExecutionInv,
       Execution!TypeOK
  <2>3. Execution!TypeOK'
    BY <2>1, <2>2 DEF ExecutionInv, Execution!TypeOK
  <2> QED BY <2>1, <2>3 DEF ExecutionInv, AnswerIsLast, Execution!CancelledAsAcknowledged
<1>2. ASSUME NEW f \in 1..granted, Execution!CancelTurn(f) PROVE ExecutionInv'
  <2>1. /\ fence' = Execution!AdvanceCancellation(fence, f)
        /\ cancelled' = IF fence'.token = f THEN cancelled \cup {f} ELSE cancelled
        /\ UNCHANGED <<gate, turnClock, call, granted>>
    BY <1>2 DEF Execution!CancelTurn
  <2>2. f \in 1..MaxFence /\ f \in Nat
    BY <1>2, <1>g DEF ExecutionConstants
  <2>3. /\ fence' \in Execution!Fence
        /\ fence'.cancelled = (fence.cancelled \/ f >= fence.token)
        /\ fence'.token = f <=> f >= fence.token
    BY <1>g, <2>1, <2>2 DEF Execution!AdvanceCancellation, Execution!Fence, Execution!Greatest
  <2>4. Execution!TypeOK'
    BY <1>g, <2>1, <2>2, <2>3 DEF ExecutionInv, Execution!TypeOK
  <2>5. Execution!CancelledAsAcknowledged'
    BY <2>1, <2>3 DEF ExecutionInv, Execution!CancelledAsAcknowledged
  <2> QED BY <2>1, <2>4, <2>5 DEF ExecutionInv, AnswerIsLast
<1>3. CASE UNCHANGED Execution!vars
  BY <1>3 DEF Execution!vars, ExecutionInv, Execution!TypeOK, AnswerIsLast, Execution!CancelledAsAcknowledged
<1>4. CASE Execution!SweepStart
  <2>1. /\ gate' = Execution!Sweep(gate) /\ gate'.state = "expired"
        /\ UNCHANGED <<fence, turnClock, call, granted, cancelled>>
    BY <1>4, <1>g DEF Execution!SweepStart, Execution!Sweep, Execution!Gate
  <2>2. gate' \in Execution!Gate /\ gate'.state \in Execution!TerminalState
    BY <1>g, <2>1 DEF Execution!Sweep, Execution!Gate, Execution!TerminalState
  <2>3. Execution!TypeOK'
    BY <2>1, <2>2 DEF ExecutionInv, Execution!TypeOK
  <2> QED BY <2>1, <2>2, <2>3 DEF ExecutionInv, AnswerIsLast, Execution!CancelledAsAcknowledged
<1> QED BY <1>1, <1>2, <1>3, <1>4, ExecuteStep DEF Execution!Next

\* The requests and their gate and fence keep the invariant.
THEOREM ExecutionInvariance == ASSUME ExecutionConstants PROVE Execution!Spec => []ExecutionInv
<1>1. ExecutionInv /\ [Execution!Next]_(Execution!vars) => ExecutionInv'
  BY ExecutionStep
<1> QED BY <1>1, ExecutionInit, PTL DEF Execution!Spec

LEMMA OneAnswer ==
  ASSUME ExecutionConstants, ExecutionInv
  PROVE  Execution!AnsweredAtMostOnce /\ Execution!CancelledAsAcknowledged
<1> DEFINE A == {c \in Process : call[c].pc = "answered"}
<1>1. Cardinality(A) <= 1
  <2>1. CASE A = {}
    BY <2>1, FS_EmptySet
  <2>2. CASE A # {}
    <3>1. PICK c \in A : TRUE
      BY <2>2
    <3>2. A = {c}
      BY <3>1 DEF ExecutionInv, AnswerIsLast
    <3>3. Cardinality({c}) = 1
      BY FS_Singleton
    <3> HIDE DEF A
    <3> QED BY <3>2, <3>3
  <2> QED BY <2>1, <2>2
<1>2. Execution!AnsweredAtMostOnce
  <2>1. \A S : Execution!Cardinality(S) = Cardinality(S)
    BY DEF Cardinality, Execution!Cardinality
  <2> QED BY <1>1, <2>1 DEF Execution!AnsweredAtMostOnce, Execution!At
<1> QED BY <1>2 DEF ExecutionInv

\* A worker passes its final check only while nobody was told of a cancellation.
LEMMA CheckedStep ==
  ASSUME ExecutionConstants, ExecutionInv, [Execution!Next]_(Execution!vars),
         NEW c \in Process, Execution!PassesCheck(c)
  PROVE  cancelled = {}
<1>g. /\ fence \in Execution!Fence /\ call \in [Process -> ExecutionRow]
  BY DEF ExecutionInv, Execution!TypeOK
<1>0. call[c].pc = "checking" /\ call'[c].pc = "answering"
  BY DEF Execution!PassesCheck, Execution!At
<1>1. call' # call
  BY <1>0
<1>2. PICK d \in Process : Execution!Execute(d)
  BY <1>1 DEF Execution!Next, Execution!GrantFence, Execution!Tick, Execution!CancelTurn,
              Execution!SweepStart, Execution!vars
<1>3. \A s : Execution!Goto(d, s) => d = c /\ s = "answering"
  BY <1>0, <1>g DEF Execution!Goto
<1>4. Execution!CheckIn(d)
  <2>1. ~Execution!Receive(d)
    <3>1. SUFFICES ASSUME Execution!Receive(d) PROVE FALSE
      OBVIOUS
    <3>2. PICK x : call' = [call EXCEPT ![d] = x] /\ x.pc = "reserving" /\ call[d].pc = "new"
      BY <3>1 DEF Execution!Receive, Execution!At
    <3> QED BY <1>0, <1>g, <3>2
  <2>2. ~Execution!ReserveStart(d)
    BY <1>3 DEF Execution!ReserveStart
  <2>3. ~Execution!Invalidate(d) /\ ~Execution!WorkerReturns(d) /\ ~Execution!Supervise(d)
    BY <1>0, <1>3 DEF Execution!Invalidate, Execution!WorkerReturns, Execution!Supervise,
                      Execution!At
  <2>6. ~Execution!Expires(d) /\ ~Execution!RunFails(d)
    BY <1>3 DEF Execution!Expires, Execution!RunFails, Execution!CutOff
  <2>4. ~Execution!CloseSucceeded(d)
    <3>1. SUFFICES ASSUME Execution!CloseSucceeded(d) PROVE FALSE
      OBVIOUS
    <3>2. PICK s \in {"answered", "stale", "unavailable", "failing"} : Execution!Goto(d, s)
      BY <3>1 DEF Execution!CloseSucceeded, Execution!Response
    <3> QED BY <1>3, <3>2
  <2>5. ~Execution!CloseFailed(d) /\ ~Execution!Crash(d)
    <3>1. ~Execution!Goto(d, "unavailable")
      BY <1>3
    <3> QED BY <3>1 DEF Execution!CloseFailed, Execution!Crash
  <2> QED BY <1>2, <2>1, <2>2, <2>3, <2>4, <2>5, <2>6 DEF Execution!Execute
<1>5. d = c
  <2>1. CASE \E s : Execution!Goto(d, s)
    BY <1>3, <2>1
  <2>2. CASE ~\E s : Execution!Goto(d, s)
    <3>1. call' = [call EXCEPT ![d].pc = "routing", ![d].tries = @ + 1]
      BY <1>4, <2>2 DEF Execution!CheckIn
    <3> QED BY <1>0, <1>g, <3>1
  <2> QED BY <2>1, <2>2
<1>6. ~fence'.cancelled
  <2>1. CASE Execution!IsCurrent(fence', call[d].fence)
    BY <2>1 DEF Execution!IsCurrent
  <2>2. CASE ~Execution!IsCurrent(fence', call[d].fence)
    BY <1>3, <1>4, <2>2 DEF Execution!CheckIn
  <2> QED BY <2>1, <2>2
<1>7. fence'.cancelled = fence.cancelled
  <2>1. call[c] # Execution!New
    BY <1>0 DEF Execution!New
  <2>2. call[c].fence \in Nat
    BY <1>g, <2>1 DEF ExecutionRow, ExecutionConstants
  <2> QED BY <1>4, <1>5, <1>g, <2>2, CheckInKeepsWord DEF Execution!CheckIn
<1> QED BY <1>6, <1>7 DEF ExecutionInv, Execution!CancelledAsAcknowledged

\* Action property of the fence: once a cancellation of the turn was acknowledged no
\* worker's result passes the check, of an older attempt or of a later one.
THEOREM CancelledWorkersStop ==
  ASSUME ExecutionConstants PROVE Execution!Spec => Execution!CancelledStopsWorkers
<1>1. ExecutionInv /\ [Execution!Next]_(Execution!vars)
        => [\A c \in Process : Execution!PassesCheck(c) => cancelled = {}]_(Execution!vars)
  BY CheckedStep
<1> QED BY <1>1, ExecutionInvariance, PTL DEF Execution!Spec, Execution!CancelledStopsWorkers

-----------------------------------------------------------------------------
(* The classifier's binding.                                               *)

\* A row's revision counts its transitions.
RevisionsCount ==
  \A b \in Binding :
    /\ state[b] = "none" <=> revision[b] = 0
    /\ state[b] = "active" <=> revision[b] = 1
    /\ state[b] \in Classifier!Retired <=> revision[b] = 2
\* The partial index: two rows are never active at once.
OneActive == \A b, c \in Binding : state[b] = "active" /\ state[c] = "active" => b = c
BindingInv ==
  Classifier!TypeOK /\ RevisionsCount /\ OneActive /\ Classifier!HistoryExplainsRetirement

LEMMA BindingInit == ASSUME BindingConstants, Classifier!Init PROVE BindingInv
BY DEF BindingConstants, Classifier!Init, BindingInv, Classifier!TypeOK, RevisionsCount, OneActive,
       Classifier!HistoryExplainsRetirement, Classifier!Retired

\* A row is born: of the two tables only its own entries change.
LEMMA BindingBorn ==
  ASSUME NEW st \in [Binding -> {"none", "active"} \cup Classifier!Retired],
         NEW rev \in [Binding -> 0..2], NEW b \in Binding,
         Classifier!Admits(st, b), Classifier!Born(st, rev, b)
  PROVE  /\ state' \in [Binding -> {"none", "active"} \cup Classifier!Retired]
         /\ revision' \in [Binding -> 0..2]
         /\ state'[b] = "active" /\ revision'[b] = 1 /\ st[b] = "none"
         /\ \A c \in Binding : st[c] # "active"
         /\ \A c \in Binding : c # b => state'[c] = st[c] /\ revision'[c] = rev[c]
BY DEF Classifier!Admits, Classifier!Born, Classifier!Active

LEMMA BindingInserted ==
  ASSUME BindingInv, NEW b \in Binding, Classifier!Admits(state, b),
         Classifier!Born(state, revision, b), UNCHANGED <<events, trusted, resolver, bindingClock>>
  PROVE  BindingInv'
<1>1. /\ state' \in [Binding -> {"none", "active"} \cup Classifier!Retired]
      /\ revision' \in [Binding -> 0..2]
      /\ state'[b] = "active" /\ revision'[b] = 1 /\ state[b] = "none"
      /\ \A c \in Binding : state[c] # "active"
      /\ \A c \in Binding : c # b => state'[c] = state[c] /\ revision'[c] = revision[c]
  BY BindingBorn DEF BindingInv, Classifier!TypeOK
<1>2. Classifier!TypeOK'
  BY <1>1 DEF BindingInv, Classifier!TypeOK
<1>3. RevisionsCount' /\ OneActive'
  BY <1>1 DEF BindingInv, RevisionsCount, OneActive, Classifier!Retired
<1>4. Classifier!HistoryExplainsRetirement'
  BY <1>1 DEF BindingInv, Classifier!HistoryExplainsRetirement, Classifier!Retired
<1> QED BY <1>2, <1>3, <1>4 DEF BindingInv

\* A row retires, with the event that says so; another may be born with it.
LEMMA BindingRetired ==
  ASSUME BindingInv, NEW b \in Binding, NEW expected \in 1..2, NEW ref \in EventRef,
         NEW type \in Classifier!Retired, Classifier!Fenced(b, expected),
         state' \in [Binding -> {"none", "active"} \cup Classifier!Retired],
         revision' \in [Binding -> 0..2], state'[b] = type, revision'[b] = 2,
         \A c \in Binding : c # b =>
           \/ state'[c] = state[c] /\ revision'[c] = revision[c]
           \/ state[c] = "none" /\ state'[c] = "active" /\ revision'[c] = 1,
         \A c, d \in Binding : state'[c] = "active" /\ state'[d] = "active" => c = d,
         events' = events \cup {Classifier!Decision(ref, b, type, expected)},
         UNCHANGED <<trusted, resolver, bindingClock>>
  PROVE  BindingInv'
<1> DEFINE e == Classifier!Decision(ref, b, type, expected)
<1>0. e \in Classifier!Event /\ e.binding = b /\ e.type = type /\ state[b] = "active"
  BY DEF Classifier!Decision, Classifier!Event, Classifier!Fenced
<1>1. Classifier!TypeOK'
  BY <1>0 DEF BindingInv, Classifier!TypeOK
<1>2. RevisionsCount' /\ OneActive'
  BY <1>0 DEF BindingInv, RevisionsCount, OneActive, Classifier!Retired
<1>3. {x \in events : x.binding = b} = {}
  BY <1>0 DEF BindingInv, Classifier!HistoryExplainsRetirement, Classifier!Retired
<1>4. {x \in events' : x.binding = b} = {e}
  BY <1>0, <1>3
<1>5. \A c \in Binding : c # b => {x \in events' : x.binding = c} = {x \in events : x.binding = c}
  BY <1>0
<1> HIDE DEF e
<1>6. Classifier!HistoryExplainsRetirement'
  <2> SUFFICES ASSUME NEW c \in Binding
               PROVE  IF state'[c] \in Classifier!Retired
                      THEN \E x \in {y \in events' : y.binding = c} :
                             x.type = state'[c] /\ {y \in events' : y.binding = c} = {x}
                      ELSE {y \in events' : y.binding = c} = {}
    BY DEF Classifier!HistoryExplainsRetirement
  <2>1. CASE c = b
    BY <1>0, <1>4, <2>1
  <2>2. CASE c # b
    BY <1>5, <2>2 DEF BindingInv, Classifier!HistoryExplainsRetirement, Classifier!Retired
  <2> QED BY <2>1, <2>2
<1> QED BY <1>1, <1>2, <1>6 DEF BindingInv

LEMMA BindingStep ==
  ASSUME BindingConstants, BindingInv, [Classifier!Next]_(Classifier!vars)
  PROVE  BindingInv'
<1>g. /\ state \in [Binding -> {"none", "active"} \cup Classifier!Retired]
      /\ revision \in [Binding -> 0..2]
  BY DEF BindingInv, Classifier!TypeOK
<1>1. ASSUME NEW b \in Binding, Classifier!Insert(b) PROVE BindingInv'
  BY <1>1, BindingInserted DEF Classifier!Insert
<1>2. ASSUME NEW b \in Binding, NEW expected \in 1..2, NEW ref \in EventRef,
             Classifier!Revoke(b, expected, ref)
      PROVE BindingInv'
  <2>1. /\ Classifier!Fenced(b, expected) /\ state[b] = "active" /\ revision[b] = 1
        /\ state' = [state EXCEPT ![b] = "revoked"]
        /\ revision' = [revision EXCEPT ![b] = @ + 1]
        /\ events' = events \cup {Classifier!Decision(ref, b, "revoked", expected)}
        /\ UNCHANGED <<trusted, resolver, bindingClock>>
    BY <1>2 DEF Classifier!Revoke, Classifier!Fenced, BindingInv, RevisionsCount
  <2>2. /\ state' \in [Binding -> {"none", "active"} \cup Classifier!Retired]
        /\ revision' \in [Binding -> 0..2] /\ state'[b] = "revoked" /\ revision'[b] = 2
        /\ \A c \in Binding : c # b => state'[c] = state[c] /\ revision'[c] = revision[c]
    BY <1>g, <2>1 DEF Classifier!Retired
  <2>3. \A c, d \in Binding : state'[c] = "active" /\ state'[d] = "active" => c = d
    BY <2>2 DEF BindingInv, OneActive
  <2>4. "revoked" \in Classifier!Retired
    BY DEF Classifier!Retired
  <2> QED BY <2>1, <2>2, <2>3, <2>4, BindingRetired
<1>3. ASSUME NEW b \in Binding, NEW expected \in 1..2, NEW ref \in EventRef,
             NEW new \in Binding, Classifier!Supersede(b, expected, new, ref)
      PROVE BindingInv'
  <2> DEFINE st == [state EXCEPT ![b] = "superseded"]
             rev == [revision EXCEPT ![b] = @ + 1]
  <2>1. /\ Classifier!Fenced(b, expected) /\ state[b] = "active" /\ revision[b] = 1
        /\ new # b /\ Classifier!Admits(st, new) /\ Classifier!Born(st, rev, new)
        /\ events' = events \cup {Classifier!Decision(ref, b, "superseded", expected)}
        /\ UNCHANGED <<trusted, resolver, bindingClock>>
    BY <1>3 DEF Classifier!Supersede, Classifier!Fenced, BindingInv, RevisionsCount
  <2>2. /\ st \in [Binding -> {"none", "active"} \cup Classifier!Retired]
        /\ rev \in [Binding -> 0..2] /\ st[b] = "superseded" /\ rev[b] = 2
        /\ \A c \in Binding : c # b => st[c] = state[c] /\ rev[c] = revision[c]
    BY <1>g, <2>1 DEF Classifier!Retired
  <2> HIDE DEF st, rev
  <2>3. /\ state' \in [Binding -> {"none", "active"} \cup Classifier!Retired]
        /\ revision' \in [Binding -> 0..2]
        /\ state'[new] = "active" /\ revision'[new] = 1 /\ st[new] = "none"
        /\ \A c \in Binding : st[c] # "active"
        /\ \A c \in Binding : c # new => state'[c] = st[c] /\ revision'[c] = rev[c]
    BY <2>1, <2>2, BindingBorn
  <2>4. /\ state'[b] = "superseded" /\ revision'[b] = 2
        /\ \A c \in Binding : c # b =>
             \/ state'[c] = state[c] /\ revision'[c] = revision[c]
             \/ state[c] = "none" /\ state'[c] = "active" /\ revision'[c] = 1
        /\ \A c, d \in Binding : state'[c] = "active" /\ state'[d] = "active" => c = d
    BY <2>1, <2>2, <2>3
  <2>5. "superseded" \in Classifier!Retired
    BY DEF Classifier!Retired
  <2> QED BY <2>1, <2>3, <2>4, <2>5, BindingRetired
<1>4. ASSUME NEW b \in Binding, NEW expected \in 1..2, NEW ref \in EventRef,
             NEW new \in Binding, Classifier!SupersedeAgain(b, expected, new, ref)
      PROVE BindingInv'
  BY <1>4, BindingInserted DEF Classifier!SupersedeAgain
<1>5. ASSUME NEW b \in Binding, Classifier!RevokeTrust(b) PROVE BindingInv'
  <2>1. trusted' = trusted \ {b} /\ UNCHANGED <<state, revision, events, resolver, bindingClock>>
    BY <1>5 DEF Classifier!RevokeTrust, Classifier!rows
  <2>2. Classifier!TypeOK'
    BY <2>1 DEF BindingInv, Classifier!TypeOK
  <2> QED BY <2>1, <2>2 DEF BindingInv, RevisionsCount, OneActive,
                            Classifier!HistoryExplainsRetirement
<1>6. CASE Classifier!Tick \/ UNCHANGED Classifier!vars
  <2>1. UNCHANGED <<state, revision, events, trusted, resolver>>
    BY <1>6 DEF Classifier!Tick, Classifier!vars, Classifier!rows
  <2>2. bindingClock' \in 0..BindingTicks
    BY <1>6 DEF Classifier!Tick, Classifier!vars, BindingInv, Classifier!TypeOK, BindingConstants
  <2>3. Classifier!TypeOK'
    BY <2>1, <2>2 DEF BindingInv, Classifier!TypeOK
  <2> QED BY <2>1, <2>3 DEF BindingInv, RevisionsCount, OneActive,
                            Classifier!HistoryExplainsRetirement
<1>7. ASSUME NEW r \in Resolver,
             Classifier!ReadBinding(r) \/ Classifier!Verify(r) \/ Classifier!EndTurn(r)
      PROVE BindingInv'
  <2>1. UNCHANGED <<state, revision, events, trusted, bindingClock>>
    BY <1>7 DEF Classifier!ReadBinding, Classifier!Verify, Classifier!EndTurn, Classifier!rows
  <2>2. resolver' \in [Resolver -> {Nil} \cup [step : Classifier!Outcome, binding : Binding \cup {Nil}]]
    <3>t. resolver \in [Resolver -> {Nil} \cup [step : Classifier!Outcome,
                                                binding : Binding \cup {Nil}]]
      BY DEF BindingInv, Classifier!TypeOK
    <3>1. CASE Classifier!ReadBinding(r)
      <4>1. \E s \in Classifier!Outcome, b \in Binding \cup {Nil} :
              resolver' = [resolver EXCEPT ![r] = [step |-> s, binding |-> b]]
        BY <3>1 DEF Classifier!ReadBinding, Classifier!Set, Classifier!Rows, Classifier!Outcome
      <4> QED BY <3>t, <4>1
    <3>2. CASE Classifier!Verify(r)
      <4>1. resolver[r].binding \in Binding \cup {Nil}
        BY <3>2, <3>t DEF Classifier!Verify
      <4>2. \E s \in Classifier!Outcome :
              resolver' = [resolver EXCEPT ![r] = [step |-> s, binding |-> resolver[r].binding]]
        BY <3>2 DEF Classifier!Verify, Classifier!Set, Classifier!Outcome
      <4> QED BY <3>t, <4>1, <4>2
    <3>3. CASE Classifier!EndTurn(r)
      BY <3>3, <3>t DEF Classifier!EndTurn
    <3> QED BY <1>7, <3>1, <3>2, <3>3
  <2>3. Classifier!TypeOK'
    BY <2>1, <2>2 DEF BindingInv, Classifier!TypeOK
  <2> QED BY <2>1, <2>3 DEF BindingInv, RevisionsCount, OneActive,
                            Classifier!HistoryExplainsRetirement
<1> QED BY <1>1, <1>2, <1>3, <1>4, <1>5, <1>6, <1>7 DEF Classifier!Next

\* The rows, their events and the resolvers keep the invariant.
THEOREM BindingInvariance == ASSUME BindingConstants PROVE Classifier!Spec => []BindingInv
<1>1. BindingInv /\ [Classifier!Next]_(Classifier!vars) => BindingInv'
  BY BindingStep
<1> QED BY <1>1, BindingInit, PTL DEF Classifier!Spec

\* How a step may change a row: it is born, it retires, or it stays what it is.
LEMMA BindingMoves ==
  ASSUME BindingInv, [Classifier!Next]_(Classifier!vars), NEW b \in Binding
  PROVE  /\ state[b] \in Classifier!Retired => state'[b] = state[b]
         /\ state[b] = "active" /\ state'[b] = "superseded" =>
              \E c \in Binding : state'[c] = "active" /\ Classifier!Effective(c)
<1>g. state \in [Binding -> {"none", "active"} \cup Classifier!Retired]
  BY DEF BindingInv, Classifier!TypeOK
<1>1. ASSUME NEW x \in Binding, Classifier!Admits(state, x), Classifier!Born(state, revision, x)
      PROVE  state[x] = "none" /\ state' = [state EXCEPT ![x] = "active"]
  BY <1>1 DEF Classifier!Admits, Classifier!Born
<1>2. ASSUME NEW x \in Binding, Classifier!Insert(x)
      PROVE  state[x] = "none" /\ state' = [state EXCEPT ![x] = "active"]
  BY <1>1, <1>2 DEF Classifier!Insert
<1>3. ASSUME NEW x \in Binding, NEW expected \in 1..2, NEW ref \in EventRef, NEW y \in Binding,
             Classifier!SupersedeAgain(x, expected, y, ref)
      PROVE  state[y] = "none" /\ state' = [state EXCEPT ![y] = "active"]
  BY <1>1, <1>3 DEF Classifier!SupersedeAgain
<1>4. ASSUME NEW x \in Binding, NEW expected \in 1..2, NEW ref \in EventRef,
             Classifier!Revoke(x, expected, ref)
      PROVE  state[x] = "active" /\ state' = [state EXCEPT ![x] = "revoked"]
  BY <1>4 DEF Classifier!Revoke, Classifier!Fenced
<1>5. ASSUME NEW x \in Binding, NEW expected \in 1..2, NEW ref \in EventRef, NEW y \in Binding,
             Classifier!Supersede(x, expected, y, ref)
      PROVE  /\ state[x] = "active" /\ state[y] = "none"
             /\ state' = [[state EXCEPT ![x] = "superseded"] EXCEPT ![y] = "active"]
             /\ \E c \in Binding : state'[c] = "active" /\ Classifier!Effective(c)
  <2>1. state[x] = "active" /\ y # x /\ Classifier!Replaced(x)
    BY <1>5 DEF Classifier!Supersede, Classifier!Fenced
  <2>2. /\ state' = [[state EXCEPT ![x] = "superseded"] EXCEPT ![y] = "active"]
        /\ [state EXCEPT ![x] = "superseded"][y] = "none"
    BY <1>5 DEF Classifier!Supersede, Classifier!Born, Classifier!Admits
  <2>3. \E c \in Binding : state'[c] = "active" /\ Classifier!Effective(c)
    BY <2>1 DEF Classifier!Replaced, Classifier!Active
  <2> QED BY <1>g, <2>1, <2>2, <2>3
<1>6. CASE state' = state
  BY <1>6 DEF Classifier!Retired
<1>7. CASE state' # state
  <2>1. \/ \E x \in Binding : Classifier!Insert(x)
        \/ \E x \in Binding, expected \in 1..2, ref \in EventRef :
             \/ Classifier!Revoke(x, expected, ref)
             \/ \E y \in Binding : \/ Classifier!Supersede(x, expected, y, ref)
                                   \/ Classifier!SupersedeAgain(x, expected, y, ref)
    BY <1>7 DEF Classifier!Next, Classifier!vars, Classifier!RevokeTrust, Classifier!ReadBinding,
                Classifier!Verify, Classifier!EndTurn, Classifier!Tick, Classifier!rows
  <2>2. CASE \E x \in Binding : Classifier!Insert(x)
    BY <1>g, <1>2, <2>2 DEF Classifier!Retired
  <2>3. CASE \E x \in Binding, expected \in 1..2, ref \in EventRef : Classifier!Revoke(x, expected, ref)
    BY <1>g, <1>4, <2>3 DEF Classifier!Retired
  <2>4. CASE \E x \in Binding, expected \in 1..2, ref \in EventRef, y \in Binding :
               Classifier!Supersede(x, expected, y, ref)
    BY <1>g, <1>5, <2>4 DEF Classifier!Retired
  <2>5. CASE \E x \in Binding, expected \in 1..2, ref \in EventRef, y \in Binding :
               Classifier!SupersedeAgain(x, expected, y, ref)
    BY <1>g, <1>3, <2>5 DEF Classifier!Retired
  <2> QED BY <2>1, <2>2, <2>3, <2>4, <2>5
<1> QED BY <1>6, <1>7

\* A turn is given a binding only while everything the binding names is trusted.
LEMMA BindingGiven ==
  ASSUME BindingInv, [Classifier!Next]_(Classifier!vars), NEW r \in Resolver,
         resolver'[r] # Nil, resolver'[r].step = "resolved", resolver[r] # resolver'[r]
  PROVE  resolver'[r].binding \in trusted
<1>t. resolver \in [Resolver -> {Nil} \cup [step : Classifier!Outcome, binding : Binding \cup {Nil}]]
  BY DEF BindingInv, Classifier!TypeOK
<1>1. PICK q \in Resolver : Classifier!ReadBinding(q) \/ Classifier!Verify(q) \/ Classifier!EndTurn(q)
  BY DEF Classifier!Next, Classifier!vars, Classifier!Insert, Classifier!RevokeTrust,
         Classifier!Revoke, Classifier!Supersede, Classifier!SupersedeAgain, Classifier!Tick,
         Classifier!rows
<1>2. CASE Classifier!ReadBinding(q)
  <2>1. PICK s \in {"ambiguous", "verify", "unavailable"}, b \in Binding \cup {Nil} :
          resolver' = [resolver EXCEPT ![q] = [step |-> s, binding |-> b]]
    BY <1>2 DEF Classifier!ReadBinding, Classifier!Set, Classifier!Rows
  <2> QED BY <1>t, <2>1
<1>3. CASE Classifier!Verify(q)
  <2> DEFINE s == IF Classifier!Trusted(resolver[q].binding) THEN "resolved" ELSE "unavailable"
  <2>1. resolver' = [resolver EXCEPT ![q] = [step |-> s, binding |-> resolver[q].binding]]
    BY <1>3 DEF Classifier!Verify, Classifier!Set
  <2>2. r = q /\ s = "resolved" /\ resolver'[r].binding = resolver[q].binding
    BY <1>t, <2>1
  <2> QED BY <2>2 DEF Classifier!Trusted
<1>4. CASE Classifier!EndTurn(q)
  BY <1>t, <1>4 DEF Classifier!EndTurn
<1> QED BY <1>1, <1>2, <1>3, <1>4

\* Action property: replacing a binding leaves no gap.
THEOREM CutoverLeavesNoGap ==
  ASSUME BindingConstants PROVE Classifier!Spec => Classifier!CutoverIsAtomic
<1>1. BindingInv /\ [Classifier!Next]_(Classifier!vars)
        => [\A b \in Binding : state[b] = "active" /\ state'[b] = "superseded" =>
              \E c \in Binding : state'[c] = "active" /\ Classifier!Effective(c)]_(Classifier!vars)
  BY BindingMoves
<1> QED BY <1>1, BindingInvariance, PTL DEF Classifier!Spec, Classifier!CutoverIsAtomic

\* Action property: what is retired stays retired, and what is given is trusted.
THEOREM RetiredBindingsStay ==
  ASSUME BindingConstants PROVE Classifier!Spec => Classifier!RetiredStaysRetired
<1>1. BindingInv /\ [Classifier!Next]_(Classifier!vars)
        => [/\ \A b \in Binding : state[b] \in Classifier!Retired => state'[b] = state[b]
            /\ \A r \in Resolver :
                 resolver'[r] # Nil /\ resolver'[r].step = "resolved" /\ resolver[r] # resolver'[r]
                   => resolver'[r].binding \in trusted]_(Classifier!vars)
  BY BindingMoves, BindingGiven
<1> QED BY <1>1, BindingInvariance, PTL DEF Classifier!Spec, Classifier!RetiredStaysRetired

-----------------------------------------------------------------------------
(* The agent's run: its row, its approvals and its ledger.                 *)

\* How many versions a state may still add to the row: only the claims, the
\* resumptions and the requests of people are bounded, what follows them is not.
Rank(s) == CASE s = "running" -> 3 [] s = "reviewing" -> 2
             [] s \in Agent!terminalStates -> 0 [] OTHER -> 1
RunSound(r) ==
  /\ r \in Agent!Row /\ r.version + Rank(r.state) <= MaxVersion + 3 /\ r.claims <= r.version
  /\ r.cancel => r.state \in Agent!Active \cup Agent!terminalStates
\* What a step may do to the row: it counts every cancellation, and neither what
\* was cancelled nor what has ended is taken up again.
RunMoves(r, n) ==
  /\ RunSound(n) /\ r.version <= n.version /\ (n.version = r.version => n.cancel = r.cancel)
  /\ r.cancel => n.state \in {r.state, "cancelled", "failed_safely"}
  /\ r.state \in Agent!terminalStates => n.state = r.state

LEMMA RunStays == ASSUME AgentConstants, RunSound(run) PROVE RunMoves(run, run)
BY DEF AgentConstants, RunSound, RunMoves, Agent!Row

LEMMA RunTouched ==
  ASSUME AgentConstants, RunSound(run), NEW w PROVE RunMoves(run, Agent!Touched(w))
<1>1. CASE Agent!Touched(w) = run
  BY <1>1, RunStays
<1>2. CASE Agent!Touched(w) = [run EXCEPT !.beat = "fresh"]
  BY <1>2 DEF AgentConstants, RunSound, RunMoves, Agent!Row
<1> QED BY <1>1, <1>2 DEF Agent!Touched

LEMMA MovedFields ==
  ASSUME run \in Agent!Row, NEW to \in Agent!State
  PROVE  /\ Agent!Moved(to).state = to /\ Agent!Moved(to).version = run.version + 1
         /\ Agent!Moved(to).beat = "fresh" /\ Agent!Moved(to).cancel = run.cancel
         /\ Agent!Moved(to).claims = run.claims /\ Agent!Moved(to).claimedBy = run.claimedBy
         /\ Agent!Moved(to).controlled = run.controlled
         /\ run.version + 1 \in 0..(MaxVersion + 4) => Agent!Moved(to) \in Agent!Row
<1> DEFINE a == [run EXCEPT !.state = to]
           b == [a EXCEPT !.version = run.version + 1]
           m == [b EXCEPT !.beat = "fresh"]
<1>1. Agent!Moved(to) = m
  BY DEF Agent!Moved
<1>2. /\ m.state = to /\ m.version = run.version + 1 /\ m.beat = "fresh"
      /\ m.cancel = run.cancel /\ m.claims = run.claims /\ m.claimedBy = run.claimedBy
      /\ m.controlled = run.controlled
      /\ run.version + 1 \in 0..(MaxVersion + 4) => m \in Agent!Row
  BY DEF Agent!Row
<1> HIDE DEF m
<1> QED BY <1>1, <1>2

\* A move that ranks lower keeps the row sound; a cancelled run only ends.
LEMMA RunMoved ==
  ASSUME AgentConstants, RunSound(run), NEW to \in Agent!State, Rank(to) < Rank(run.state),
         run.state \notin Agent!terminalStates,
         run.cancel => to \in {"cancelled", "failed_safely"}
  PROVE  RunMoves(run, Agent!Moved(to))
<1>0. run \in Agent!Row /\ run.version \in Nat /\ run.claims \in Nat
  BY DEF AgentConstants, RunSound, Agent!Row
<1>1. Rank(to) \in 0..3 /\ Rank(run.state) \in 0..3
  BY DEF Rank
<1>2. Agent!Moved(to) \in Agent!Row
  BY <1>0, <1>1, MovedFields DEF AgentConstants, RunSound
<1> QED BY <1>0, <1>1, <1>2, MovedFields DEF AgentConstants, RunSound, RunMoves, Agent!terminalStates

\* A claim or a resumption takes the row up, within the bound on its version.
LEMMA RunTakenUp ==
  ASSUME AgentConstants, RunSound(run), NEW p \in Process, run.version < MaxVersion,
         run.state \in {"queued", "waiting_approval", "waiting_dependency"}
  PROVE  /\ RunMoves(run, Agent!Resumed(p))
         /\ RunMoves(run, [Agent!Resumed(p) EXCEPT !.claims = @ + 1])
         /\ RunMoves(run, Agent!Moved("failed_safely"))
<1>0. run \in Agent!Row /\ run.version \in Nat /\ run.claims \in Nat /\ ~run.cancel
  BY DEF AgentConstants, RunSound, Agent!Row, Agent!Active, Agent!terminalStates
<1>1. Agent!Moved("running") \in Agent!Row /\ Agent!Moved("failed_safely") \in Agent!Row
  BY <1>0, MovedFields DEF AgentConstants, Agent!State
<1> DEFINE m == Agent!Moved("running")
           n == [m EXCEPT !.claimedBy = p]
           o == [n EXCEPT !.claims = @ + 1]
<1>2. /\ m \in Agent!Row /\ m.state = "running" /\ m.version = run.version + 1
      /\ m.cancel = run.cancel /\ m.claims = run.claims
  BY <1>0, <1>1, MovedFields DEF Agent!State
<1> HIDE DEF m
<1>3. /\ n \in Agent!Row /\ n.state = "running" /\ n.version = run.version + 1
      /\ n.cancel = run.cancel /\ n.claims = run.claims
  BY <1>2 DEF Agent!Row
<1> HIDE DEF n
<1>4. /\ o \in Agent!Row /\ o.state = "running" /\ o.version = run.version + 1
      /\ o.cancel = run.cancel /\ o.claims = run.claims + 1
  BY <1>0, <1>3 DEF Agent!Row, AgentConstants, RunSound
<1> HIDE DEF o
<1>5. RunMoves(run, n) /\ RunMoves(run, o)
  BY <1>0, <1>3, <1>4 DEF AgentConstants, RunSound, RunMoves, Rank, Agent!terminalStates
<1>6. RunMoves(run, Agent!Moved("failed_safely"))
  BY <1>0, RunMoved DEF Rank, Agent!State, Agent!terminalStates
<1>7. Agent!Resumed(p) = n
  BY DEF Agent!Resumed, n, m
<1>8. [Agent!Resumed(p) EXCEPT !.claims = @ + 1] = o
  BY <1>7 DEF o
<1> QED BY <1>5, <1>6, <1>7, <1>8

\* A stale heartbeat ends the claim of whoever held the row.
LEMMA RunReconciled ==
  ASSUME AgentConstants, RunSound(run), run.state \in Agent!Active
  PROVE  RunMoves(run, [Agent!Moved(Agent!Finalized) EXCEPT !.claimedBy = Nil, !.beat = "none"])
<1> DEFINE m == Agent!Moved(Agent!Finalized)
           n == [m EXCEPT !.claimedBy = Nil]
           o == [n EXCEPT !.beat = "none"]
<1>1. RunMoves(run, m)
  BY RunMoved DEF Agent!Finalized, Rank, Agent!State, Agent!terminalStates, Agent!Active
<1> HIDE DEF m
<1>2. RunMoves(run, n)
  BY <1>1 DEF RunMoves, RunSound, Agent!Row
<1> HIDE DEF n
<1>3. RunMoves(run, o)
  BY <1>2 DEF RunMoves, RunSound, Agent!Row
<1>4. [Agent!Moved(Agent!Finalized) EXCEPT !.claimedBy = Nil, !.beat = "none"] = o
  BY DEF m, n, o
<1> QED BY <1>3, <1>4

\* A request for cancellation is a version of its own.
LEMMA RunCancelled ==
  ASSUME AgentConstants, RunSound(run), Agent!RequestCancellation
  PROVE  RunMoves(run, run')
<1> DEFINE to == IF run.state \in Agent!Active THEN run.state ELSE "cancelled"
           m == [run EXCEPT !.cancel = TRUE]
           n == [m EXCEPT !.version = run.version + 1]
           o == [n EXCEPT !.state = to]
<1>0. run \in Agent!Row /\ run.version \in Nat /\ run.claims \in Nat
  BY DEF AgentConstants, RunSound, Agent!Row
<1>1. /\ run.version < MaxVersion /\ run.state \notin Agent!terminalStates /\ run' = o
  BY DEF Agent!RequestCancellation
<1>2. to \in Agent!State /\ (to = run.state \/ to = "cancelled")
  BY <1>0 DEF Agent!State, Agent!Active
<1>3. to \in Agent!Active \cup Agent!terminalStates
  BY DEF Agent!terminalStates
<1> HIDE DEF to
<1>4. /\ m \in Agent!Row /\ m.cancel /\ m.claims = run.claims
  BY <1>0 DEF Agent!Row
<1> HIDE DEF m
<1>5. /\ n \in Agent!Row /\ n.cancel /\ n.claims = run.claims /\ n.version = run.version + 1
  BY <1>0, <1>1, <1>4 DEF Agent!Row, AgentConstants
<1> HIDE DEF n
<1>6. /\ o \in Agent!Row /\ o.version = run.version + 1 /\ o.cancel
      /\ o.claims = run.claims /\ o.state = to
  BY <1>2, <1>5 DEF Agent!Row
<1> HIDE DEF o
<1>7. Rank(to) \in 0..3
  BY DEF Rank
<1>8. RunSound(o)
  BY <1>0, <1>1, <1>3, <1>6, <1>7 DEF AgentConstants, RunSound
<1>9. RunMoves(run, o)
  <2>1. run.version <= o.version /\ o.version # run.version
    BY <1>0, <1>6
  <2>2. o.state \in {run.state, "cancelled", "failed_safely"} /\ run.state \notin Agent!terminalStates
    BY <1>1, <1>2, <1>6
  <2> QED BY <1>8, <2>1, <2>2 DEF RunMoves
<1> QED BY <1>1, <1>9

LEMMA RunSilent ==
  ASSUME AgentConstants, RunSound(run), Agent!FallSilent PROVE RunMoves(run, run')
BY DEF AgentConstants, RunSound, RunMoves, Agent!Row, Agent!FallSilent
LocalRow ==
  [step : Agent!Step, kind : {"worker", "resume", Nil}, seen : Nat,
   as : Process \cup {Nil}, input : Agent!Checkpoint \cup {Nil},
   decided : [ToolCall -> Agent!Approval], ask : Agent!Checkpoint \cup {Nil},
   aborted : {"no", "cancel", "lost"}]
Operating == {"tool", "write", "written"}
\* What a process holds agrees with the row, the approvals and the ledger: it
\* carries out an approved call only, what it saw approved is approved still, it
\* suspends or succeeds only under the version it saw uncancelled, and it runs a
\* call that has its intent and has not been run.
Sound(x, r, a, l, w) ==
  /\ x \in LocalRow
  /\ x.step = "accept" => x.ask \in Agent!Checkpoint
  /\ x.step \in Operating => x.ask \in ToolCall /\ a[x.ask] = "approved"
  /\ \A c \in ToolCall : x.decided[c] = "approved" => a[c] = "approved"
  /\ x.step \in {"suspend", "review"} => x.seen <= r.version /\ (x.seen = r.version => ~r.cancel)
  /\ x.step = "write" => l[x.ask] # "none" /\ w[x.ask] = 0
OneWriter ==
  \A p, q \in Process :
    local[p].step = "write" /\ local[q].step = "write" /\ local[p].ask = local[q].ask => p = q
\* The ledger names every call that was run, and none was run twice.
LedgerNamesWrites ==
  \A c \in ToolCall :
    /\ ledger[c] = "none" => writes[c] = 0
    /\ writes[c] <= 1 /\ (writes[c] = 1 => approval[c] = "approved")
AgentTables ==
  /\ approval \in [ToolCall -> Agent!Approval] /\ saved \in Seq(Agent!Checkpoint)
  /\ issued \subseteq ToolCall /\ ledger \in [ToolCall -> Agent!Operation]
  /\ writes \in [ToolCall -> Nat]
AgentInv ==
  /\ RunSound(run) /\ AgentTables /\ OneWriter /\ LedgerNamesWrites
  /\ local \in [Process -> LocalRow]
  /\ \A p \in Process : Sound(local[p], run, approval, ledger, writes)

LEMMA OffFields ==
  ASSUME AgentConstants
  PROVE  /\ Agent!Off \in LocalRow /\ Agent!Off.step = "off"
         /\ \A c \in ToolCall : Agent!Off.decided[c] = "none"
         /\ Agent!Off.decided \in [ToolCall -> Agent!Approval]
BY DEF Agent!Off, LocalRow, Agent!Step, Agent!Approval

\* A process that starts over with a step and a call.
Afresh(p, s, ask) == [Agent!Off EXCEPT !.step = s, !.kind = local[p].kind, !.ask = ask]
LEMMA AfreshFields ==
  ASSUME AgentConstants, AgentInv, NEW p \in Process, NEW s \in Agent!Step,
         NEW ask \in Agent!Checkpoint \cup {Nil}
  PROVE  /\ Afresh(p, s, ask) \in LocalRow /\ Afresh(p, s, ask).step = s
         /\ Afresh(p, s, ask).ask = ask
         /\ \A c \in ToolCall : Afresh(p, s, ask).decided[c] = "none"
<1> DEFINE a == [Agent!Off EXCEPT !.step = s]
           b == [a EXCEPT !.kind = local[p].kind]
           o == [b EXCEPT !.ask = ask]
<1>0. local[p].kind \in {"worker", "resume", Nil}
  BY DEF AgentInv, LocalRow
<1>1. /\ a \in LocalRow /\ a.step = s /\ \A c \in ToolCall : a.decided[c] = "none"
  BY OffFields DEF LocalRow
<1> HIDE DEF a
<1>2. /\ b \in LocalRow /\ b.step = s /\ \A c \in ToolCall : b.decided[c] = "none"
  BY <1>0, <1>1 DEF LocalRow
<1> HIDE DEF b
<1>3. /\ o \in LocalRow /\ o.step = s /\ o.ask = ask
      /\ \A c \in ToolCall : o.decided[c] = "none"
  BY <1>2 DEF LocalRow
<1>4. Afresh(p, s, ask) = o
  BY DEF Afresh, a, b
<1> QED BY <1>3, <1>4

\* A process that goes on with a step and a call, and forgets what it read.
Onward(p, s, ask) ==
  [local[p] EXCEPT !.step = s, !.ask = ask, !.input = Nil, !.decided = Agent!Off.decided]
LEMMA OnwardFields ==
  ASSUME AgentConstants, AgentInv, NEW p \in Process, NEW s \in Agent!Step,
         NEW ask \in Agent!Checkpoint \cup {Nil}
  PROVE  /\ Onward(p, s, ask) \in LocalRow /\ Onward(p, s, ask).step = s
         /\ Onward(p, s, ask).ask = ask
         /\ \A c \in ToolCall : Onward(p, s, ask).decided[c] = "none"
         /\ Agent!Running(p, s, ask) => local' = [local EXCEPT ![p] = Onward(p, s, ask)]
<1> DEFINE a == [local[p] EXCEPT !.step = s]
           b == [a EXCEPT !.ask = ask]
           d == [b EXCEPT !.input = Nil]
           o == [d EXCEPT !.decided = Agent!Off.decided]
<1>1. a \in LocalRow /\ a.step = s
  BY DEF AgentInv, LocalRow
<1> HIDE DEF a
<1>2. b \in LocalRow /\ b.step = s /\ b.ask = ask
  BY <1>1 DEF LocalRow
<1> HIDE DEF b
<1>3. d \in LocalRow /\ d.step = s /\ d.ask = ask
  BY <1>2 DEF LocalRow
<1> HIDE DEF d
<1>4. /\ o \in LocalRow /\ o.step = s /\ o.ask = ask
      /\ \A c \in ToolCall : o.decided[c] = "none"
  BY <1>3, OffFields DEF LocalRow
<1>5. Onward(p, s, ask) = o
  BY DEF Onward, a, b, d
<1>6. Agent!Running(p, s, ask) => local' = [local EXCEPT ![p] = Onward(p, s, ask)]
  BY DEF Agent!Running, Onward, AgentInv
<1> QED BY <1>4, <1>5, <1>6

\* What is sound stays sound as the row moves on, approvals are given and the
\* ledger grows, as long as nobody else runs the call.
LEMMA SoundKept ==
  ASSUME AgentConstants, NEW x, NEW n, NEW a, NEW l, NEW w,
         Sound(x, run, approval, ledger, writes), RunSound(run), RunMoves(run, n),
         \A c \in ToolCall : approval[c] = "approved" => a[c] = "approved",
         x.step = "write" => l[x.ask] # "none" /\ w[x.ask] = 0
  PROVE  Sound(x, n, a, l, w)
<1>1. run.version \in Nat /\ n.version \in Nat /\ run.version <= n.version
      /\ (n.version = run.version => n.cancel = run.cancel)
  BY DEF AgentConstants, RunSound, RunMoves, Agent!Row
<1>2. x.step \in {"suspend", "review"} => x.seen \in Nat
  BY DEF Sound, LocalRow
<1> QED BY <1>1, <1>2 DEF Sound

\* One process moves; the approvals and the ledger do not.
LEMMA AgentQuiet ==
  ASSUME AgentConstants, AgentInv, RunMoves(run, run'), NEW p \in Process, NEW x,
         local' = [local EXCEPT ![p] = x], Sound(x, run', approval, ledger, writes),
         x.step # "write", saved' \in Seq(Agent!Checkpoint),
         issued' \subseteq ToolCall, UNCHANGED <<approval, ledger, writes>>
  PROVE  AgentInv'
<1>1. x \in LocalRow
  BY DEF Sound
<1>2. /\ local' \in [Process -> LocalRow] /\ local'[p] = x
      /\ \A q \in Process : q # p => local'[q] = local[q]
  BY <1>1 DEF AgentInv
<1>3. ASSUME NEW q \in Process PROVE Sound(local'[q], run', approval', ledger', writes')
  <2>1. CASE q = p
    BY <1>2, <2>1
  <2>2. CASE q # p
    <3>1. Sound(local[q], run, approval, ledger, writes)
      BY DEF AgentInv
    <3>2. local[q].step = "write" => ledger[local[q].ask] # "none" /\ writes[local[q].ask] = 0
      BY <3>1 DEF Sound
    <3>3. Sound(local[q], run', approval, ledger, writes)
      BY <3>1, <3>2, SoundKept DEF AgentInv
    <3> QED BY <1>2, <2>2, <3>3
  <2> QED BY <2>1, <2>2
<1>4. OneWriter'
  BY <1>2 DEF AgentInv, OneWriter
<1>5. AgentTables' /\ LedgerNamesWrites' /\ RunSound(run')
  BY DEF AgentInv, AgentTables, LedgerNamesWrites, RunMoves
<1> QED BY <1>2, <1>3, <1>4, <1>5 DEF AgentInv


\* Where a process that ends, throws or settles stands afterwards.
LEMMA SoundAfresh ==
  ASSUME AgentConstants, AgentInv, NEW p \in Process, NEW n,
         NEW s \in {"off", "catch", "verify"}, NEW ask \in Agent!Checkpoint \cup {Nil}
  PROVE  /\ Sound(Agent!Off, n, approval, ledger, writes)
         /\ Sound(Afresh(p, s, ask), n, approval, ledger, writes)
<1>1. s \in Agent!Step /\ s \notin Operating \cup {"accept", "suspend", "review", "write"}
  BY DEF Agent!Step, Operating
<1> QED BY <1>1, AfreshFields, OffFields DEF Sound, Operating

LEMMA AgentLeaves ==
  ASSUME AgentConstants, AgentInv, RunMoves(run, run'), NEW p \in Process,
         Agent!Leave(p) \/ Agent!Throw(p), saved' \in Seq(Agent!Checkpoint),
         UNCHANGED <<approval, issued, ledger, writes>>
  PROVE  AgentInv'
<1>1. issued' \subseteq ToolCall
  BY DEF AgentInv, AgentTables
<1>2. CASE local' = [local EXCEPT ![p] = Agent!Off]
  <2>1. Sound(Agent!Off, run', approval, ledger, writes) /\ Agent!Off.step # "write"
    BY SoundAfresh, OffFields
  <2> QED BY <1>1, <1>2, <2>1, AgentQuiet
<1>3. CASE Agent!Forgetting(p, "catch", Nil)
  <2>1. local' = [local EXCEPT ![p] = Afresh(p, "catch", Nil)]
    BY <1>3 DEF Agent!Forgetting, Afresh
  <2>2. Sound(Afresh(p, "catch", Nil), run', approval, ledger, writes)
    BY SoundAfresh
  <2>3. Afresh(p, "catch", Nil).step # "write"
    BY AfreshFields DEF Agent!Step
  <2> QED BY <1>1, <2>1, <2>2, <2>3, AgentQuiet
<1> QED BY <1>2, <1>3 DEF Agent!Leave, Agent!Throw

Outcomes == {"cancelled", "failed_safely", "succeeded", "waiting_approval", "waiting_dependency"}
LEMMA OutcomesRank ==
  ASSUME RunSound(run), NEW to \in Outcomes, Agent!canTransition(run.state, to)
  PROVE  /\ to \in Agent!State /\ Rank(to) < Rank(run.state)
         /\ run.state \notin Agent!terminalStates
BY DEF RunSound, Outcomes, Agent!canTransition, Agent!State, Agent!Row, Rank, Agent!terminalStates,
       Agent!Active

\* Settling, whatever comes of it.
LEMMA AgentSettles ==
  ASSUME AgentConstants, AgentInv, NEW p \in Process, NEW v, NEW to \in Outcomes,
         Agent!Settle(p, v, to), saved' \in Seq(Agent!Checkpoint),
         run.cancel /\ run.version = v => to \in {"cancelled", "failed_safely"},
         UNCHANGED <<approval, issued, ledger, writes>>
  PROVE  AgentInv' /\ RunMoves(run, run')
<1>s. RunSound(run)
  BY DEF AgentInv
<1>1. CASE run.version = v /\ Agent!canTransition(run.state, to)
  <2>1. run' = Agent!Moved(to) /\ Agent!Leave(p)
    BY <1>1 DEF Agent!Settle
  <2>2. RunMoves(run, Agent!Moved(to))
    BY <1>s, <1>1, OutcomesRank, RunMoved
  <2> QED BY <2>1, <2>2, AgentLeaves
<1>2. CASE ~(run.version = v /\ Agent!canTransition(run.state, to))
  <2>1. UNCHANGED run /\ Agent!Throw(p)
    BY <1>2 DEF Agent!Settle
  <2>2. RunMoves(run, run')
    BY <1>s, <2>1, RunStays
  <2> QED BY <2>1, <2>2, AgentLeaves
<1> QED BY <1>1, <1>2

\* A process moves on to a step that carries nothing out and settles nothing.
LEMMA AgentGoes ==
  ASSUME AgentConstants, AgentInv, RunMoves(run, run'), NEW p \in Process, NEW x \in LocalRow,
         local' = [local EXCEPT ![p] = x],
         x.step \notin {"tool", "write", "written", "accept", "suspend", "review"},
         \A c \in ToolCall : x.decided[c] = "approved" => approval[c] = "approved",
         UNCHANGED <<saved, issued, approval, ledger, writes>>
  PROVE  AgentInv'
<1>1. Sound(x, run', approval, ledger, writes) /\ x.step # "write"
  BY DEF Sound, Operating
<1>2. saved' \in Seq(Agent!Checkpoint) /\ issued' \subseteq ToolCall
  BY DEF AgentInv, AgentTables
<1> QED BY <1>1, <1>2, AgentQuiet

LEMMA AgentStarts ==
  ASSUME AgentConstants, AgentInv, NEW p \in Process, Agent!Start(p)
  PROVE  AgentInv' /\ RunMoves(run, run')
<1>s. RunSound(run) /\ run \in Agent!Row
  BY DEF AgentInv, RunSound
<1>q. UNCHANGED <<saved, issued, approval, ledger, writes>> /\ saved' \in Seq(Agent!Checkpoint)
  BY DEF AgentInv, AgentTables, Agent!Start, Agent!tool
<1>1. CASE run.state # "running"
  <2>1. Agent!Throw(p) /\ UNCHANGED run
    BY <1>1 DEF Agent!Start
  <2> QED BY <1>s, <1>q, <2>1, RunStays, AgentLeaves
<1>2. CASE run.state = "running" /\ run.cancel
  <2>1. Agent!Settle(p, run.version, "cancelled")
    BY <1>2 DEF Agent!Start
  <2> QED BY <1>q, <2>1, AgentSettles DEF Outcomes
<1>3. CASE run.state = "running" /\ ~run.cancel
  <2> DEFINE a == [local[p] EXCEPT !.step = "resolve"]
             b == [a EXCEPT !.seen = run.version]
             o == [b EXCEPT !.as = run.claimedBy]
  <2>1. /\ local' = [local EXCEPT ![p].step = "resolve", ![p].seen = run.version,
                                  ![p].as = run.claimedBy]
        /\ UNCHANGED run
    BY <1>3 DEF Agent!Start
  <2>2. local' = [local EXCEPT ![p] = o]
    BY <2>1 DEF AgentInv
  <2>3. local[p] \in LocalRow /\ Sound(local[p], run, approval, ledger, writes)
    BY DEF AgentInv
  <2>4. a \in LocalRow /\ a.step = "resolve" /\ a.decided = local[p].decided
    BY <2>3 DEF LocalRow, Agent!Step
  <2> HIDE DEF a
  <2>5. b \in LocalRow /\ b.step = "resolve" /\ b.decided = local[p].decided
    BY <1>s, <2>4 DEF LocalRow, Agent!Row, AgentConstants
  <2> HIDE DEF b
  <2>6. o \in LocalRow /\ o.step = "resolve" /\ o.decided = local[p].decided
    BY <1>s, <2>5 DEF LocalRow, Agent!Row
  <2> HIDE DEF o
  <2>7. \A c \in ToolCall : o.decided[c] = "approved" => approval[c] = "approved"
    BY <2>3, <2>6 DEF Sound
  <2> QED BY <1>s, <1>q, <2>1, <2>2, <2>6, <2>7, RunStays, AgentGoes
<1> QED BY <1>1, <1>2, <1>3

LEMMA AgentBegins ==
  ASSUME AgentConstants, AgentInv, NEW p \in Process,
         Agent!Refuse(p) \/ Agent!Begin(p) \/ Agent!Beat(p) \/ Agent!Fail(p)
  PROVE  AgentInv' /\ RunMoves(run, run')
<1>s. RunSound(run) /\ run \in Agent!Row
  BY DEF AgentInv, RunSound
<1>q. UNCHANGED <<saved, issued, approval, ledger, writes>> /\ saved' \in Seq(Agent!Checkpoint)
  BY DEF AgentInv, AgentTables, Agent!Refuse, Agent!Begin, Agent!Beat, Agent!Fail, Agent!tool,
         Agent!rows
<1>l. /\ local[p] \in LocalRow /\ Sound(local[p], run, approval, ledger, writes)
      /\ Agent!Abort(local[p].as) \in {"no", "cancel", "lost"}
  BY DEF AgentInv, Agent!Abort
<1>1. CASE Agent!Refuse(p)
  <2>1. Agent!Settle(p, local[p].seen, "failed_safely")
    BY <1>1 DEF Agent!Refuse
  <2> QED BY <1>q, <2>1, AgentSettles DEF Outcomes
<1>2. CASE Agent!Begin(p)
  <2> DEFINE a == [local[p] EXCEPT !.step = "execute"]
             b == [a EXCEPT !.seen = 0]
             d == [b EXCEPT !.input = Agent!Latest]
             e == [d EXCEPT !.decided = approval]
             o == [e EXCEPT !.aborted = Agent!Abort(local[p].as)]
  <2>1. /\ local' = [local EXCEPT ![p].step = "execute", ![p].seen = 0, ![p].input = Agent!Latest,
                            ![p].decided = approval, ![p].aborted = Agent!Abort(local[p].as)]
        /\ run' = Agent!Touched(local[p].as)
    BY <1>2 DEF Agent!Begin
  <2>2. local' = [local EXCEPT ![p] = o]
    BY <2>1 DEF AgentInv
  <2>3. Agent!Latest \in Agent!Checkpoint \cup {Nil}
    <3>1. saved \in Seq(Agent!Checkpoint)
      BY DEF AgentInv, AgentTables
    <3> QED BY <3>1 DEF Agent!Latest, Agent!Last
  <2>4. a \in LocalRow /\ a.step = "execute"
    BY <1>l DEF LocalRow, Agent!Step
  <2> HIDE DEF a
  <2>5. b \in LocalRow /\ b.step = "execute"
    BY <2>4 DEF LocalRow
  <2> HIDE DEF b
  <2>6. d \in LocalRow /\ d.step = "execute"
    BY <2>3, <2>5 DEF LocalRow
  <2> HIDE DEF d
  <2>7. e \in LocalRow /\ e.step = "execute" /\ e.decided = approval
    BY <2>6 DEF LocalRow, AgentInv, AgentTables
  <2> HIDE DEF e
  <2>8. o \in LocalRow /\ o.step = "execute" /\ o.decided = approval
    BY <1>l, <2>7 DEF LocalRow
  <2> HIDE DEF o
  <2>9. RunMoves(run, run')
    BY <1>s, <2>1, RunTouched
  <2> QED BY <1>q, <2>2, <2>8, <2>9, AgentGoes
<1>3. CASE Agent!Beat(p)
  <2> DEFINE w == IF local[p].aborted = "lost" THEN "lost" ELSE Agent!Abort(local[p].as)
             o == [local[p] EXCEPT !.aborted = w]
  <2>1. /\ local' = [local EXCEPT ![p] = o] /\ run' = Agent!Touched(local[p].as)
        /\ local[p].step \in {"execute", "tool", "write", "written", "think"}
    BY <1>3 DEF Agent!Beat
  <2>2. w \in {"no", "cancel", "lost"}
    BY <1>l
  <2> HIDE DEF w
  <2>3. /\ o \in LocalRow /\ o.step = local[p].step /\ o.ask = local[p].ask
        /\ o.decided = local[p].decided /\ o.seen = local[p].seen
    BY <1>l, <2>2 DEF LocalRow
  <2> HIDE DEF o
  <2>4. RunMoves(run, run')
    BY <1>s, <2>1, RunTouched
  <2>5. Sound(o, run', approval, ledger, writes)
    BY <1>l, <2>1, <2>3 DEF Sound
  <2>6. ASSUME NEW q \in Process PROVE Sound(local'[q], run', approval', ledger', writes')
    <3>1. Sound(local[q], run, approval, ledger, writes)
      BY DEF AgentInv
    <3>2. local[q].step = "write" => ledger[local[q].ask] # "none" /\ writes[local[q].ask] = 0
      BY <3>1 DEF Sound
    <3>3. Sound(local[q], run', approval, ledger, writes)
      BY <1>s, <2>4, <3>1, <3>2, SoundKept
    <3>4. local'[q] = IF q = p THEN o ELSE local[q]
      BY <2>1 DEF AgentInv
    <3> QED BY <1>q, <2>5, <3>3, <3>4
  <2>7. local' \in [Process -> LocalRow] /\ OneWriter'
    BY <2>1, <2>3 DEF AgentInv, OneWriter
  <2>8. AgentTables' /\ LedgerNamesWrites' /\ RunSound(run')
    BY <1>q, <2>4 DEF AgentInv, AgentTables, LedgerNamesWrites, RunMoves
  <2> QED BY <2>4, <2>6, <2>7, <2>8 DEF AgentInv
<1>4. CASE Agent!Fail(p)
  <2>1. Agent!Throw(p) /\ UNCHANGED run
    BY <1>4 DEF Agent!Fail, Agent!rows
  <2> QED BY <1>s, <1>q, <2>1, RunStays, AgentLeaves
<1> QED BY <1>1, <1>2, <1>3, <1>4

\* The model answers, the gate of approvals lets a call through or not.
LEMMA AgentExecutes ==
  ASSUME AgentConstants, AgentInv, NEW p \in Process, Agent!Execute(p) \/ Agent!Think(p)
  PROVE  AgentInv' /\ RunMoves(run, run')
<1>s. RunSound(run) /\ RunMoves(run, run)
  BY RunStays DEF AgentInv
<1>q. UNCHANGED <<run, saved, approval, ledger, writes>> /\ saved' \in Seq(Agent!Checkpoint)
  BY DEF AgentInv, AgentTables, Agent!Execute, Agent!Think, Agent!tool, Agent!rows
<1>l. local[p] \in LocalRow /\ Sound(local[p], run, approval, ledger, writes)
  BY DEF AgentInv
<1>i. issued' \subseteq ToolCall
  BY DEF AgentInv, AgentTables, Agent!Execute, Agent!Think, Agent!tool
<1>n. ASSUME NEW s \in {"accept", "tool", "think"}, NEW ask \in Agent!Checkpoint \cup {Nil},
             Agent!Running(p, s, ask), s = "accept" => ask \in Agent!Checkpoint,
             s = "tool" => ask \in ToolCall /\ approval[ask] = "approved"
      PROVE  AgentInv'
  <2> DEFINE x == Onward(p, s, ask)
  <2>1. /\ x \in LocalRow /\ x.step = s /\ x.ask = ask
        /\ \A c \in ToolCall : x.decided[c] = "none"
        /\ local' = [local EXCEPT ![p] = x]
    BY <1>n, OnwardFields DEF Agent!Step
  <2> HIDE DEF x
  <2>2. Sound(x, run', approval, ledger, writes)
    BY <1>n, <2>1 DEF Sound, Operating
  <2>3. RunMoves(run, run')
    BY <1>s, <1>q
  <2> QED BY <1>q, <1>i, <2>1, <2>2, <2>3, AgentQuiet
<1>1. CASE Agent!Execute(p)
  <2> DEFINE at == local[p].input
  <2>0. /\ at \in ToolCall \cup {"done", Nil} /\ local[p].decided \in [ToolCall -> Agent!Approval]
        /\ "done" \notin ToolCall /\ Nil \notin ToolCall /\ Nil # "done"
    BY <1>l DEF LocalRow, Agent!Checkpoint, AgentConstants
  <2>1. CASE at \in ToolCall /\ Agent!NothingDecided(p)
    <3>1. Agent!Running(p, "accept", at)
      <4>1. ~(local[p].decided[at] = "approved") /\ ~(local[p].decided[at] = "rejected")
        BY <2>1 DEF Agent!NothingDecided, Agent!Undecided
      <4> QED BY <1>1, <2>0, <2>1, <4>1 DEF Agent!Execute
    <3> QED BY <1>n, <1>s, <1>q, <2>1, <3>1 DEF Agent!Checkpoint
  <2>2. CASE at \in ToolCall /\ ~Agent!NothingDecided(p) /\ local[p].decided[at] \in Agent!Undecided
    <3>1. Agent!Throw(p)
      BY <1>1, <2>0, <2>2 DEF Agent!Execute, Agent!Undecided
    <3> QED BY <1>1, <1>s, <1>q, <3>1, AgentLeaves DEF Agent!Execute, Agent!tool
  <2>3. CASE at \in ToolCall /\ local[p].decided[at] = "approved"
    <3>1. Agent!Running(p, "tool", at)
      BY <1>1, <2>0, <2>3 DEF Agent!Execute, Agent!Undecided, Agent!NothingDecided
    <3>2. approval[at] = "approved"
      BY <1>l, <2>3 DEF Sound
    <3> QED BY <1>n, <1>s, <1>q, <2>3, <3>1, <3>2 DEF Agent!Checkpoint
  <2>4. CASE at \in ToolCall /\ local[p].decided[at] = "rejected"
    <3>1. Agent!Running(p, "think", Nil)
      BY <1>1, <2>0, <2>4 DEF Agent!Execute, Agent!Undecided, Agent!NothingDecided
    <3> QED BY <1>n, <1>s, <1>q, <3>1
  <2>5. CASE at = "done"
    <3>1. Agent!Running(p, "accept", at)
      BY <1>1, <2>0, <2>5 DEF Agent!Execute
    <3> QED BY <1>n, <1>s, <1>q, <2>5, <3>1 DEF Agent!Checkpoint
  <2>6. CASE at = Nil
    <3>1. Agent!Running(p, "think", Nil)
      BY <1>1, <2>0, <2>6 DEF Agent!Execute
    <3> QED BY <1>n, <1>s, <1>q, <3>1
  <2> QED BY <2>0, <2>1, <2>2, <2>3, <2>4, <2>5, <2>6 DEF Agent!Undecided, Agent!Approval
<1>2. CASE Agent!Think(p)
  <2>1. PICK ask \in Agent!Checkpoint : Agent!Running(p, "accept", ask)
    BY <1>2 DEF Agent!Think, Agent!Checkpoint
  <2> QED BY <1>n, <1>s, <1>q, <2>1
<1> QED BY <1>1, <1>2

\* The ledger lets one process run an approved call, once.
LEMMA AgentOperates ==
  ASSUME AgentConstants, AgentInv, NEW p \in Process,
         Agent!BeginOperation(p) \/ Agent!RunOperation(p) \/ Agent!EndOperation(p)
  PROVE  AgentInv' /\ RunMoves(run, run')
<1>s. RunSound(run) /\ RunMoves(run, run)
  BY RunStays DEF AgentInv
<1>q. UNCHANGED <<run, saved, approval, issued>>
  BY DEF Agent!BeginOperation, Agent!RunOperation, Agent!EndOperation, Agent!tool, Agent!rows
<1>l. /\ local \in [Process -> LocalRow] /\ local[p] \in LocalRow
      /\ \A q \in Process : Sound(local[q], run, approval, ledger, writes)
  BY DEF AgentInv
<1>t. /\ ledger \in [ToolCall -> Agent!Operation] /\ writes \in [ToolCall -> Nat] /\ AgentTables
  BY DEF AgentInv, AgentTables
<1> DEFINE k == local[p].ask
<1>k. k \in ToolCall /\ approval[k] = "approved"
  BY <1>l DEF Sound, Operating, Agent!BeginOperation, Agent!RunOperation, Agent!EndOperation
<1> HIDE DEF k
<1>m. ASSUME NEW x \in LocalRow, local' = [local EXCEPT ![p] = x],
             Sound(x, run', approval', ledger', writes'), AgentTables', LedgerNamesWrites',
             x.step = "write" => x.ask = k /\ ledger[k] = "none",
             \A q \in Process : q # p /\ local[q].step = "write"
               => ledger'[local[q].ask] # "none" /\ writes'[local[q].ask] = 0
      PROVE  AgentInv' /\ RunMoves(run, run')
  <2>1. /\ local' \in [Process -> LocalRow] /\ local'[p] = x
        /\ \A q \in Process : q # p => local'[q] = local[q]
    BY <1>m, <1>l
  <2>2. ASSUME NEW q \in Process PROVE Sound(local'[q], run', approval', ledger', writes')
    <3>1. CASE q = p
      BY <1>m, <2>1, <3>1
    <3>2. CASE q # p
      <4>1. Sound(local[q], run, approval, ledger', writes')
        BY <1>m, <1>l, <1>s, <3>2, SoundKept
      <4> QED BY <1>q, <2>1, <3>2, <4>1
    <3> QED BY <3>1, <3>2
  <2>3. OneWriter'
    <3> SUFFICES ASSUME NEW q \in Process, NEW r \in Process, q # r,
                        local'[q].step = "write", local'[r].step = "write",
                        local'[q].ask = local'[r].ask
                 PROVE  FALSE
      BY DEF OneWriter
    <3>1. CASE q # p /\ r # p
      BY <2>1, <3>1 DEF AgentInv, OneWriter
    <3>2. CASE q = p
      BY <1>m, <1>l, <2>1, <3>2 DEF Sound
    <3>3. CASE r = p
      BY <1>m, <1>l, <2>1, <3>3 DEF Sound
    <3> QED BY <3>1, <3>2, <3>3
  <2>4. RunSound(run') /\ RunMoves(run, run')
    BY <1>q, <1>s
  <2> QED BY <1>m, <2>1, <2>2, <2>3, <2>4 DEF AgentInv
<1>w. \A q \in Process : local[q].step = "write"
        => ledger[local[q].ask] # "none" /\ writes[local[q].ask] = 0 /\ local[q].ask \in ToolCall
  BY <1>l DEF Sound, Operating
<1>o. LedgerNamesWrites
  BY DEF AgentInv
<1>f. /\ Onward(p, "think", Nil) \in LocalRow /\ Onward(p, "think", Nil).step = "think"
      /\ \A c \in ToolCall : Onward(p, "think", Nil).decided[c] = "none"
      /\ Agent!Running(p, "think", Nil) => local' = [local EXCEPT ![p] = Onward(p, "think", Nil)]
  BY OnwardFields DEF Agent!Step
<1>e. \A l, w : Sound(Onward(p, "think", Nil), run', approval', l, w)
  BY <1>f DEF Sound, Operating
<1>1. CASE Agent!BeginOperation(p) /\ ledger[k] # "none"
  <2>1. Agent!Running(p, "think", Nil) /\ UNCHANGED <<ledger, writes>>
    BY <1>1 DEF Agent!BeginOperation, Agent!Recorded, k
  <2>2. AgentTables' /\ LedgerNamesWrites'
    BY <1>q, <1>t, <1>o, <2>1 DEF AgentTables, LedgerNamesWrites
  <2> QED BY <1>m, <1>w, <1>f, <1>e, <2>1, <2>2
<1>2. CASE Agent!BeginOperation(p) /\ ledger[k] = "none"
  <2> DEFINE x == [local[p] EXCEPT !.step = "write"]
  <2>1. /\ ledger' = [ledger EXCEPT ![k] = "intent"] /\ UNCHANGED writes
        /\ local' = [local EXCEPT ![p] = x] /\ local[p].step = "tool"
    BY <1>2 DEF Agent!BeginOperation, Agent!Recorded, Agent!Goto, k
  <2>2. x \in LocalRow /\ x.step = "write" /\ x.ask = k /\ x.decided = local[p].decided
    BY <1>l DEF LocalRow, Agent!Step, k
  <2> HIDE DEF x
  <2>3. ledger'[k] = "intent" /\ \A c \in ToolCall : c # k => ledger'[c] = ledger[c]
    BY <1>t, <1>k, <2>1
  <2>4. writes[k] = 0
    BY <1>2, <1>k, <1>o DEF LedgerNamesWrites
  <2>5. Sound(x, run', approval', ledger', writes')
    BY <1>q, <1>k, <1>l, <2>1, <2>2, <2>3, <2>4 DEF Sound, Operating
  <2>6. AgentTables' /\ LedgerNamesWrites'
    BY <1>q, <1>t, <1>o, <2>1, <2>3, <2>4 DEF AgentTables, LedgerNamesWrites, Agent!Operation
  <2>7. \A q \in Process : q # p /\ local[q].step = "write"
          => ledger'[local[q].ask] # "none" /\ writes'[local[q].ask] = 0
    BY <1>w, <2>1, <2>3
  <2> QED BY <1>m, <1>2, <2>1, <2>2, <2>5, <2>6, <2>7
<1>3. CASE Agent!RunOperation(p)
  <2> DEFINE x == [local[p] EXCEPT !.step = "written"]
  <2>1. /\ writes' = [writes EXCEPT ![k] = @ + 1] /\ UNCHANGED ledger
        /\ local' = [local EXCEPT ![p] = x] /\ local[p].step = "write"
    BY <1>3 DEF Agent!RunOperation, Agent!Goto, k
  <2>2. x \in LocalRow /\ x.step = "written" /\ x.ask = k /\ x.decided = local[p].decided
    BY <1>l DEF LocalRow, Agent!Step, k
  <2> HIDE DEF x
  <2>3. /\ writes[k] = 0 /\ writes'[k] = 1 /\ ledger[k] # "none"
        /\ \A c \in ToolCall : c # k => writes'[c] = writes[c]
    BY <1>t, <1>k, <1>w, <2>1 DEF k
  <2>4. Sound(x, run', approval', ledger', writes')
    BY <1>q, <1>k, <1>l, <2>1, <2>2 DEF Sound, Operating
  <2>5. AgentTables' /\ LedgerNamesWrites'
    BY <1>q, <1>t, <1>o, <1>k, <2>1, <2>3 DEF AgentTables, LedgerNamesWrites
  <2>6. \A q \in Process : q # p /\ local[q].step = "write"
          => ledger'[local[q].ask] # "none" /\ writes'[local[q].ask] = 0
    <3>1. \A q \in Process : q # p /\ local[q].step = "write" => local[q].ask # k
      BY <2>1 DEF AgentInv, OneWriter, k
    <3> QED BY <1>w, <2>1, <2>3, <3>1
  <2> QED BY <1>m, <2>1, <2>2, <2>4, <2>5, <2>6
<1>4. CASE Agent!EndOperation(p)
  <2>1. /\ Agent!Running(p, "think", Nil) /\ UNCHANGED writes
        /\ ledger' = [ledger EXCEPT ![k] = "completed"] \/ ledger' = ledger
    BY <1>4 DEF Agent!EndOperation, k
  <2>2. \A c \in ToolCall : ledger'[c] = ledger[c] \/ ledger'[c] = "completed"
    BY <1>t, <2>1
  <2>3. ledger' \in [ToolCall -> Agent!Operation]
    BY <1>t, <2>1 DEF Agent!Operation
  <2>4. AgentTables' /\ LedgerNamesWrites'
    BY <1>q, <1>t, <1>o, <2>1, <2>2, <2>3 DEF AgentTables, LedgerNamesWrites
  <2>5. \A q \in Process : q # p /\ local[q].step = "write"
          => ledger'[local[q].ask] # "none" /\ writes'[local[q].ask] = 0
    BY <1>w, <2>1, <2>2
  <2> QED BY <1>m, <1>f, <1>e, <2>1, <2>4, <2>5
<1> QED BY <1>1, <1>2, <1>3, <1>4

\* What the executor returned is accepted, verified and settled.
LEMMA AgentConcludes ==
  ASSUME AgentConstants, AgentInv, NEW p \in Process,
         \/ Agent!Accept(p) \/ Agent!Verify(p) \/ Agent!Conclude(p)
         \/ Agent!Suspend(p) \/ Agent!Review(p) \/ Agent!Catch(p) \/ Agent!Crash(p)
  PROVE  AgentInv' /\ RunMoves(run, run')
<1>s. RunSound(run) /\ run \in Agent!Row /\ RunMoves(run, run) /\ run.version \in Nat
  BY RunStays DEF AgentInv, RunSound, Agent!Row, AgentConstants
<1>q. UNCHANGED <<issued, ledger, writes>> /\ issued' \subseteq ToolCall
  BY DEF AgentInv, AgentTables, Agent!Accept, Agent!Verify, Agent!Conclude, Agent!Suspend,
         Agent!Review, Agent!Catch, Agent!Crash, Agent!tool
<1>l. /\ local[p] \in LocalRow /\ Sound(local[p], run, approval, ledger, writes)
      /\ saved \in Seq(Agent!Checkpoint) /\ local \in [Process -> LocalRow]
  BY DEF AgentInv, AgentTables
<1>1. CASE Agent!Accept(p)
  <2> DEFINE aborted == IF local[p].aborted = "no" THEN Agent!Abort(local[p].as)
                        ELSE local[p].aborted
             ask == local[p].ask
  <2>0. ask \in Agent!Checkpoint /\ UNCHANGED approval
    BY <1>1, <1>l DEF Agent!Accept, Sound, Agent!tool
  <2>1. CASE aborted = "lost" \/ ~Agent!Owned(local[p].as)
    <3>1. Agent!Throw(p) /\ UNCHANGED <<run, saved>>
      BY <1>1, <2>1 DEF Agent!Accept
    <3> QED BY <1>s, <1>q, <1>l, <2>0, <3>1, AgentLeaves
  <2>2. CASE aborted = "cancel" /\ Agent!Owned(local[p].as)
    <3>1. Agent!Settle(p, run.version, "cancelled") /\ UNCHANGED saved
      BY <1>1, <2>2 DEF Agent!Accept
    <3> QED BY <1>q, <1>l, <2>0, <3>1, AgentSettles DEF Outcomes
  <2>3. CASE aborted \notin {"lost", "cancel"} /\ Agent!Owned(local[p].as)
    <3>1. /\ Agent!SaveCheckpoint(ask)
          /\ \/ Agent!Settle(p, run.version, "failed_safely")
             \/ run' = Agent!Touched(local[p].as) /\ Agent!Forgetting(p, "verify", ask)
      BY <1>1, <2>3 DEF Agent!Accept
    <3>2. saved' \in Seq(Agent!Checkpoint)
      BY <1>l, <2>0, <3>1 DEF Agent!SaveCheckpoint
    <3>3. CASE Agent!Settle(p, run.version, "failed_safely")
      BY <1>q, <1>l, <2>0, <3>2, <3>3, AgentSettles DEF Outcomes
    <3>4. CASE run' = Agent!Touched(local[p].as) /\ Agent!Forgetting(p, "verify", ask)
      <4>1. local' = [local EXCEPT ![p] = Afresh(p, "verify", ask)]
        BY <3>4 DEF Agent!Forgetting, Afresh
      <4>2. RunMoves(run, run')
        BY <1>s, <3>4, RunTouched
      <4>3. /\ Sound(Afresh(p, "verify", ask), run', approval, ledger, writes)
            /\ Afresh(p, "verify", ask).step = "verify"
        BY SMTT(30), <2>0, SoundAfresh, AfreshFields DEF Agent!Step
      <4> QED BY <1>q, <2>0, <3>2, <4>1, <4>2, <4>3, AgentQuiet
    <3> QED BY <3>1, <3>3, <3>4
  <2>4. aborted \in {"no", "cancel", "lost"}
    BY <1>l DEF LocalRow, Agent!Abort
  <2> QED BY <2>1, <2>2, <2>3, <2>4
<1>2. CASE Agent!Verify(p)
  <2>0. UNCHANGED <<approval, saved>>
    BY <1>2 DEF Agent!Verify
  <2>1. CASE Agent!Settle(p, run.version, "failed_safely")
    BY <1>q, <1>l, <2>0, <2>1, AgentSettles DEF Outcomes
  <2>2. CASE Agent!Goto(p, "conclude") /\ UNCHANGED run
    <3> DEFINE x == [local[p] EXCEPT !.step = "conclude"]
    <3>1. local' = [local EXCEPT ![p] = x]
      BY <2>2 DEF Agent!Goto
    <3>2. x \in LocalRow /\ x.step = "conclude" /\ x.decided = local[p].decided
      BY <1>l DEF LocalRow, Agent!Step
    <3> HIDE DEF x
    <3>3. \A c \in ToolCall : x.decided[c] = "approved" => approval[c] = "approved"
      BY <1>l, <3>2 DEF Sound
    <3>4. RunMoves(run, run')
      BY <1>s, <2>2
    <3> QED BY <1>q, <2>0, <3>1, <3>2, <3>3, <3>4, AgentGoes
  <2> QED BY <1>2, <2>1, <2>2 DEF Agent!Verify
<1>3. CASE Agent!Conclude(p) /\ run.cancel
  <2>1. Agent!Settle(p, run.version, "cancelled") /\ UNCHANGED <<approval, saved>>
    BY <1>3 DEF Agent!Conclude
  <2> QED BY <1>q, <1>l, <2>1, AgentSettles DEF Outcomes
<1>4. CASE Agent!Conclude(p) /\ ~run.cancel /\ local[p].ask \in ToolCall
  <2> DEFINE k == local[p].ask
             a == [local[p] EXCEPT !.step = "suspend"]
             x == [a EXCEPT !.seen = run.version]
  <2>0. k # "done"
    BY <1>4 DEF AgentConstants
  <2>1. /\ approval' = Agent!Requested(k) /\ UNCHANGED <<run, saved>>
        /\ local' = [local EXCEPT ![p].step = "suspend", ![p].seen = run.version]
    BY <1>4, <2>0 DEF Agent!Conclude
  <2>2. local' = [local EXCEPT ![p] = x]
    BY <1>l, <2>1
  <2>3. a \in LocalRow /\ a.step = "suspend" /\ a.decided = local[p].decided
    BY <1>l DEF LocalRow, Agent!Step
  <2> HIDE DEF a
  <2>4. x \in LocalRow /\ x.step = "suspend" /\ x.seen = run.version /\ x.decided = local[p].decided
    BY <1>s, <2>3 DEF LocalRow
  <2> HIDE DEF x
  <2>5. approval \in [ToolCall -> Agent!Approval]
    BY DEF AgentInv, AgentTables
  <2>6. /\ approval' \in [ToolCall -> Agent!Approval]
        /\ \A c \in ToolCall : approval[c] = "approved" => approval'[c] = "approved"
    BY <2>1, <2>5 DEF Agent!Requested, Agent!Approval
  <2>7. RunMoves(run, run')
    BY <1>s, <2>1
  <2>8. Sound(x, run', approval', ledger', writes')
    BY <1>4, <1>l, <1>s, <2>1, <2>4, <2>6 DEF Sound, Operating
  <2>9. /\ local' \in [Process -> LocalRow] /\ local'[p] = x
        /\ \A q \in Process : q # p => local'[q] = local[q]
    BY <1>l, <2>2, <2>4
  <2>10. ASSUME NEW q \in Process PROVE Sound(local'[q], run', approval', ledger', writes')
    <3>1. CASE q = p
      BY <2>8, <2>9, <3>1
    <3>2. CASE q # p
      <4>1. Sound(local[q], run, approval, ledger, writes)
        BY DEF AgentInv
      <4>2. local[q].step = "write" => ledger[local[q].ask] # "none" /\ writes[local[q].ask] = 0
        BY <4>1 DEF Sound
      <4>3. Sound(local[q], run', approval', ledger, writes)
        BY <1>s, <2>6, <2>7, <4>1, <4>2, SoundKept
      <4> QED BY <1>q, <2>9, <3>2, <4>3
    <3> QED BY <3>1, <3>2
  <2>11. OneWriter'
    BY <2>4, <2>9 DEF AgentInv, OneWriter
  <2>12. AgentTables' /\ LedgerNamesWrites'
    BY <1>q, <2>1, <2>6 DEF AgentInv, AgentTables, LedgerNamesWrites
  <2>13. RunSound(run')
    BY <1>s, <2>1
  <2> QED BY <2>7, <2>9, <2>10, <2>11, <2>12, <2>13 DEF AgentInv
<1>5. CASE Agent!Conclude(p) /\ ~run.cancel /\ local[p].ask \notin ToolCall
  <2>0. UNCHANGED <<approval, saved>>
    BY <1>5 DEF Agent!Conclude
  <2>1. CASE \E to \in {"waiting_dependency", "failed_safely", "succeeded"} :
               Agent!Settle(p, run.version, to)
    BY <1>5, <1>q, <1>l, <2>0, <2>1, AgentSettles DEF Outcomes
  <2>2. CASE Agent!Throw(p) /\ UNCHANGED run
    BY <1>s, <1>q, <1>l, <2>0, <2>2, AgentLeaves
  <2>3. CASE /\ Agent!canTransition(run.state, "reviewing") /\ run' = Agent!Moved("reviewing")
             /\ local' = [local EXCEPT ![p].step = "review", ![p].seen = run.version + 1]
    <3> DEFINE a == [local[p] EXCEPT !.step = "review"]
               x == [a EXCEPT !.seen = run.version + 1]
    <3>1. local' = [local EXCEPT ![p] = x]
      BY <1>l, <2>3
    <3>2. a \in LocalRow /\ a.step = "review" /\ a.decided = local[p].decided
      BY <1>l DEF LocalRow, Agent!Step
    <3> HIDE DEF a
    <3>3. /\ x \in LocalRow /\ x.step = "review" /\ x.seen = run.version + 1
          /\ x.decided = local[p].decided
      BY <1>s, <3>2 DEF LocalRow
    <3> HIDE DEF x
    <3>4. RunMoves(run, Agent!Moved("reviewing"))
      BY <1>5, <1>s, <2>3, RunMoved DEF Agent!canTransition, Agent!State, Rank, Agent!terminalStates
    <3>5. run'.version = run.version + 1 /\ ~run'.cancel
      BY <1>5, <1>s, <2>3, MovedFields DEF Agent!State
    <3>6. Sound(x, run', approval, ledger, writes)
      BY <1>l, <1>s, <3>3, <3>5 DEF Sound, Operating
    <3>7. RunMoves(run, run')
      BY <2>3, <3>4
    <3> QED BY <1>q, <1>l, <2>0, <3>1, <3>3, <3>6, <3>7, AgentQuiet
  <2> QED BY <1>5, <2>1, <2>2, <2>3 DEF Agent!Conclude
<1>6. CASE Agent!Suspend(p) \/ Agent!Review(p)
  <2>0. UNCHANGED <<approval, saved>>
    BY <1>6 DEF Agent!Suspend, Agent!Review
  <2>1. PICK to \in {"waiting_approval", "succeeded"} : Agent!Settle(p, local[p].seen, to)
    BY <1>6 DEF Agent!Suspend, Agent!Review
  <2>2. ~(run.cancel /\ run.version = local[p].seen)
    BY <1>6, <1>l DEF Sound, Agent!Suspend, Agent!Review
  <2> QED BY <1>q, <1>l, <2>0, <2>1, <2>2, AgentSettles DEF Outcomes
<1>7. CASE Agent!Catch(p)
  <2>0. UNCHANGED <<approval, saved>> /\ Agent!Leave(p)
    BY <1>7 DEF Agent!Catch
  <2>1. CASE run.state \in Agent!Active
    <3>1. PICK to \in {"cancelled", "failed_safely"} : run' = Agent!Moved(to)
      BY <1>7, <2>1 DEF Agent!Catch
    <3>2. RunMoves(run, Agent!Moved(to))
      BY <1>s, <2>1, RunMoved DEF Agent!Active, Agent!State, Rank, Agent!terminalStates
    <3> QED BY <1>q, <1>l, <2>0, <3>1, <3>2, AgentLeaves
  <2>2. CASE run.state \notin Agent!Active
    <3>1. UNCHANGED run
      BY <1>7, <2>2 DEF Agent!Catch
    <3> QED BY <1>s, <1>q, <1>l, <2>0, <3>1, AgentLeaves
  <2> QED BY <2>1, <2>2
<1>8. CASE Agent!Crash(p)
  <2>1. UNCHANGED <<run, approval, saved>> /\ Agent!Leave(p)
    BY <1>8 DEF Agent!Crash, Agent!rows
  <2> QED BY <1>s, <1>q, <1>l, <2>1, AgentLeaves
<1> QED BY <1>1, <1>2, <1>3, <1>4, <1>5, <1>6, <1>7, <1>8

\* Workers claim and reconcile, a person resumes.
LEMMA AgentTakesUp ==
  ASSUME AgentConstants, AgentInv, NEW p \in Process,
         Agent!Claim(p) \/ Agent!Reconcile(p) \/ Agent!Resume(p)
  PROVE  AgentInv' /\ RunMoves(run, run')
<1>s. RunSound(run) /\ run \in Agent!Row
  BY DEF AgentInv, RunSound
<1>q. UNCHANGED <<approval, saved, issued, ledger, writes>>
  BY DEF Agent!Claim, Agent!Reconcile, Agent!Resume, Agent!tool
<1>l. /\ local[p] \in LocalRow /\ local \in [Process -> LocalRow]
      /\ \A q \in Process : Sound(local[q], run, approval, ledger, writes)
  BY DEF AgentInv
<1>n. ASSUME NEW kind \in {"worker", "resume"}, RunMoves(run, run'),
             local' = [local EXCEPT ![p].step = "start", ![p].kind = kind]
      PROVE  AgentInv'
  <2> DEFINE a == [local[p] EXCEPT !.step = "start"]
             x == [a EXCEPT !.kind = kind]
  <2>1. local' = [local EXCEPT ![p] = x]
    BY <1>n, <1>l
  <2>2. a \in LocalRow /\ a.step = "start" /\ a.decided = local[p].decided
    BY <1>l DEF LocalRow, Agent!Step
  <2> HIDE DEF a
  <2>3. x \in LocalRow /\ x.step = "start" /\ x.decided = local[p].decided
    BY <2>2 DEF LocalRow
  <2> HIDE DEF x
  <2>4. \A c \in ToolCall : x.decided[c] = "approved" => approval[c] = "approved"
    BY <1>l, <2>3 DEF Sound
  <2> QED BY <1>n, <1>q, <2>1, <2>3, <2>4, AgentGoes
<1>u. ASSUME RunMoves(run, run'), UNCHANGED local PROVE AgentInv'
  <2>1. ASSUME NEW q \in Process PROVE Sound(local'[q], run', approval', ledger', writes')
    <3>1. local[q].step = "write" => ledger[local[q].ask] # "none" /\ writes[local[q].ask] = 0
      BY <1>l DEF Sound
    <3>2. Sound(local[q], run', approval, ledger, writes)
      BY <1>s, <1>l, <1>u, <3>1, SoundKept
    <3> QED BY <1>q, <1>u, <3>2
  <2> QED BY <1>q, <1>u, <2>1
          DEF AgentInv, AgentTables, OneWriter, LedgerNamesWrites, RunMoves
<1>1. CASE Agent!Claim(p)
  <2>1. RunMoves(run, run')
    BY <1>1, <1>s, RunTakenUp DEF Agent!Claim
  <2> QED BY <1>1, <1>n, <2>1 DEF Agent!Claim
<1>2. CASE Agent!Reconcile(p)
  <2>1. RunMoves(run, run')
    BY <1>2, <1>s, RunReconciled DEF Agent!Reconcile
  <2> QED BY <1>2, <1>u, <2>1 DEF Agent!Reconcile
<1>3. CASE Agent!Resume(p)
  <2>1. run.version < MaxVersion /\ run.state \in {"waiting_approval", "waiting_dependency"}
    BY <1>3 DEF Agent!Resume
  <2>2. \/ run' = Agent!Moved("failed_safely") /\ UNCHANGED local
        \/ /\ run' = Agent!Resumed(p)
           /\ local' = [local EXCEPT ![p].step = "start", ![p].kind = "resume"]
    BY <1>3 DEF Agent!Resume
  <2>3. RunMoves(run, run')
    BY <1>s, <2>1, <2>2, RunTakenUp
  <2> QED BY <1>n, <1>u, <2>2, <2>3
<1> QED BY <1>1, <1>2, <1>3

LEMMA AgentStep ==
  ASSUME AgentConstants, AgentInv, [Agent!Next]_(Agent!vars)
  PROVE  AgentInv' /\ RunMoves(run, run')
<1>s. RunSound(run) /\ RunMoves(run, run)
  BY RunStays DEF AgentInv
<1>u. ASSUME RunMoves(run, run'), UNCHANGED <<saved, issued, ledger, writes, local>>,
             approval' \in [ToolCall -> Agent!Approval],
             \A c \in ToolCall : approval[c] = "approved" => approval'[c] = "approved"
      PROVE  AgentInv'
  <2>1. ASSUME NEW q \in Process PROVE Sound(local'[q], run', approval', ledger', writes')
    <3>0. Sound(local[q], run, approval, ledger, writes)
      BY DEF AgentInv
    <3>1. local[q].step = "write" => ledger[local[q].ask] # "none" /\ writes[local[q].ask] = 0
      BY <3>0 DEF Sound
    <3>2. Sound(local[q], run', approval', ledger, writes)
      BY <1>s, <1>u, <3>0, <3>1, SoundKept
    <3> QED BY <1>u, <3>2
  <2> QED BY <1>u, <2>1 DEF AgentInv, AgentTables, OneWriter, LedgerNamesWrites, RunMoves
<1>a. approval \in [ToolCall -> Agent!Approval]
  BY DEF AgentInv, AgentTables
<1>1. CASE Agent!FallSilent
  <2>1. RunMoves(run, run')
    BY <1>1, <1>s, RunSilent
  <2> QED BY <1>1, <1>a, <1>u, <2>1 DEF Agent!FallSilent, Agent!tool
<1>2. CASE Agent!RequestCancellation
  <2>1. RunMoves(run, run')
    BY <1>2, <1>s, RunCancelled
  <2> QED BY <1>2, <1>a, <1>u, <2>1 DEF Agent!RequestCancellation, Agent!tool
<1>3. ASSUME NEW c \in ToolCall, Agent!Decide(c) PROVE AgentInv' /\ RunMoves(run, run')
  <2>1. /\ approval[c] = "pending" /\ UNCHANGED <<run, saved, issued, ledger, writes, local>>
        /\ \E d \in {"approved", "rejected"} : approval' = [approval EXCEPT ![c] = d]
    BY <1>3 DEF Agent!Decide, Agent!tool
  <2>2. /\ approval' \in [ToolCall -> Agent!Approval]
        /\ \A e \in ToolCall : approval[e] = "approved" => approval'[e] = "approved"
    BY <1>a, <2>1 DEF Agent!Approval
  <2>3. RunMoves(run, run')
    BY <1>s, <2>1
  <2> QED BY <1>u, <2>1, <2>2, <2>3
<1>4. CASE UNCHANGED Agent!vars
  <2>1. UNCHANGED <<run, approval, saved, issued, ledger, writes, local>>
    BY <1>4 DEF Agent!vars
  <2>2. RunMoves(run, run')
    BY <1>s, <2>1
  <2> QED BY <1>a, <1>u, <2>1, <2>2
<1>5. ASSUME NEW p \in Process, Agent!Executes(p) PROVE AgentInv' /\ RunMoves(run, run')
  BY <1>5, AgentStarts, AgentBegins, AgentExecutes, AgentOperates, AgentConcludes
  DEF Agent!Executes
<1>6. ASSUME NEW p \in Process, Agent!Crash(p) PROVE AgentInv' /\ RunMoves(run, run')
  BY <1>6, AgentConcludes
<1> QED BY <1>1, <1>2, <1>3, <1>4, <1>5, <1>6, AgentTakesUp DEF Agent!Next

LEMMA AgentInit == ASSUME AgentConstants, Agent!Init PROVE AgentInv
<1>1. RunSound(run)
  <2>1. PICK b \in BOOLEAN : run = [state |-> "queued", version |-> 0, claimedBy |-> Nil,
          beat |-> "none", cancel |-> FALSE, claims |-> 0, controlled |-> b]
    BY DEF Agent!Init
  <2>2. run.state = "queued" /\ run.version = 0 /\ run.claims = 0 /\ run.cancel = FALSE
    BY <2>1
  <2>3. run \in Agent!Row
    BY <2>1 DEF AgentConstants, Agent!Row, Agent!State
  <2>4. Rank(run.state) = 1
    BY <2>2 DEF Rank, Agent!terminalStates
  <2> QED BY <2>2, <2>3, <2>4 DEF RunSound, AgentConstants
<1>2. AgentTables /\ LedgerNamesWrites
  BY DEF Agent!Init, AgentTables, LedgerNamesWrites, Agent!Approval, Agent!Operation
<1>3. local \in [Process -> LocalRow] /\ \A p \in Process : local[p] = Agent!Off
  BY OffFields DEF Agent!Init
<1>4. \A p \in Process : Sound(local[p], run, approval, ledger, writes)
  BY <1>3, OffFields DEF Sound, Operating
<1>5. OneWriter
  BY <1>3, OffFields DEF OneWriter
<1> QED BY <1>1, <1>2, <1>3, <1>4, <1>5 DEF AgentInv

\* The run's row, its approvals and its ledger keep the invariant.
THEOREM AgentInvariance == ASSUME AgentConstants PROVE Agent!Spec => []AgentInv
<1>1. AgentInv /\ [Agent!Next]_(Agent!vars) => AgentInv'
  BY AgentStep
<1> QED BY <1>1, AgentInit, PTL DEF Agent!Spec

LEMMA AgentKeepsPromises == AgentInv => Agent!TypeOK /\ Agent!ApprovedRunsOnce
BY DEF AgentInv, AgentTables, RunSound, LocalRow, Agent!TypeOK, LedgerNamesWrites,
       Agent!ApprovedRunsOnce

\* Action property: a cancelled run never resumes, and what ended stays as it ended.
THEOREM CancelledRunsEnd == ASSUME AgentConstants PROVE Agent!Spec => Agent!CancelledNeverResumes
<1>1. AgentInv /\ [Agent!Next]_(Agent!vars)
        => [/\ run.cancel => run'.state \in {run.state, "cancelled", "failed_safely"}
            /\ run.state \in Agent!terminalStates => run'.state = run.state]_run
  BY AgentStep DEF RunMoves
<1> QED BY <1>1, AgentInvariance, PTL DEF Agent!Spec, Agent!CancelledNeverResumes

-----------------------------------------------------------------------------
(* The calls of the mesh: breakers, bulkheads and the budget of a call.    *)

Flying(q, r) == q.at \in {"waiting", "calling", "checking"} /\ q.route = r
Occupies(q, r) == IF q.at = "calling" /\ q.route = r THEN 1 ELSE 0
Calling(r) == {c \in Process : request[c].at = "calling" /\ request[c].route = r}

\* What a call has committed covers what its providers charged, and leaves room for
\* the deployment it is at.
Paid(q) ==
  /\ q \in Mesh!Request /\ q.attempts <= MaxAttempts /\ q.committed <= MaxCost
  /\ q.at \in {"waiting", "calling", "checking"} =>
       q.route \in Mesh!Route /\ q.committed + CostOf[q.route] <= MaxCost
  /\ q.at \in {"select", "waiting", "calling", "answered", "unavailable", "over_budget"} =>
       q.spent <= q.committed
  /\ q.at = "checking" => q.spent <= q.committed + q.last

MeshTables ==
  /\ circuit \in [Mesh!Route -> Mesh!Circuit] /\ permits \in [Mesh!Route -> Nat]
  /\ request = [c \in Process |-> request[c]] /\ \A c \in Process : Paid(request[c])
ProbesAreFlown ==
  \A r \in Mesh!Route : circuit[r].probe => \E c \in Process : Flying(request[c], r)
PermitsCover ==
  \A r \in Mesh!Route : permits[r] + Cardinality(Calling(r)) <= Permits
MeshInv == MeshTables /\ ProbesAreFlown /\ PermitsCover

\* One call moves: it may set a probe where it flies and take a permit where it
\* calls, and has to give back what it leaves.
LEMMA CallMoves ==
  ASSUME MeshConstants, MeshInv, NEW c \in Process, NEW x, Paid(x),
         request' = [request EXCEPT ![c] = x],
         circuit' \in [Mesh!Route -> Mesh!Circuit], permits' \in [Mesh!Route -> Nat],
         \A r \in Mesh!Route :
           circuit'[r].probe => Flying(x, r) \/ (circuit[r].probe /\ ~Flying(request[c], r)),
         \A r \in Mesh!Route :
           permits'[r] + Occupies(x, r) <= permits[r] + Occupies(request[c], r)
  PROVE  MeshInv'
<1>0. /\ request'[c] = x /\ \A d \in Process \ {c} : request'[d] = request[d]
      /\ request' = [d \in Process |-> request'[d]]
  BY DEF MeshInv, MeshTables
<1>1. MeshTables'
  BY <1>0 DEF MeshInv, MeshTables
<1>2. ProbesAreFlown'
  <2> SUFFICES ASSUME NEW r \in Mesh!Route, circuit'[r].probe
               PROVE  \E d \in Process : Flying(request'[d], r)
    BY DEF ProbesAreFlown
  <2>1. CASE Flying(x, r)
    BY <1>0, <2>1
  <2>2. CASE circuit[r].probe /\ ~Flying(request[c], r)
    BY <1>0, <2>2 DEF MeshInv, ProbesAreFlown
  <2> QED BY <2>1, <2>2
<1>3. PermitsCover'
  <2> SUFFICES ASSUME NEW r \in Mesh!Route
               PROVE  permits'[r] + Cardinality(Calling(r)') <= Permits
    BY DEF PermitsCover
  <2>1. /\ Calling(r) \subseteq Process /\ IsFiniteSet(Calling(r))
        /\ Cardinality(Calling(r)) \in Nat
    BY FS_Subset, FS_CardinalityType DEF Calling, MeshConstants
  <2>2. /\ permits[r] \in Nat /\ permits'[r] \in Nat /\ Permits \in Nat
        /\ permits[r] + Cardinality(Calling(r)) <= Permits
        /\ permits'[r] + Occupies(x, r) <= permits[r] + Occupies(request[c], r)
    BY DEF MeshInv, MeshTables, PermitsCover, MeshConstants
  <2>3. CASE Occupies(x, r) = 1
    <3>1. Calling(r)' = Calling(r) \cup {c}
      BY <1>0, <2>3 DEF Calling, Occupies
    <3>2. Cardinality(Calling(r)') = IF c \in Calling(r) THEN Cardinality(Calling(r))
                                     ELSE Cardinality(Calling(r)) + 1
      BY <2>1, <3>1, FS_AddElement
    <3>3. c \in Calling(r) <=> Occupies(request[c], r) = 1
      BY DEF Calling, Occupies
    <3> QED BY <2>1, <2>2, <2>3, <3>2, <3>3 DEF Occupies
  <2>4. CASE Occupies(x, r) = 0
    <3>1. Calling(r)' = Calling(r) \ {c}
      BY <1>0, <2>4 DEF Calling, Occupies
    <3>2. Cardinality(Calling(r)') = IF c \in Calling(r) THEN Cardinality(Calling(r)) - 1
                                     ELSE Cardinality(Calling(r))
      BY <2>1, <3>1, FS_RemoveElement
    <3>3. c \in Calling(r) <=> Occupies(request[c], r) = 1
      BY DEF Calling, Occupies
    <3> QED BY <2>1, <2>2, <2>4, <3>2, <3>3 DEF Occupies
  <2> QED BY <2>3, <2>4 DEF Occupies
<1> QED BY <1>1, <1>2, <1>3 DEF MeshInv

\* Clearing a deployment's probe, its success and its failure: no probe is left there.
LEMMA ProbeGivenUp ==
  ASSUME MeshConstants, MeshInv, NEW r \in Mesh!Route,
         Mesh!ReleaseProbe(r) \/ Mesh!RecordSuccess(r) \/ Mesh!RecordFailure(r)
  PROVE  /\ circuit' \in [Mesh!Route -> Mesh!Circuit]
         /\ \A s \in Mesh!Route : circuit'[s].probe => s # r /\ circuit[s].probe
<1>0. circuit \in [Mesh!Route -> Mesh!Circuit] /\ Threshold \in Nat
  BY DEF MeshInv, MeshTables, MeshConstants
<1>1. CASE Mesh!ReleaseProbe(r)
  BY <1>0, <1>1 DEF Mesh!ReleaseProbe, Mesh!Circuit
<1>2. CASE Mesh!RecordSuccess(r)
  BY <1>0, <1>2 DEF Mesh!RecordSuccess, Mesh!Healthy, Mesh!Circuit
<1>3. CASE Mesh!RecordFailure(r)
  BY <1>0, <1>3 DEF Mesh!RecordFailure, Mesh!Circuit
<1> QED BY <1>1, <1>2, <1>3

LEMMA RouteFields ==
  ASSUME NEW q \in Mesh!Request, NEW n \in 1..(Routes + 1), NEW k \in Nat, NEW x,
         x = [q EXCEPT !.at = "select", !.route = n, !.committed = k, !.last = 0]
  PROVE  /\ x.at = "select" /\ x.route = n /\ x.attempts = q.attempts
         /\ x.committed = k /\ x.spent = q.spent /\ x \in Mesh!Request
<1>1. x = [at |-> "select", route |-> n, attempts |-> q.attempts, committed |-> k, last |-> 0,
           spent |-> q.spent, probing |-> q.probing]
  BY DEF Mesh!Request
<1> QED BY <1>1 DEF Mesh!Request

\* What is known of a call at each step of the loop.
LEMMA CallFields ==
  ASSUME MeshConstants, MeshInv, NEW c \in Process
  PROVE  /\ Paid(request[c]) /\ request[c] \in Mesh!Request
         /\ circuit \in [Mesh!Route -> Mesh!Circuit] /\ permits \in [Mesh!Route -> Nat]
         /\ request = [d \in Process |-> request[d]]
         /\ \A r \in Mesh!Route : CostOf[r] \in Nat
BY DEF MeshInv, MeshTables, Paid, MeshConstants, Mesh!Route

LEMMA CallStarts ==
  ASSUME MeshConstants, MeshInv, NEW c \in Process, Mesh!Start(c)
  PROVE  MeshInv'
<1>1. /\ request[c].at \in Mesh!Over /\ request' = [request EXCEPT ![c] = Mesh!New]
      /\ circuit' = circuit /\ permits' = permits
  BY DEF Mesh!Start
<1>2. Paid(Mesh!New)
  BY DEF Paid, Mesh!New, Mesh!Request, Mesh!Route, MeshConstants
<1>3. \A r \in Mesh!Route :
        /\ Occupies(Mesh!New, r) = 0 /\ Occupies(request[c], r) = 0 /\ ~Flying(request[c], r)
        /\ permits[r] \in Nat
  BY <1>1, CallFields DEF Occupies, Flying, Mesh!New, Mesh!Over
<1>4. circuit' \in [Mesh!Route -> Mesh!Circuit] /\ permits' \in [Mesh!Route -> Nat]
  BY <1>1, CallFields
<1>5. \A r \in Mesh!Route :
        /\ circuit'[r].probe => Flying(Mesh!New, r) \/ (circuit[r].probe /\ ~Flying(request[c], r))
        /\ permits'[r] + Occupies(Mesh!New, r) <= permits[r] + Occupies(request[c], r)
  BY <1>1, <1>3
<1> QED BY <1>1, <1>2, <1>4, <1>5, CallMoves

LEMMA CallSelects ==
  ASSUME MeshConstants, MeshInv, NEW c \in Process, Mesh!Select(c) \/ Mesh!Exhausted(c)
  PROVE  MeshInv'
<1> DEFINE q == request[c]
           r == request[c].route
<1>0. /\ Paid(q) /\ q \in Mesh!Request /\ q.at = "select" /\ permits' = permits
      /\ circuit \in [Mesh!Route -> Mesh!Circuit] /\ permits \in [Mesh!Route -> Nat]
      /\ request = [d \in Process |-> request[d]] /\ q.spent <= q.committed
  BY CallFields DEF Mesh!Select, Mesh!Exhausted, Mesh!At, Paid
<1>1. ASSUME NEW x, request' = [request EXCEPT ![c] = x], Paid(x),
             x.at \in {"select", "unavailable", "over_budget"},
             circuit' = circuit \/ (r \in Mesh!Route /\ Mesh!ReleaseProbe(r))
      PROVE  MeshInv'
  <2>1. /\ circuit' \in [Mesh!Route -> Mesh!Circuit]
        /\ \A s \in Mesh!Route : circuit'[s].probe => circuit[s].probe
    BY <1>0, <1>1, ProbeGivenUp
  <2> QED BY <1>0, <1>1, <2>1, CallMoves DEF Flying, Occupies
<1>2. CASE Mesh!Exhausted(c)
  <2>1. request' = [request EXCEPT ![c] = [q EXCEPT !.at = "unavailable"]] /\ circuit' = circuit
    BY <1>0, <1>2 DEF Mesh!Exhausted, Mesh!Goto
  <2>2. Paid([q EXCEPT !.at = "unavailable"])
    BY <1>0 DEF Paid, Mesh!Request, Mesh!Over
  <2>3. [q EXCEPT !.at = "unavailable"].at = "unavailable"
    BY <1>0 DEF Mesh!Request
  <2> QED BY <1>1, <2>1, <2>2, <2>3
<1>3. ASSUME Mesh!Select(c), ~Mesh!Permitted(r), Mesh!NextRoute(c, q.committed), circuit' = circuit
      PROVE  MeshInv'
  <2> DEFINE x == [q EXCEPT !.at = "select", !.route = @ + 1, !.committed = q.committed, !.last = 0]
  <2>1. request' = [request EXCEPT ![c] = x]
    BY <1>0, <1>3 DEF Mesh!NextRoute
  <2>a. r \in 1..Routes /\ Routes \in Nat
    BY <1>3 DEF Mesh!Select, Mesh!Here, Mesh!Route, MeshConstants
  <2>b. /\ x.at = "select" /\ x.route = r + 1 /\ x.attempts = q.attempts
        /\ x.committed = q.committed /\ x.spent = q.spent /\ x \in Mesh!Request
    <3>1. r + 1 \in 1..(Routes + 1) /\ q.committed \in Nat
      BY <1>0, <2>a DEF Mesh!Request
    <3> QED BY ZenonT(60), <1>0, <3>1, RouteFields
  <2>2. Paid(x)
    <3> HIDE DEF x
    <3> QED BY <1>0, <2>b DEF Paid
  <2>3. x.at = "select"
    BY <1>0 DEF Mesh!Request
  <2> HIDE DEF x
  <2> QED BY <1>1, <1>3, <2>1, <2>2, <2>3
<1>4. ASSUME Mesh!Select(c), NEW s \in {"unavailable", "over_budget"}, Mesh!ReleaseProbe(r), Mesh!Goto(c, s)
      PROVE  MeshInv'
  <2>1. request' = [request EXCEPT ![c] = [q EXCEPT !.at = s]] /\ r \in Mesh!Route
    BY <1>0, <1>4 DEF Mesh!Goto, Mesh!Select, Mesh!Here
  <2>2. Paid([q EXCEPT !.at = s])
    BY <1>0 DEF Paid, Mesh!Request, Mesh!Over
  <2> QED BY <1>0, <1>1, <1>4, <2>1, <2>2 DEF Mesh!Request
<1>5. ASSUME Mesh!Select(c), Mesh!Permitted(r), q.attempts < MaxAttempts, Mesh!Affordable(c),
             Mesh!TakesProbe(r),
             request' = [request EXCEPT ![c].at = "waiting", ![c].attempts = @ + 1,
                                        ![c].probing = circuit[r].open = "elapsed"]
      PROVE  MeshInv'
  <2> DEFINE x == [q EXCEPT !.at = "waiting", !.attempts = @ + 1,
                            !.probing = circuit[r].open = "elapsed"]
  <2>1. request' = [request EXCEPT ![c] = x] /\ r \in Mesh!Route
    BY <1>0, <1>5 DEF Mesh!Select, Mesh!Here
  <2>a. q.committed + CostOf[r] <= MaxCost
    BY <1>5 DEF Mesh!Affordable, Mesh!Here
  <2>b. (circuit[r].open = "elapsed") \in BOOLEAN
    OBVIOUS
  <2>2. x \in Mesh!Request /\ x.attempts = q.attempts + 1 /\ x.at = "waiting" /\ x.route = r
        /\ x.committed = q.committed /\ x.spent = q.spent
    BY <1>0, <1>5, <2>b DEF Paid, Mesh!Request, MeshConstants
  <2> HIDE DEF x
  <2>3. Paid(x)
    BY <1>0, <1>5, <2>1, <2>2, <2>a DEF Paid, MeshConstants, Mesh!Request
  <2>4. /\ circuit' \in [Mesh!Route -> Mesh!Circuit]
        /\ \A s \in Mesh!Route : circuit'[s].probe => s = r \/ circuit[s].probe
    <3> DEFINE b == circuit[r].probe \/ circuit[r].open = "elapsed"
    <3>1. b \in BOOLEAN /\ circuit' = [circuit EXCEPT ![r].probe = b]
      BY <1>5 DEF Mesh!TakesProbe
    <3> HIDE DEF b
    <3> QED BY <1>0, <2>1, <3>1 DEF Mesh!Circuit
  <2>5. \A s \in Mesh!Route : Occupies(x, s) = 0
    BY <2>2 DEF Occupies
  <2>6. \A s \in Mesh!Route : Occupies(q, s) = 0 /\ ~Flying(q, s)
    BY <1>0 DEF Occupies, Flying
  <2> QED BY <1>0, <2>1, <2>2, <2>3, <2>4, <2>5, <2>6, CallMoves DEF Flying
<1>6. ASSUME Mesh!Select(c), q.attempts < MaxAttempts, Mesh!ReleaseProbe(r),
             request' = [request EXCEPT ![c].at = "select", ![c].route = @ + 1,
                                        ![c].attempts = @ + 1]
      PROVE  MeshInv'
  <2> DEFINE x == [q EXCEPT !.at = "select", !.route = @ + 1, !.attempts = @ + 1]
  <2>1. request' = [request EXCEPT ![c] = x] /\ r \in Mesh!Route
    BY <1>0, <1>6 DEF Mesh!Select, Mesh!Here
  <2>a. r \in 1..Routes /\ Routes \in Nat /\ MaxAttempts \in Nat
    BY <2>1 DEF Mesh!Route, MeshConstants
  <2>b. r = q.route /\ q \in Mesh!Request /\ q.attempts \in Nat
    BY <1>0 DEF Mesh!Request
  <2>c. r + 1 \in 1..(Routes + 1) /\ q.attempts + 1 \in 0..MaxAttempts
    BY <1>6, <2>a, <2>b
  <2>d. /\ x.at = "select" /\ x.attempts = q.attempts + 1 /\ x.committed = q.committed
        /\ x.spent = q.spent /\ x \in Mesh!Request
    <3> DEFINE y == [q EXCEPT !.at = "select", !.route = r + 1, !.attempts = q.attempts + 1]
    <3>1. x = y
      BY <2>b
    <3>2. r + 1 \in 1..(Routes + 1) /\ q.attempts + 1 \in 0..(MaxAttempts + 1)
      BY <2>a, <2>c
    <3> HIDE DEF x
    <3>3. y \in Mesh!Request
      BY <2>b, <3>2 DEF Mesh!Request
    <3> QED BY <2>b, <3>1, <3>3 DEF Mesh!Request
  <2>2. Paid(x)
    <3>1. q.spent <= q.committed /\ q.committed <= MaxCost
      BY <1>0, <1>6 DEF Paid, Mesh!Select, Mesh!Here
    <3> HIDE DEF x
    <3> QED BY <2>a, <2>c, <2>d, <3>1 DEF Paid
  <2>3. x.at = "select"
    BY <1>0 DEF Mesh!Request
  <2> HIDE DEF x
  <2> QED BY <1>1, <1>6, <2>1, <2>2, <2>3
<1> QED BY <1>2, <1>3, <1>4, <1>5, <1>6 DEF Mesh!Select, Mesh!Here

\* A call leaves the deployment it was at.
LEMMA CallLeaves ==
  ASSUME MeshConstants, MeshInv, NEW c \in Process, NEW x, Paid(x),
         request' = [request EXCEPT ![c] = x], NEW r, r = request[c].route,
         Mesh!InFlight(c), x.at \notin {"waiting", "calling", "checking"},
         Mesh!ReleaseProbe(r) \/ Mesh!RecordSuccess(r) \/ Mesh!RecordFailure(r),
         \/ Mesh!At(c, "calling") /\ Mesh!Return(r)
         \/ Mesh!At(c, "waiting") /\ Mesh!LostOrLeft(r)
         \/ permits' = permits
  PROVE  MeshInv'
<1>0. /\ r \in Mesh!Route /\ permits \in [Mesh!Route -> Nat]
      /\ request[c].at \in {"waiting", "calling", "checking"}
  BY CallFields DEF Mesh!InFlight, Paid
<1>1. /\ circuit' \in [Mesh!Route -> Mesh!Circuit]
      /\ \A s \in Mesh!Route : circuit'[s].probe => s # r /\ circuit[s].probe
  BY <1>0, ProbeGivenUp
<1>2. \A s \in Mesh!Route : Occupies(x, s) = 0
  BY DEF Occupies
<1>3. \A s \in Mesh!Route : s # r => Occupies(request[c], s) = 0 /\ ~Flying(request[c], s)
  BY DEF Occupies, Flying
<1>4. Occupies(request[c], r) = IF request[c].at = "calling" THEN 1 ELSE 0
  BY DEF Occupies
<1>5. /\ permits' \in [Mesh!Route -> Nat]
      /\ \A s \in Mesh!Route : permits'[s] <= permits[s] + Occupies(request[c], s)
  <2>1. CASE Mesh!At(c, "calling") /\ Mesh!Return(r)
    <3>1. permits' = [permits EXCEPT ![r] = @ + 1] /\ Occupies(request[c], r) = 1
      BY <1>4, <2>1 DEF Mesh!At, Mesh!Return
    <3> QED BY <1>0, <1>3, <3>1
  <2>2. CASE Mesh!LostOrLeft(r) \/ permits' = permits
    <3>1. permits' = permits \/ (permits[r] > 0 /\ permits' = [permits EXCEPT ![r] = @ - 1])
      BY <2>2 DEF Mesh!LostOrLeft, Mesh!Take
    <3>2. \A s \in Mesh!Route : Occupies(request[c], s) \in Nat
      BY DEF Occupies
    <3> QED BY <1>0, <3>1, <3>2
  <2> QED BY <2>1, <2>2
<1>6. \A s \in Mesh!Route :
        /\ circuit'[s].probe => circuit[s].probe /\ ~Flying(request[c], s)
        /\ permits'[s] + Occupies(x, s) <= permits[s] + Occupies(request[c], s)
  BY <1>1, <1>2, <1>3, <1>5
<1> QED BY <1>1, <1>5, <1>6, CallMoves

\* A call that goes on at its deployment: it takes a permit, or gives it back with
\* an answer.
LEMMA CallGoesOn ==
  ASSUME MeshConstants, MeshInv, NEW c \in Process, Mesh!Enter(c) \/ Mesh!Answer(c)
  PROVE  MeshInv'
<1> DEFINE q == request[c]
           r == request[c].route
<1>0. /\ Paid(q) /\ q \in Mesh!Request /\ permits \in [Mesh!Route -> Nat]
      /\ circuit \in [Mesh!Route -> Mesh!Circuit] /\ circuit' = circuit
      /\ request = [d \in Process |-> request[d]]
      /\ \A s \in Mesh!Route : CostOf[s] \in Nat
  BY CallFields DEF Mesh!Enter, Mesh!Answer
<1>q. q \in Mesh!Request
  BY <1>0
<1>1. ASSUME NEW x, Paid(x), request' = [request EXCEPT ![c] = x], Flying(q, r), Flying(x, r),
             r \in Mesh!Route, permits' \in [Mesh!Route -> Nat],
             permits'[r] + Occupies(x, r) <= permits[r] + Occupies(q, r),
             \A s \in Mesh!Route : s # r => permits'[s] = permits[s]
      PROVE  MeshInv'
  <2>1. \A s \in Mesh!Route : s # r =>
          Occupies(q, s) = 0 /\ Occupies(x, s) = 0 /\ ~Flying(q, s)
    BY <1>1 DEF Occupies, Flying
  <2>2. \A s \in Mesh!Route :
          /\ circuit'[s].probe => Flying(x, s) \/ (circuit[s].probe /\ ~Flying(q, s))
          /\ permits'[s] + Occupies(x, s) <= permits[s] + Occupies(q, s)
    BY <1>0, <1>1, <2>1
  <2> QED BY <1>0, <1>1, <2>2, CallMoves
<1>2. CASE Mesh!Enter(c)
  <2> DEFINE x == [q EXCEPT !.at = "calling"]
  <2>1. /\ q.at = "waiting" /\ permits[r] > 0 /\ permits' = [permits EXCEPT ![r] = @ - 1]
        /\ request' = [request EXCEPT ![c] = x]
    BY <1>0, <1>2 DEF Mesh!Enter, Mesh!At, Mesh!Here, Mesh!Take, Mesh!Goto
  <2>2. r \in Mesh!Route
    BY <1>0, <2>1 DEF Paid
  <2>3. Paid(x) /\ x.at = "calling" /\ x.route = r
    BY <1>0, <2>1 DEF Paid, Mesh!Request
  <2> HIDE DEF x
  <2>4. Occupies(x, r) = 1 /\ Occupies(q, r) = 0 /\ Flying(q, r) /\ Flying(x, r)
    BY <2>1, <2>3 DEF Occupies, Flying
  <2> QED BY <1>0, <1>1, <2>1, <2>2, <2>3, <2>4
<1>3. CASE Mesh!Answer(c)
  <2>0. q.at = "calling"
    BY <1>3 DEF Mesh!Answer, Mesh!At
  <2>1. r \in Mesh!Route /\ CostOf[r] \in Nat
    BY <1>0, <2>0 DEF Paid
  <2>2. PICK cost \in 0..(CostOf[r] + 1) :
          request' = [request EXCEPT ![c].at = "checking", ![c].last = cost, ![c].spent = @ + cost]
    BY <1>3 DEF Mesh!Answer, Mesh!Usage, Mesh!Here
  <2> DEFINE n == q.spent + cost
             x == [q EXCEPT !.at = "checking", !.last = cost, !.spent = n]
  <2>3. request' = [request EXCEPT ![c] = x] /\ permits' = [permits EXCEPT ![r] = @ + 1]
    BY <1>0, <1>3, <2>2 DEF Mesh!Answer, Mesh!Return, Mesh!Here
  <2>n. n = q.spent + cost
    OBVIOUS
  <2> HIDE DEF n
  <2>a. x = [at |-> "checking", route |-> r, attempts |-> q.attempts, committed |-> q.committed,
             last |-> cost, spent |-> n, probing |-> q.probing]
    <3>0. x = [q EXCEPT !.at = "checking", !.last = cost, !.spent = n]
      OBVIOUS
    <3> HIDE DEF x
    <3> QED BY <1>q, <3>0 DEF Mesh!Request
  <2>b. cost \in Nat /\ q.spent \in Nat
    BY <1>0, <2>1 DEF Mesh!Request
  <2> HIDE DEF x
  <2>4. x \in Mesh!Request /\ x.at = "checking" /\ x.route = r /\ x.attempts = q.attempts
        /\ x.committed = q.committed /\ x.last = cost /\ x.spent = q.spent + cost
    BY <1>0, <2>a, <2>b, <2>n DEF Mesh!Request
  <2>5. Paid(x)
    BY <1>0, <2>0, <2>1, <2>4, <2>b DEF Paid, Mesh!Request
  <2>6. Occupies(x, r) = 0 /\ Occupies(q, r) = 1 /\ Flying(q, r) /\ Flying(x, r)
    BY <2>0, <2>4 DEF Occupies, Flying
  <2> QED BY <1>0, <1>1, <2>1, <2>3, <2>5, <2>6
<1> QED BY <1>2, <1>3

LEMMA CallGivesUp ==
  ASSUME MeshConstants, MeshInv, NEW c \in Process,
         Mesh!Busy(c) \/ Mesh!Refuse(c) \/ Mesh!Cancel(c)
  PROVE  MeshInv'
<1> DEFINE q == request[c]
           r == request[c].route
<1>0. /\ Paid(q) /\ q \in Mesh!Request /\ Mesh!InFlight(c) /\ Mesh!ReleaseProbe(r)
      /\ request = [d \in Process |-> request[d]] /\ r \in Mesh!Route
  BY CallFields DEF Mesh!Busy, Mesh!Refuse, Mesh!Cancel, Mesh!Here, Mesh!InFlight, Mesh!At, Paid
<1>1. \/ Mesh!At(c, "calling") /\ Mesh!Return(r)
      \/ Mesh!At(c, "waiting") /\ Mesh!LostOrLeft(r)
      \/ permits' = permits
  BY DEF Mesh!Busy, Mesh!Refuse, Mesh!Cancel, Mesh!Here
<1>2. ASSUME NEW s \in {"failed", "cancelled"}, Mesh!Goto(c, s) PROVE MeshInv'
  <2> DEFINE x == [q EXCEPT !.at = s]
  <2>1. request' = [request EXCEPT ![c] = x]
    BY <1>0, <1>2 DEF Mesh!Goto
  <2>2. Paid(x) /\ x.at = s
    BY <1>0 DEF Paid, Mesh!Request, Mesh!Over
  <2> HIDE DEF x
  <2> QED BY <1>0, <1>1, <2>1, <2>2, CallLeaves
<1>3. CASE Mesh!Busy(c)
  <2> DEFINE x == [q EXCEPT !.at = "select", !.route = @ + 1, !.committed = q.committed, !.last = 0]
  <2>1. request' = [request EXCEPT ![c] = x] /\ q.at = "waiting"
    BY <1>0, <1>3 DEF Mesh!Busy, Mesh!NextRoute, Mesh!At
  <2>2. r + 1 \in 1..(Routes + 1) /\ q.committed \in Nat
    BY <1>0 DEF Mesh!Request, Mesh!Route, MeshConstants
  <2>3. /\ x.at = "select" /\ x.route = r + 1 /\ x.attempts = q.attempts
        /\ x.committed = q.committed /\ x.spent = q.spent /\ x \in Mesh!Request
    BY ZenonT(60), <1>0, <2>2, RouteFields
  <2> HIDE DEF x
  <2>4. Paid(x)
    BY <1>0, <2>1, <2>3 DEF Paid
  <2> QED BY <1>0, <1>1, <2>1, <2>3, <2>4, CallLeaves
<1> QED BY <1>2, <1>3 DEF Mesh!Busy, Mesh!Refuse, Mesh!Cancel

LEMMA CallFails ==
  ASSUME MeshConstants, MeshInv, NEW c \in Process, Mesh!FailTransiently(c) \/ Mesh!FailFinally(c)
  PROVE  MeshInv'
<1> DEFINE q == request[c]
           r == request[c].route
<1>0. /\ Paid(q) /\ q \in Mesh!Request /\ q.at = "calling" /\ Mesh!Return(r)
      /\ request = [d \in Process |-> request[d]]
  BY CallFields DEF Mesh!FailTransiently, Mesh!FailFinally, Mesh!Here, Mesh!At
<1>q. q \in Mesh!Request
  BY <1>0
<1>1. r \in Mesh!Route /\ CostOf[r] \in Nat /\ r \in 1..Routes /\ Routes \in Nat
  BY <1>0, CallFields DEF Paid, Mesh!Route, MeshConstants
<1>2. Mesh!InFlight(c) /\ Mesh!At(c, "calling")
  BY <1>0 DEF Mesh!InFlight, Mesh!At
<1>3. CASE Mesh!FailTransiently(c)
  <2>1. PICK cost \in 0..CostOf[r] :
          request' = [request EXCEPT ![c].at = "select", ![c].route = @ + 1,
                        ![c].committed = @ + CostOf[r], ![c].spent = @ + cost]
    BY <1>3 DEF Mesh!FailTransiently, Mesh!MayCharge, Mesh!Incurred, Mesh!Here
  <2> DEFINE k == q.committed + CostOf[r]
             n == q.spent + cost
             m == r + 1
             x == [q EXCEPT !.at = "select", !.route = m, !.committed = k, !.spent = n]
  <2>3. request' = [request EXCEPT ![c] = x]
    BY <1>0, <2>1
  <2>n. n = q.spent + cost /\ k = q.committed + CostOf[r] /\ m = r + 1
    OBVIOUS
  <2> HIDE DEF k, n, m
  <2>2. x = [at |-> "select", route |-> m, attempts |-> q.attempts, committed |-> k,
             last |-> q.last, spent |-> n, probing |-> q.probing]
    <3>0. x = [q EXCEPT !.at = "select", !.route = m, !.committed = k, !.spent = n]
      OBVIOUS
    <3> HIDE DEF x
    <3> QED BY <1>q, <3>0 DEF Mesh!Request
  <2> HIDE DEF x
  <2>4. /\ x.at = "select" /\ x.attempts = q.attempts /\ x.committed = q.committed + CostOf[r]
        /\ x.spent = q.spent + cost /\ x \in Mesh!Request
    BY <1>0, <1>1, <2>n, <2>2 DEF Mesh!Request
  <2>5. Paid(x)
    BY <1>0, <1>1, <2>4 DEF Paid, Mesh!Request
  <2>6. Mesh!RecordFailure(r)
    BY <1>3 DEF Mesh!FailTransiently, Mesh!Here
  <2> QED BY <1>0, <1>2, <2>3, <2>4, <2>5, <2>6, CallLeaves
<1>4. CASE Mesh!FailFinally(c)
  <2>1. PICK cost \in 0..CostOf[r] :
          request' = [request EXCEPT ![c].at = "failed", ![c].spent = @ + cost]
    BY <1>4 DEF Mesh!FailFinally, Mesh!MayCharge, Mesh!Here
  <2> DEFINE n == q.spent + cost
             x == [q EXCEPT !.at = "failed", !.spent = n]
  <2>2. request' = [request EXCEPT ![c] = x] /\ Mesh!ReleaseProbe(r)
    BY <1>0, <1>4, <2>1 DEF Mesh!FailFinally, Mesh!Here
  <2>n. n = q.spent + cost
    OBVIOUS
  <2> HIDE DEF n
  <2>3. x = [at |-> "failed", route |-> r, attempts |-> q.attempts, committed |-> q.committed,
             last |-> q.last, spent |-> n, probing |-> q.probing]
    <3>0. x = [q EXCEPT !.at = "failed", !.spent = n]
      OBVIOUS
    <3> HIDE DEF x
    <3> QED BY <1>q, <3>0 DEF Mesh!Request
  <2> HIDE DEF x
  <2>4. /\ x.at = "failed" /\ x.attempts = q.attempts /\ x.committed = q.committed
        /\ x \in Mesh!Request
    BY <1>0, <1>1, <2>3, <2>n DEF Mesh!Request, Mesh!Over
  <2>5. Paid(x)
    BY <1>0, <2>4 DEF Paid
  <2> QED BY <1>0, <1>2, <2>2, <2>4, <2>5, CallLeaves
<1> QED BY <1>3, <1>4

LEMMA CallChecked ==
  ASSUME MeshConstants, MeshInv, NEW c \in Process, Mesh!Check(c)
  PROVE  MeshInv'
<1> DEFINE q == request[c]
           r == request[c].route
<1>0. /\ Paid(q) /\ q \in Mesh!Request /\ q.at = "checking" /\ permits' = permits
      /\ request = [d \in Process |-> request[d]] /\ MaxCost \in Nat
  BY CallFields DEF Mesh!Check, Mesh!At, MeshConstants
<1>q. q \in Mesh!Request
  BY <1>0
<1>1. Mesh!InFlight(c)
  BY <1>0 DEF Mesh!InFlight
<1>2. CASE /\ Mesh!WithinBudget(c) /\ Mesh!RecordSuccess(r)
           /\ request' = [request EXCEPT ![c].at = "answered", ![c].last = 0,
                                         ![c].committed = @ + request[c].last]
  <2> DEFINE k == q.committed + q.last
             x == [q EXCEPT !.at = "answered", !.last = 0, !.committed = k]
  <2>1. request' = [request EXCEPT ![c] = x]
    BY <1>0, <1>2
  <2>k. k = q.committed + q.last
    OBVIOUS
  <2> HIDE DEF k
  <2>2. x = [at |-> "answered", route |-> r, attempts |-> q.attempts,
             committed |-> k, last |-> 0, spent |-> q.spent, probing |-> q.probing]
    <3>0. x = [q EXCEPT !.at = "answered", !.last = 0, !.committed = k]
      OBVIOUS
    <3> HIDE DEF x
    <3> QED BY <1>q, <3>0 DEF Mesh!Request
  <2> HIDE DEF x
  <2>3. /\ x.at = "answered" /\ x.attempts = q.attempts /\ x.spent = q.spent
        /\ x.committed = q.committed + q.last /\ x \in Mesh!Request
    BY <1>0, <2>2, <2>k DEF Mesh!Request, Mesh!Over
  <2>4. Paid(x)
    BY <1>0, <1>2, <2>3 DEF Paid, Mesh!WithinBudget
  <2> QED BY <1>0, <1>1, <1>2, <2>1, <2>3, <2>4, CallLeaves
<1>3. CASE Mesh!ReleaseProbe(r) /\ Mesh!Goto(c, "failed")
  <2> DEFINE x == [q EXCEPT !.at = "failed"]
  <2>1. request' = [request EXCEPT ![c] = x]
    BY <1>0, <1>3 DEF Mesh!Goto
  <2>2. Paid(x) /\ x.at = "failed"
    BY <1>0 DEF Paid, Mesh!Request, Mesh!Over
  <2> HIDE DEF x
  <2> QED BY <1>0, <1>1, <1>3, <2>1, <2>2, CallLeaves
<1> QED BY <1>2, <1>3 DEF Mesh!Check, Mesh!Here

LEMMA CallsInit ==
  ASSUME MeshConstants, Mesh!CallsInit PROVE MeshInv
<1>1. Paid(Mesh!New)
  BY DEF Paid, Mesh!New, Mesh!Request, Mesh!Route, MeshConstants
<1>2. MeshTables
  BY <1>1 DEF Mesh!CallsInit, MeshTables, MeshConstants, Mesh!Healthy, Mesh!Circuit, Mesh!Bulkheads
<1>3. ProbesAreFlown
  BY DEF Mesh!CallsInit, ProbesAreFlown, Mesh!Healthy
<1>4. \A r \in Mesh!Route : Calling(r) = {}
  BY DEF Mesh!CallsInit, Calling, Mesh!New
<1>5. PermitsCover
  <2>1. Permits \in Nat /\ Cardinality({}) = 0
    BY FS_EmptySet DEF MeshConstants
  <2>2. \A r \in Mesh!Route : permits[r] = Permits
    BY DEF Mesh!CallsInit, Mesh!Bulkheads
  <2> QED BY <1>4, <2>1, <2>2 DEF PermitsCover
<1> QED BY <1>2, <1>3, <1>5 DEF MeshInv

\* The mesh keeps breakers, bulkheads and budgets in step with its calls.
THEOREM MeshInvariance == ASSUME MeshConstants PROVE Mesh!CallsSpec => []MeshInv
<1>1. MeshInv /\ [Mesh!CallsNext]_(Mesh!callsVars) => MeshInv'
  <2> SUFFICES ASSUME MeshInv, [Mesh!CallsNext]_(Mesh!callsVars) PROVE MeshInv'
    OBVIOUS
  <2>1. CASE UNCHANGED Mesh!callsVars
    <3>1. \A r \in Mesh!Route : Calling(r)' = Calling(r)
      BY <2>1 DEF Mesh!callsVars, Calling
    <3> QED BY <2>1, <3>1 DEF Mesh!callsVars, MeshInv, MeshTables, ProbesAreFlown, PermitsCover
  <2>2. ASSUME NEW r \in Mesh!Route, Mesh!Elapse(r) PROVE MeshInv'
    <3>0. permits' = permits /\ request' = request
      BY <2>2 DEF Mesh!Elapse
    <3>1. \A s \in Mesh!Route : Calling(s)' = Calling(s)
      BY <3>0 DEF Calling
    <3>2. /\ circuit' \in [Mesh!Route -> Mesh!Circuit]
          /\ \A s \in Mesh!Route : circuit'[s].probe = circuit[s].probe
      BY <2>2 DEF Mesh!Elapse, MeshInv, MeshTables, Mesh!Circuit
    <3> QED BY <3>0, <3>1, <3>2 DEF MeshInv, MeshTables, ProbesAreFlown, PermitsCover
  <2> QED BY <2>1, <2>2, CallStarts, CallSelects, CallGoesOn, CallGivesUp, CallFails, CallChecked
          DEF Mesh!CallsNext
<1> QED BY <1>1, CallsInit, PTL DEF Mesh!CallsSpec

LEMMA MeshKeepsPromises ==
  ASSUME MeshConstants
  PROVE  MeshInv => /\ Mesh!CallsTypeOK /\ Mesh!NoStrandedProbe
                    /\ Mesh!ConcurrencyBounded /\ Mesh!CostIsCovered
<1> SUFFICES ASSUME MeshInv
             PROVE  /\ Mesh!CallsTypeOK /\ Mesh!NoStrandedProbe
                    /\ Mesh!ConcurrencyBounded /\ Mesh!CostIsCovered
  OBVIOUS
<1>1. \A r \in Mesh!Route : /\ permits[r] \in Nat /\ Cardinality(Calling(r)) \in Nat
                            /\ permits[r] + Cardinality(Calling(r)) <= Permits
  <2> SUFFICES ASSUME NEW r \in Mesh!Route PROVE Cardinality(Calling(r)) \in Nat
    BY DEF MeshInv, MeshTables, PermitsCover
  <2>1. IsFiniteSet(Calling(r))
    BY FS_Subset DEF Calling, MeshConstants
  <2> QED BY <2>1, FS_CardinalityType
<1>2. Mesh!CallsTypeOK
  BY <1>1 DEF MeshInv, MeshTables, Mesh!CallsTypeOK, Paid, MeshConstants
<1>3. Mesh!NoStrandedProbe
  BY DEF MeshInv, ProbesAreFlown, Flying, Mesh!NoStrandedProbe, Mesh!InFlight, Mesh!Here
<1>4. Mesh!ConcurrencyBounded
  <2>1. \A r \in Mesh!Route :
          {c \in Process : Mesh!At(c, "calling") /\ Mesh!Here(c) = r} = Calling(r)
    BY DEF Calling, Mesh!At, Mesh!Here
  <2>2. \A S : Mesh!Cardinality(S) = Cardinality(S)
    BY DEF Mesh!Cardinality, Cardinality
  <2> QED BY <1>1, <2>1, <2>2 DEF Mesh!ConcurrencyBounded
<1>5. Mesh!CostIsCovered
  BY DEF MeshInv, MeshTables, Paid, Mesh!CostIsCovered
<1> QED BY <1>2, <1>3, <1>4, <1>5

-----------------------------------------------------------------------------
(* The meshes a process keeps, and who leases them.                        *)

\* A nonempty set of naturals has a least element.
LEMMA LeastExists ==
  ASSUME NEW S \in SUBSET Nat, S # {}
  PROVE  \E i \in S : \A j \in S : i <= j
<1> DEFINE Upto(i) == S \cap 0..i
           D == {Upto(i) : i \in S}
<1>1. \A i \in S : Upto(i) \in FiniteSubsetsOf(Nat)
  <2> SUFFICES ASSUME NEW i \in S PROVE IsFiniteSet(Upto(i)) /\ Upto(i) \in SUBSET Nat
    BY DEF FiniteSubsetsOf
  <2>1. IsFiniteSet(0..i) /\ Upto(i) \in SUBSET (0..i)
    BY FS_Interval
  <2> QED BY <2>1, FS_Subset
<1>2. PICK x \in D : \A y \in D : ~(<<y, x>> \in StrictSubsetOrdering(Nat))
  <2>1. D \subseteq FiniteSubsetsOf(Nat) /\ D # {}
    BY <1>1
  <2> HIDE DEF D
  <2> QED BY <2>1, WFMin, FS_StrictSubsetOrderingWellFounded
<1>3. PICK i \in S : x = Upto(i)
  OBVIOUS
<1>4. ASSUME NEW j \in S, ~(i <= j) PROVE FALSE
  <2>1. /\ Upto(j) \in D /\ Upto(j) \subseteq Upto(i) /\ Upto(j) # Upto(i)
        /\ Upto(j) \in SUBSET Nat /\ Upto(i) \in SUBSET Nat
    BY <1>4
  <2>2. <<Upto(j), x>> \in StrictSubsetOrdering(Nat)
    BY <1>3, <2>1 DEF StrictSubsetOrdering
  <2> QED BY <1>2, <2>1, <2>2
<1> QED BY <1>4

Distinct(s) == \A i, j \in 1..Len(s) : s[i] = s[j] => i = j

\* A sequence without repetitions is as long as the set of its elements is large.
LEMMA LengthIsSize ==
  ASSUME NEW S, NEW s \in Seq(S), Distinct(s)
  PROVE  IsFiniteSet(Mesh!ToSet(s)) /\ Cardinality(Mesh!ToSet(s)) = Len(s)
<1>1. /\ Len(s) \in Nat /\ s \in [1..Len(s) -> S] /\ DOMAIN s = 1..Len(s)
      /\ Mesh!ToSet(s) = {s[i] : i \in 1..Len(s)}
  BY LenProperties DEF Mesh!ToSet
<1>2. IsFiniteSet(1..Len(s)) /\ Cardinality(1..Len(s)) = Len(s)
  BY <1>1, FS_Interval
<1>3. s \in Bijection(1..Len(s), Mesh!ToSet(s))
  BY <1>1 DEF Distinct, Bijection, Injection, Surjection, IsInjective
<1> QED BY <1>2, <1>3, FS_Bijection DEF ExistsBijection

\* What dropping a mesh and putting one at the end make of the cache.
LEMMA WithoutOne ==
  ASSUME NEW S, NEW s \in Seq(S), Distinct(s), NEW e
  PROVE  /\ Mesh!Without(s, e) \in Seq(S) /\ Distinct(Mesh!Without(s, e))
         /\ Mesh!ToSet(Mesh!Without(s, e)) = Mesh!ToSet(s) \ {e}
<1>0. /\ Len(s) \in Nat /\ s \in [1..Len(s) -> S] /\ DOMAIN s = 1..Len(s)
      /\ Mesh!ToSet(s) = {s[i] : i \in 1..Len(s)}
  BY LenProperties DEF Mesh!ToSet
<1>1. CASE e \notin Mesh!ToSet(s)
  BY <1>1 DEF Mesh!Without
<1>2. CASE e \in Mesh!ToSet(s)
  <2> DEFINE k == Mesh!Position(s, e)
             a == SubSeq(s, 1, k - 1)
             b == SubSeq(s, k + 1, Len(s))
             r == a \o b
  <2>1. k \in 1..Len(s) /\ s[k] = e
    BY <1>0, <1>2 DEF Mesh!Position
  <2>2. Mesh!Without(s, e) = r
    BY <1>2 DEF Mesh!Without, Mesh!RemoveAt
  <2> HIDE DEF k
  <2>3. /\ a \in Seq(S) /\ Len(a) = k - 1 /\ \A i \in 1..(k - 1) : a[i] = s[i]
    BY <1>0, <2>1, SubSeqProperties
  <2>4. /\ b \in Seq(S) /\ Len(b) = Len(s) - k
        /\ \A i \in 1..(Len(s) - k) : b[i] = s[k + i]
    <3>1. k + 1 \in Int /\ Len(s) \in Int /\ \A i \in (k + 1)..Len(s) : s[i] \in S
      BY <1>0, <2>1
    <3>2. /\ b \in Seq(S)
          /\ Len(b) = IF k + 1 <= Len(s) THEN Len(s) - (k + 1) + 1 ELSE 0
          /\ \A i \in 1..(Len(s) - (k + 1) + 1) : b[i] = s[k + 1 + i - 1]
      BY <3>1, SubSeqProperties
    <3> HIDE DEF b
    <3>3. Len(s) - (k + 1) + 1 = Len(s) - k /\ \A i \in Int : k + 1 + i - 1 = k + i
      BY <1>0, <2>1
    <3>4. Len(b) = Len(s) - k
      <4>1. Len(s) \in Int /\ k \in Int /\ k <= Len(s)
        BY <1>0, <2>1
      <4>2. CASE k + 1 <= Len(s)
        <5>1. Len(b) = Len(s) - (k + 1) + 1
          BY <3>2, <4>2
        <5> QED BY <3>3, <5>1
      <4>3. CASE ~(k + 1 <= Len(s))
        <5>1. Len(b) = 0
          BY <3>2, <4>3
        <5>2. Len(s) - k = 0
          BY <4>1, <4>3
        <5> QED BY <5>1, <5>2
      <4> QED BY <4>2, <4>3
    <3>5. ASSUME NEW i \in 1..(Len(s) - k) PROVE b[i] = s[k + i]
      <4>1. i \in 1..(Len(s) - (k + 1) + 1) /\ i \in Int
        BY <1>0, <2>1
      <4>2. b[i] = s[k + 1 + i - 1] /\ k + 1 + i - 1 = k + i
        BY <3>2, <3>3, <4>1
      <4> QED BY <4>2
    <3> QED BY <3>2, <3>4, <3>5
  <2> HIDE DEF a, b
  <2>5. /\ r \in Seq(S) /\ Len(r) = Len(s) - 1
        /\ \A i \in 1..(Len(s) - 1) : r[i] = IF i < k THEN s[i] ELSE s[i + 1]
    <3>1. /\ r \in Seq(S) /\ Len(r) = Len(s) - 1
          /\ \A i \in 1..(Len(s) - 1) : r[i] = IF i <= k - 1 THEN a[i] ELSE b[i - (k - 1)]
      <4>1. /\ r \in Seq(S) /\ Len(r) = Len(a) + Len(b)
            /\ \A i \in 1..(Len(a) + Len(b)) :
                 r[i] = IF i <= Len(a) THEN a[i] ELSE b[i - Len(a)]
        BY <2>3, <2>4, ConcatProperties
      <4> HIDE DEF r
      <4> QED BY <1>0, <2>1, <2>3, <2>4, <4>1
    <3> HIDE DEF r
    <3>2. ASSUME NEW i \in 1..(Len(s) - 1), i > k - 1 PROVE b[i - (k - 1)] = s[i + 1]
      <4>0. Len(s) \in Int /\ k \in Int /\ i \in Int /\ i <= Len(s) - 1
        BY <1>0, <2>1
      <4>1. i - (k - 1) \in 1..(Len(s) - k) /\ k + (i - (k - 1)) = i + 1
        BY ONLY <4>0, i > k - 1
      <4>2. b[i - (k - 1)] = s[k + (i - (k - 1))]
        BY <2>4, <4>1
      <4> QED BY <4>1, <4>2
    <3>3. ASSUME NEW i \in 1..(Len(s) - 1) PROVE r[i] = IF i < k THEN s[i] ELSE s[i + 1]
      <4>1. CASE i < k
        <5>1. i <= k - 1 /\ i \in 1..(k - 1)
          BY <1>0, <2>1, <4>1
        <5> QED BY <2>3, <3>1, <4>1, <5>1
      <4>2. CASE ~(i < k)
        <5>1. ~(i <= k - 1) /\ i > k - 1
          BY <1>0, <2>1, <4>2
        <5> QED BY <3>1, <3>2, <4>2, <5>1
      <4> QED BY <4>1, <4>2
    <3> QED BY <3>1, <3>3
  <2> HIDE DEF r
  <2>6. Distinct(r)
    BY <1>0, <2>1, <2>5 DEF Distinct
  <2>7. Mesh!ToSet(r) = {r[i] : i \in 1..(Len(s) - 1)}
    BY <1>0, <2>5, LenProperties DEF Mesh!ToSet
  <2>8. Mesh!ToSet(r) \subseteq Mesh!ToSet(s) \ {e}
    <3> SUFFICES ASSUME NEW i \in 1..(Len(s) - 1) PROVE r[i] \in Mesh!ToSet(s) \ {e}
      BY <2>7
    <3> QED BY <1>0, <2>1, <2>5 DEF Distinct
  <2>9. Mesh!ToSet(s) \ {e} \subseteq Mesh!ToSet(r)
    <3> SUFFICES ASSUME NEW i \in 1..Len(s), i # k PROVE s[i] \in Mesh!ToSet(r)
      BY <1>0, <2>1
    <3>1. CASE i < k
      BY <1>0, <2>1, <2>5, <2>7, <3>1
    <3>2. CASE i > k
      <4>1. i - 1 \in 1..(Len(s) - 1) /\ r[i - 1] = s[i]
        BY <1>0, <2>1, <2>5, <3>2
      <4> QED BY <2>7, <4>1
    <3> QED BY <1>0, <2>1, <3>1, <3>2
  <2> QED BY <2>2, <2>5, <2>6, <2>8, <2>9
<1> QED BY <1>1, <1>2

LEMMA MovedToTheEnd ==
  ASSUME NEW S, cache \in Seq(S), Distinct(cache), NEW e \in S
  PROVE  /\ Mesh!Moved(e) \in Seq(S) /\ Distinct(Mesh!Moved(e))
         /\ Mesh!ToSet(Mesh!Moved(e)) = Mesh!ToSet(cache) \cup {e}
<1> DEFINE w == Mesh!Without(cache, e)
           r == Append(w, e)
<1>1. /\ w \in Seq(S) /\ Distinct(w) /\ Mesh!ToSet(w) = Mesh!ToSet(cache) \ {e}
  BY WithoutOne
<1>2. Mesh!Moved(e) = r
  BY DEF Mesh!Moved
<1> HIDE DEF w
<1>3. /\ Len(w) \in Nat /\ r \in Seq(S) /\ Len(r) = Len(w) + 1
      /\ \A i \in 1..Len(w) : r[i] = w[i]
      /\ r[Len(w) + 1] = e /\ DOMAIN r = 1..Len(r) /\ DOMAIN w = 1..Len(w)
  BY <1>1, LenProperties
<1> HIDE DEF r
<1>4. \A i \in 1..Len(w) : w[i] # e
  BY <1>1, <1>3 DEF Mesh!ToSet
<1>5. Distinct(r)
  BY <1>1, <1>3, <1>4 DEF Distinct
<1>6. Mesh!ToSet(r) = Mesh!ToSet(w) \cup {e}
  <2>1. Mesh!ToSet(r) = {r[i] : i \in 1..(Len(w) + 1)} /\ Mesh!ToSet(w) = {w[i] : i \in 1..Len(w)}
    BY <1>3 DEF Mesh!ToSet
  <2>2. 1..(Len(w) + 1) = 1..Len(w) \cup {Len(w) + 1}
    BY <1>3
  <2> QED BY <1>3, <2>1, <2>2
<1> QED BY <1>1, <1>2, <1>3, <1>5, <1>6

\* The mesh that is retired is one nobody leases, and none is only when there is
\* room or all are leased.
LEMMA RetiredIsUnleased ==
  ASSUME NEW S, NEW s \in Seq(S), NEW held, NEW excluded, Nil \notin S, NEW x,
         x = Mesh!Retired(s, held, excluded)
  PROVE  /\ x = Nil \/ (x \in Mesh!ToSet(s) /\ held[x] = 0 /\ x # excluded)
         /\ x = Nil => \/ Len(s) <= Limit
                       \/ \A e \in Mesh!ToSet(s) : held[e] # 0 \/ e = excluded
<1>0. Len(s) \in Nat /\ DOMAIN s = 1..Len(s) /\ \A i \in 1..Len(s) : s[i] \in S
  BY LenProperties
<1> DEFINE C == Mesh!Retirable(s, held, excluded)
<1>1. C = {i \in 1..Len(s) : held[s[i]] = 0 /\ s[i] # excluded}
  BY <1>0 DEF Mesh!Retirable
<1>2. CASE Len(s) <= Limit \/ C = {}
  <2>1. x = Nil
    BY <1>2 DEF Mesh!Retired
  <2> QED BY <1>0, <1>1, <1>2, <2>1 DEF Mesh!ToSet
<1>3. CASE ~(Len(s) <= Limit \/ C = {})
  <2>1. x = s[CHOOSE i \in C : \A j \in C : i <= j]
    BY <1>3 DEF Mesh!Retired
  <2>2. \E i \in C : \A j \in C : i <= j
    <3>1. C \in SUBSET Nat /\ C # {}
      BY <1>0, <1>1, <1>3
    <3> HIDE DEF C
    <3> QED BY <3>1, LeastExists
  <2>3. PICK i \in C : x = s[i]
    BY <2>1, <2>2
  <2> QED BY <1>0, <1>1, <2>3 DEF Mesh!ToSet
<1> QED BY <1>2, <1>3

MeshRow == [at : {"idle", "retiring", "using", "ended"}, envelope : Envelope \cup {Nil},
            mesh : {"none", "open", "closed"}]
\* A turn uses a mesh from the moment it is leased; a turn that ended while it waited
\* never gives its lease back.
Using(q, e) == q.at \in {"retiring", "using"} /\ q.envelope = e
Uses(q, e) == IF Using(q, e) THEN 1 ELSE 0
Holds(q, e) == IF Using(q, e) \/ q.at = "ended" THEN 1 ELSE 0
Users(e) == {t \in Turning : Uses(meshTurn[t], e) = 1}
Holders(e) == {t \in Turning : Holds(meshTurn[t], e) = 1}
Unleased == {e \in Mesh!Kept : leases[e] = 0}

TurnSound(q) ==
  /\ q \in MeshRow
  /\ q.at \in {"retiring", "using"} => q.envelope \in Envelope
  /\ q.at \in {"idle", "ended"} => q.mesh = "none"
CacheTables ==
  /\ cache \in Seq(Envelope) /\ Distinct(cache) /\ leases \in [Envelope -> Nat]
  /\ meshTurn \in [Turning -> MeshRow] /\ \A t \in Turning : TurnSound(meshTurn[t])
LeasesCount ==
  /\ \A e \in Envelope : leases[e] <= Cardinality(Holders(e))
  /\ ~closed => \A e \in Envelope : /\ Cardinality(Users(e)) <= leases[e]
                                    /\ leases[e] > 0 => e \in Mesh!Kept
  /\ closed => cache = <<>> /\ \A e \in Envelope : leases[e] = 0
OpenWhileUsed ==
  ~closed => \A t \in Turning :
    meshTurn[t].at \in {"retiring", "using"} => meshTurn[t].mesh = "open"
CacheInv ==
  CacheTables /\ LeasesCount /\ OpenWhileUsed /\ Cardinality(Unleased) <= Limit

\* One turn changes: who uses a mesh and who holds a lease of it change with it.
LEMMA HoldersMove ==
  ASSUME CacheConstants, CacheInv, NEW t \in Turning, NEW x,
         meshTurn' = [meshTurn EXCEPT ![t] = x], NEW e
  PROVE  /\ Cardinality(Users(e)) \in Nat /\ Cardinality(Holders(e)) \in Nat
         /\ Cardinality(Users(e)') \in Nat /\ Cardinality(Holders(e)') \in Nat
         /\ Cardinality(Users(e)') + Uses(meshTurn[t], e) = Cardinality(Users(e)) + Uses(x, e)
         /\ Cardinality(Holders(e)') + Holds(meshTurn[t], e)
              = Cardinality(Holders(e)) + Holds(x, e)
<1>0. /\ meshTurn'[t] = x /\ \A s \in Turning \ {t} : meshTurn'[s] = meshTurn[s]
  BY DEF CacheInv, CacheTables
<1>1. /\ IsFiniteSet(Users(e)) /\ IsFiniteSet(Holders(e))
      /\ Cardinality(Users(e)) \in Nat /\ Cardinality(Holders(e)) \in Nat
  <2>1. Users(e) \in SUBSET Turning /\ Holders(e) \in SUBSET Turning
    BY DEF Users, Holders
  <2> QED BY <2>1, FS_Subset, FS_CardinalityType DEF CacheConstants
<1>2. /\ Cardinality(Users(e)') \in Nat
      /\ Cardinality(Users(e)') + Uses(meshTurn[t], e) = Cardinality(Users(e)) + Uses(x, e)
  <2>0. t \in Users(e) <=> Uses(meshTurn[t], e) = 1
    BY DEF Users
  <2>a. \A q : Uses(q, e) \in {0, 1}
    BY DEF Uses
  <2>1. CASE Uses(x, e) = 1
    <3>1. Users(e)' = Users(e) \cup {t}
      BY <1>0, <2>1 DEF Users
    <3>2. Cardinality(Users(e)') = IF t \in Users(e) THEN Cardinality(Users(e))
                                   ELSE Cardinality(Users(e)) + 1
      BY <1>1, <3>1, FS_AddElement
    <3> QED BY <1>1, <2>0, <2>a, <2>1, <3>2
  <2>2. CASE Uses(x, e) = 0
    <3>1. Users(e)' = Users(e) \ {t}
      BY <1>0, <2>2 DEF Users
    <3>2. Cardinality(Users(e)') = IF t \in Users(e) THEN Cardinality(Users(e)) - 1
                                   ELSE Cardinality(Users(e))
      BY <1>1, <3>1, FS_RemoveElement
    <3>3. Cardinality(Users(e)') \in Nat
      BY <1>1, <3>1, FS_RemoveElement, FS_CardinalityType
    <3> QED BY <1>1, <2>0, <2>a, <2>2, <3>2, <3>3
  <2> QED BY <2>a, <2>1, <2>2
<1>3. /\ Cardinality(Holders(e)') \in Nat
      /\ Cardinality(Holders(e)') + Holds(meshTurn[t], e)
           = Cardinality(Holders(e)) + Holds(x, e)
  <2>0. t \in Holders(e) <=> Holds(meshTurn[t], e) = 1
    BY DEF Holders
  <2>a. \A q : Holds(q, e) \in {0, 1}
    BY DEF Holds
  <2>1. CASE Holds(x, e) = 1
    <3>1. Holders(e)' = Holders(e) \cup {t}
      BY <1>0, <2>1 DEF Holders
    <3>2. Cardinality(Holders(e)') = IF t \in Holders(e) THEN Cardinality(Holders(e))
                                     ELSE Cardinality(Holders(e)) + 1
      BY <1>1, <3>1, FS_AddElement
    <3> QED BY <1>1, <2>0, <2>a, <2>1, <3>2
  <2>2. CASE Holds(x, e) = 0
    <3>1. Holders(e)' = Holders(e) \ {t}
      BY <1>0, <2>2 DEF Holders
    <3>2. Cardinality(Holders(e)') = IF t \in Holders(e) THEN Cardinality(Holders(e)) - 1
                                     ELSE Cardinality(Holders(e))
      BY <1>1, <3>1, FS_RemoveElement
    <3>3. Cardinality(Holders(e)') \in Nat
      BY <1>1, <3>1, FS_RemoveElement, FS_CardinalityType
    <3> QED BY <1>1, <2>0, <2>a, <2>2, <3>2, <3>3
  <2> QED BY <2>a, <2>1, <2>2
<1> QED BY <1>1, <1>2, <1>3

\* A step of one turn, the cache and the leases.
LEMMA CacheMoves ==
  ASSUME CacheConstants, CacheInv, NEW t \in Turning, NEW x, TurnSound(x),
         meshTurn' = [meshTurn EXCEPT ![t] = x], closed' = closed,
         cache' \in Seq(Envelope), Distinct(cache'), leases' \in [Envelope -> Nat],
         \A e \in Envelope : leases'[e] + Holds(meshTurn[t], e) <= leases[e] + Holds(x, e),
         ~closed => /\ x.at \in {"retiring", "using"} => x.mesh = "open"
                    /\ \A e \in Envelope :
                         /\ leases[e] + Uses(x, e) <= leases'[e] + Uses(meshTurn[t], e)
                         /\ leases'[e] > 0 => e \in Mesh!Kept',
         closed => cache' = <<>> /\ \A e \in Envelope : leases'[e] = 0,
         Cardinality(Unleased') <= Limit
  PROVE  CacheInv'
<1>0. /\ meshTurn'[t] = x /\ \A s \in Turning \ {t} : meshTurn'[s] = meshTurn[s]
      /\ leases \in [Envelope -> Nat]
  BY DEF CacheInv, CacheTables
<1>1. CacheTables'
  BY <1>0 DEF CacheInv, CacheTables, TurnSound
<1>2. OpenWhileUsed'
  BY <1>0 DEF CacheInv, OpenWhileUsed
<1>h. \A e \in Envelope :
        /\ Cardinality(Users(e)') \in Nat /\ Cardinality(Users(e)) \in Nat
        /\ Cardinality(Users(e)') + Uses(meshTurn[t], e) = Cardinality(Users(e)) + Uses(x, e)
  BY ONLY ZenonT(60), CacheConstants, CacheInv, t \in Turning,
          meshTurn' = [meshTurn EXCEPT ![t] = x], HoldersMove
<1>3. \A e \in Envelope : leases'[e] <= Cardinality(Holders(e)')
  <2> SUFFICES ASSUME NEW e \in Envelope PROVE leases'[e] <= Cardinality(Holders(e)')
    OBVIOUS
  <2>1. leases[e] <= Cardinality(Holders(e)) /\ leases[e] \in Nat /\ leases'[e] \in Nat
    BY <1>0 DEF CacheInv, LeasesCount
  <2>2. Holds(x, e) \in Nat /\ Holds(meshTurn[t], e) \in Nat
    BY DEF Holds
  <2>3. /\ Cardinality(Holders(e)') \in Nat /\ Cardinality(Holders(e)) \in Nat
        /\ Cardinality(Holders(e)') + Holds(meshTurn[t], e) = Cardinality(Holders(e)) + Holds(x, e)
    BY ONLY CacheConstants, CacheInv, t \in Turning, meshTurn' = [meshTurn EXCEPT ![t] = x],
            HoldersMove
  <2>4. leases'[e] + Holds(meshTurn[t], e) <= leases[e] + Holds(x, e)
    OBVIOUS
  <2> QED BY <2>1, <2>2, <2>3, <2>4
<1>4. ASSUME ~closed, NEW e \in Envelope PROVE Cardinality(Users(e)') <= leases'[e]
  <2>1. Cardinality(Users(e)) <= leases[e] /\ leases[e] \in Nat /\ leases'[e] \in Nat
    BY <1>0, <1>4 DEF CacheInv, LeasesCount
  <2>2. Uses(x, e) \in Nat /\ Uses(meshTurn[t], e) \in Nat
    BY DEF Uses
  <2>3. /\ Cardinality(Users(e)') \in Nat /\ Cardinality(Users(e)) \in Nat
        /\ Cardinality(Users(e)') + Uses(meshTurn[t], e) = Cardinality(Users(e)) + Uses(x, e)
    BY <1>h
  <2>4. leases[e] + Uses(x, e) <= leases'[e] + Uses(meshTurn[t], e)
    BY <1>4
  <2> QED BY <2>1, <2>2, <2>3, <2>4
<1>5. LeasesCount'
  BY <1>3, <1>4 DEF LeasesCount
<1> QED BY <1>1, <1>2, <1>5 DEF CacheInv

\* A mesh nobody leases is nobody's: closing it takes nothing from a turn.
LEMMA UnleasedIsUnused ==
  ASSUME CacheConstants, CacheInv, NEW e, e = Nil \/ (~closed /\ e \in Envelope /\ leases[e] = 0),
         NEW s \in Turning, meshTurn[s].envelope = e
  PROVE  meshTurn[s].mesh # "open" /\ Uses(meshTurn[s], e) = 0
<1>0. TurnSound(meshTurn[s])
  BY DEF CacheInv, CacheTables
<1>1. CASE e = Nil
  BY <1>0, <1>1 DEF TurnSound, MeshRow, CacheConstants, Uses, Using
<1>2. CASE ~closed /\ e \in Envelope /\ leases[e] = 0
  <2>1. Users(e) \in SUBSET Turning /\ IsFiniteSet(Users(e)) /\ Cardinality(Users(e)) \in Nat
    BY FS_Subset, FS_CardinalityType DEF Users, CacheConstants
  <2>2. Cardinality(Users(e)) = 0
    BY <1>2, <2>1 DEF CacheInv, LeasesCount
  <2>3. s \notin Users(e)
    BY <2>1, <2>2, FS_EmptySet
  <2>4. Uses(meshTurn[s], e) = 0
    BY <2>3 DEF Users, Uses
  <2> QED BY <1>0, <2>4 DEF Uses, Using, TurnSound, MeshRow
<1> QED BY <1>1, <1>2

LEMMA NothingLost ==
  ASSUME NEW turns, turns = [t \in Turning |-> turns[t]], NEW e,
         \A t \in Turning : turns[t].envelope = e => turns[t].mesh # "open"
  PROVE  Mesh!Losing(turns, e) = turns
BY DEF Mesh!Losing

\* After the oldest unleased mesh is dropped, no more are unleased than may be kept.
LEMMA UnleasedBound ==
  ASSUME CacheConstants, NEW s \in Seq(Envelope), Distinct(s), NEW held, NEW U, NEW e,
         IsFiniteSet(U), Cardinality(U) <= Limit,
         {f \in Mesh!ToSet(s) : held[f] = 0} \subseteq U \cup {e}
  PROVE  Cardinality({f \in Mesh!ToSet(Mesh!Without(s, Mesh!Retired(s, held, Nil))) :
                        held[f] = 0}) <= Limit
<1> DEFINE x == Mesh!Retired(s, held, Nil)
           W == {f \in Mesh!ToSet(s) : held[f] = 0}
           N == {f \in Mesh!ToSet(Mesh!Without(s, x)) : held[f] = 0}
<1> SUFFICES Cardinality(N) <= Limit
  OBVIOUS
<1>0. Limit \in Nat /\ Nil \notin Envelope /\ Len(s) \in Nat
  BY LenProperties DEF CacheConstants
<1>1. N = W \ {x}
  BY WithoutOne
<1>2. /\ x = Nil \/ (x \in Mesh!ToSet(s) /\ held[x] = 0)
      /\ x = Nil => Len(s) <= Limit \/ \A f \in Mesh!ToSet(s) : held[f] # 0 \/ f = Nil
  BY <1>0, RetiredIsUnleased
<1>3. /\ IsFiniteSet(Mesh!ToSet(s)) /\ Cardinality(Mesh!ToSet(s)) = Len(s)
      /\ \A f \in Mesh!ToSet(s) : f \in Envelope
  <2>1. \A f \in Mesh!ToSet(s) : f \in Envelope
    BY LenProperties DEF Mesh!ToSet
  <2> QED BY <2>1, LengthIsSize
<1> HIDE DEF x
<1>4. IsFiniteSet(W) /\ Cardinality(W) <= Len(s) /\ Cardinality(W) \in Nat
  <2>1. W \in SUBSET Mesh!ToSet(s)
    OBVIOUS
  <2> QED BY <1>3, <2>1, FS_Subset, FS_CardinalityType
<1>5. Cardinality(W) <= Limit + 1
  <2>1. IsFiniteSet(U \cup {e}) /\ Cardinality(U \cup {e}) <= Limit + 1
    <3>1. Cardinality(U) \in Nat
      BY FS_CardinalityType
    <3>2. /\ IsFiniteSet(U \cup {e})
          /\ Cardinality(U \cup {e}) = IF e \in U THEN Cardinality(U) ELSE Cardinality(U) + 1
      BY FS_AddElement
    <3> QED BY <1>0, <3>1, <3>2
  <2>2. W \in SUBSET (U \cup {e})
    OBVIOUS
  <2>3. Cardinality(W) <= Cardinality(U \cup {e}) /\ Cardinality(U \cup {e}) \in Nat
    BY <2>1, <2>2, FS_Subset, FS_CardinalityType
  <2> QED BY <1>0, <1>4, <2>1, <2>3
<1> HIDE DEF W, N
<1>6. Cardinality(N) = IF x \in W THEN Cardinality(W) - 1 ELSE Cardinality(W)
  BY <1>1, <1>4, FS_RemoveElement
<1>7. CASE x = Nil
  <2>1. CASE Len(s) <= Limit
    BY <1>0, <1>4, <1>6, <2>1
  <2>2. CASE \A f \in Mesh!ToSet(s) : held[f] # 0 \/ f = Nil
    <3>1. W = {}
      BY <1>0, <1>3, <2>2 DEF W
    <3>2. Cardinality(W) = 0 /\ x \notin W
      BY <3>1, FS_EmptySet
    <3> QED BY <1>0, <1>6, <3>2
  <2> QED BY <1>2, <1>7, <2>1, <2>2
<1>8. CASE x # Nil
  <2>1. x \in W
    BY <1>2, <1>8 DEF W
  <2> QED BY <1>0, <1>4, <1>5, <1>6, <2>1
<1> QED BY <1>7, <1>8

LEMMA CacheFields ==
  ASSUME CacheConstants, CacheInv
  PROVE  /\ cache \in Seq(Envelope) /\ Distinct(cache) /\ leases \in [Envelope -> Nat]
         /\ meshTurn \in [Turning -> MeshRow] /\ meshTurn = [t \in Turning |-> meshTurn[t]]
         /\ \A t \in Turning : TurnSound(meshTurn[t]) /\ meshTurn[t] \in MeshRow
         /\ Nil \notin Envelope /\ Limit \in Nat
         /\ IsFiniteSet(Unleased) /\ Cardinality(Unleased) \in Nat
         /\ Cardinality(Unleased) <= Limit
<1>1. IsFiniteSet(Mesh!Kept)
  BY LengthIsSize DEF CacheInv, CacheTables, Mesh!Kept
<1>2. IsFiniteSet(Unleased) /\ Cardinality(Unleased) \in Nat
  <2>1. Unleased \in SUBSET Mesh!Kept
    BY DEF Unleased
  <2> QED BY <1>1, <2>1, FS_Subset, FS_CardinalityType
<1> QED BY <1>2 DEF CacheInv, CacheTables, TurnSound, CacheConstants

LEMMA CacheResolves ==
  ASSUME CacheConstants, CacheInv, NEW t \in Turning, Mesh!Resolve(t) PROVE CacheInv'
<1>0. meshTurn[t].at = "idle" /\ ~closed /\ closed' = closed
  BY DEF Mesh!Resolve
<1>1. PICK e \in Envelope :
        LET held == [leases EXCEPT ![e] = @ + 1]
            evicted == IF e \in Mesh!Kept THEN Nil ELSE Mesh!Retired(Mesh!Moved(e), held, e)
            taken == [meshTurn EXCEPT ![t] = [at |-> "using", envelope |-> e, mesh |-> "open"]]
        IN /\ leases' = held /\ cache' = Mesh!Without(Mesh!Moved(e), evicted)
           /\ IF evicted = Nil THEN meshTurn' = taken
              ELSE meshTurn' = Mesh!Losing([taken EXCEPT ![t].at = "retiring"], evicted)
  BY DEF Mesh!Resolve
<1> DEFINE held == [leases EXCEPT ![e] = @ + 1]
           v == IF e \in Mesh!Kept THEN Nil ELSE Mesh!Retired(Mesh!Moved(e), held, e)
           m == Mesh!Moved(e)
<1>2. m \in Seq(Envelope) /\ Distinct(m) /\ Mesh!ToSet(m) = Mesh!Kept \cup {e}
  BY CacheFields, MovedToTheEnd DEF Mesh!Kept
<1>3. held \in [Envelope -> Nat] /\ held[e] = leases[e] + 1 /\ leases[e] \in Nat
      /\ \A f \in Envelope \ {e} : held[f] = leases[f]
  BY CacheFields
<1>4. v = Nil \/ (v \in Mesh!Kept /\ v \in Envelope /\ held[v] = 0 /\ v # e)
  <2>1. CASE e \in Mesh!Kept
    BY <2>1
  <2>2. CASE e \notin Mesh!Kept
    <3>1. v = Mesh!Retired(m, held, e)
      BY <2>2
    <3> HIDE DEF v, m, held
    <3>2. v = Nil \/ (v \in Mesh!ToSet(m) /\ held[v] = 0 /\ v # e)
      BY <1>2, <3>1, CacheFields, RetiredIsUnleased
    <3>3. \A f \in Mesh!Kept : f \in Envelope
      BY CacheFields, LenProperties DEF Mesh!Kept, Mesh!ToSet
    <3> QED BY <1>2, <3>2, <3>3
  <2> QED BY <2>1, <2>2
<1>5. v = Nil \/ (~closed /\ v \in Envelope /\ leases[v] = 0)
  BY <1>0, <1>3, <1>4
<1>6. \E x : /\ x = [at |-> "using", envelope |-> e, mesh |-> "open"]
                \/ x = [at |-> "retiring", envelope |-> e, mesh |-> "open"]
             /\ meshTurn' = [meshTurn EXCEPT ![t] = x]
  <2> DEFINE taken == [meshTurn EXCEPT ![t] = [at |-> "using", envelope |-> e, mesh |-> "open"]]
             y == [at |-> "retiring", envelope |-> e, mesh |-> "open"]
  <2>1. CASE v = Nil
    BY <1>1, <2>1
  <2>2. CASE v # Nil
    <3>1. [taken EXCEPT ![t].at = "retiring"] = [meshTurn EXCEPT ![t] = y]
      BY CacheFields
    <3>2. meshTurn' = Mesh!Losing([meshTurn EXCEPT ![t] = y], v)
      BY <1>1, <2>2, <3>1
    <3> HIDE DEF v
    <3> DEFINE turns == [meshTurn EXCEPT ![t] = y]
    <3>3. turns = [s \in Turning |-> turns[s]]
      BY CacheFields
    <3>4. \A s \in Turning : turns[s].envelope = v => turns[s].mesh # "open"
      <4>1. turns[t].envelope # v
        BY <1>4, <2>2, CacheFields
      <4>2. \A s \in Turning \ {t} : turns[s] = meshTurn[s]
        BY CacheFields
      <4> HIDE DEF turns
      <4> QED BY <1>5, <4>1, <4>2, UnleasedIsUnused
    <3> HIDE DEF turns
    <3>5. Mesh!Losing(turns, v) = turns
      BY <3>3, <3>4, NothingLost
    <3> QED BY <3>2, <3>5 DEF turns
  <2> QED BY <2>1, <2>2
<1>7. PICK x : /\ x = [at |-> "using", envelope |-> e, mesh |-> "open"]
                  \/ x = [at |-> "retiring", envelope |-> e, mesh |-> "open"]
               /\ meshTurn' = [meshTurn EXCEPT ![t] = x]
  BY <1>6
<1>8. /\ TurnSound(x) /\ x.mesh = "open"
      /\ \A f \in Envelope : Uses(x, f) = (IF f = e THEN 1 ELSE 0)
                             /\ Holds(x, f) = (IF f = e THEN 1 ELSE 0)
  BY <1>7 DEF TurnSound, MeshRow, Uses, Holds, Using
<1>9. \A f \in Envelope : Uses(meshTurn[t], f) = 0 /\ Holds(meshTurn[t], f) = 0
  BY <1>0 DEF Uses, Holds, Using
<1>10. leases' = held /\ cache' = Mesh!Without(m, v)
  BY <1>1
<1> HIDE DEF held, v, m
<1>11. /\ cache' \in Seq(Envelope) /\ Distinct(cache')
       /\ Mesh!Kept' = (Mesh!Kept \cup {e}) \ {v}
  BY <1>2, <1>10, WithoutOne DEF Mesh!Kept
<1>12. \A f \in Envelope :
         /\ leases'[f] + Holds(meshTurn[t], f) <= leases[f] + Holds(x, f)
         /\ leases[f] + Uses(x, f) <= leases'[f] + Uses(meshTurn[t], f)
  <2>1. \A f \in Envelope : leases[f] \in Nat
    BY CacheFields
  <2> QED BY <1>3, <1>8, <1>9, <1>10, <2>1
<1>13. \A f \in Envelope : leases'[f] > 0 => f \in Mesh!Kept'
  <2> SUFFICES ASSUME NEW f \in Envelope, held[f] > 0 PROVE f \in Mesh!Kept'
    BY <1>10
  <2>1. f # v
    BY <1>4, CacheFields
  <2>2. f = e \/ f \in Mesh!Kept
    BY <1>0, <1>3 DEF CacheInv, LeasesCount
  <2> QED BY <1>11, <2>1, <2>2
<1>14. Cardinality(Unleased') <= Limit
  <2>1. Unleased' \in SUBSET Unleased
    <3> SUFFICES ASSUME NEW f \in Mesh!Kept', held[f] = 0 PROVE f \in Mesh!Kept /\ leases[f] = 0
      BY <1>10 DEF Unleased
    <3>1. f # e /\ f \in Mesh!Kept
      BY <1>3, <1>11
    <3>2. f \in Envelope
      BY <3>1, CacheFields, LenProperties DEF Mesh!Kept, Mesh!ToSet
    <3> QED BY <1>3, <3>1, <3>2
  <2>2. Cardinality(Unleased') <= Cardinality(Unleased) /\ Cardinality(Unleased') \in Nat
    BY <2>1, CacheFields, FS_Subset, FS_CardinalityType
  <2> QED BY <2>2, CacheFields
<1>15. leases' \in [Envelope -> Nat]
  BY <1>3, <1>10
<1> QED BY <1>0, <1>7, <1>8, <1>11, <1>12, <1>13, <1>14, <1>15, CacheMoves

LEMMA CacheRetires ==
  ASSUME CacheConstants, CacheInv, NEW t \in Turning, Mesh!Retire(t) PROVE CacheInv'
<1>0. /\ meshTurn[t].at = "retiring" /\ cache' = cache /\ leases' = leases /\ closed' = closed
      /\ TurnSound(meshTurn[t]) /\ meshTurn[t] \in MeshRow
  BY CacheFields DEF Mesh!Retire
<1>1. PICK a \in {"using", "ended"} :
        meshTurn' = [meshTurn EXCEPT ![t] = IF a = "using" THEN [@ EXCEPT !.at = a]
                                            ELSE [Mesh!Idle EXCEPT !.at = a]]
  BY DEF Mesh!Retire
<1> DEFINE x == IF a = "using" THEN [meshTurn[t] EXCEPT !.at = a] ELSE [Mesh!Idle EXCEPT !.at = a]
<1>2. meshTurn' = [meshTurn EXCEPT ![t] = x]
  BY <1>1
<1>3. /\ TurnSound(x)
      /\ x.at \in {"retiring", "using"} => x.mesh = meshTurn[t].mesh
      /\ \A f \in Envelope : Holds(meshTurn[t], f) <= Holds(x, f)
                             /\ Uses(x, f) <= Uses(meshTurn[t], f)
  <2>1. CASE a = "using"
    <3>1. x = [at |-> "using", envelope |-> meshTurn[t].envelope, mesh |-> meshTurn[t].mesh]
      BY <1>0, <2>1 DEF MeshRow
    <3> HIDE DEF x
    <3> QED BY <1>0, <3>1 DEF TurnSound, MeshRow, Holds, Uses, Using
  <2>2. CASE a = "ended"
    <3>1. x = [at |-> "ended", envelope |-> Nil, mesh |-> "none"]
      BY <2>2 DEF Mesh!Idle
    <3> HIDE DEF x
    <3> QED BY <1>0, <3>1, CacheFields DEF TurnSound, MeshRow, Holds, Uses, Using
  <2> QED BY <2>1, <2>2
<1> HIDE DEF x
<1>4. \A f \in Envelope :
        /\ leases'[f] + Holds(meshTurn[t], f) <= leases[f] + Holds(x, f)
        /\ leases[f] + Uses(x, f) <= leases'[f] + Uses(meshTurn[t], f)
  <2>1. \A f \in Envelope : /\ leases[f] \in Nat /\ Holds(meshTurn[t], f) \in Nat
                            /\ Holds(x, f) \in Nat /\ Uses(x, f) \in Nat
                            /\ Uses(meshTurn[t], f) \in Nat
    BY CacheFields DEF Holds, Uses
  <2> QED BY <1>0, <1>3, <2>1
<1>5. Mesh!Kept' = Mesh!Kept /\ Unleased' = Unleased
  BY <1>0 DEF Mesh!Kept, Unleased
<1>6. cache' \in Seq(Envelope) /\ Distinct(cache') /\ leases' \in [Envelope -> Nat]
      /\ Cardinality(Unleased') <= Limit
  BY <1>0, <1>5, CacheFields
<1>7. ~closed => /\ x.at \in {"retiring", "using"} => x.mesh = "open"
                 /\ \A f \in Envelope : leases'[f] > 0 => f \in Mesh!Kept'
  BY <1>0, <1>3, <1>5 DEF CacheInv, OpenWhileUsed, LeasesCount
<1>8. closed => cache' = <<>> /\ \A f \in Envelope : leases'[f] = 0
  BY <1>0 DEF CacheInv, LeasesCount
<1> QED BY <1>0, <1>2, <1>3, <1>4, <1>6, <1>7, <1>8, CacheMoves

LEMMA CacheAsserts ==
  ASSUME CacheConstants, CacheInv, NEW t \in Turning, Mesh!AssertCurrent(t) PROVE CacheInv'
<1>0. /\ ~closed /\ closed' = closed /\ leases' = leases
      /\ meshTurn[t].at = "using" /\ TurnSound(meshTurn[t])
  BY CacheFields DEF Mesh!AssertCurrent
<1>1. PICK e \in Envelope :
        LET evicted == IF e \in Mesh!Kept THEN Nil ELSE Mesh!Retired(Mesh!Moved(e), leases, Nil)
        IN cache' = Mesh!Without(Mesh!Moved(e), evicted) /\ meshTurn' = Mesh!Losing(meshTurn, evicted)
  BY DEF Mesh!AssertCurrent
<1> DEFINE v == IF e \in Mesh!Kept THEN Nil ELSE Mesh!Retired(Mesh!Moved(e), leases, Nil)
           m == Mesh!Moved(e)
<1>2. m \in Seq(Envelope) /\ Distinct(m) /\ Mesh!ToSet(m) = Mesh!Kept \cup {e}
  BY CacheFields, MovedToTheEnd DEF Mesh!Kept
<1>a. \A f \in Mesh!Kept : f \in Envelope
  BY CacheFields, LenProperties DEF Mesh!Kept, Mesh!ToSet
<1>3. v = Nil \/ (v \in Envelope /\ leases[v] = 0)
  <2>1. CASE e \in Mesh!Kept
    BY <2>1
  <2>2. CASE e \notin Mesh!Kept
    <3>1. v = Mesh!Retired(m, leases, Nil)
      BY <2>2
    <3> HIDE DEF v, m
    <3>2. v = Nil \/ (v \in Mesh!ToSet(m) /\ leases[v] = 0)
      BY <1>2, <3>1, CacheFields, RetiredIsUnleased
    <3> QED BY <1>2, <1>a, <3>2
  <2> QED BY <2>1, <2>2
<1>4. meshTurn' = meshTurn /\ cache' = Mesh!Without(m, v)
  <2>1. meshTurn' = Mesh!Losing(meshTurn, v) /\ cache' = Mesh!Without(m, v)
    BY <1>1
  <2> HIDE DEF v, m
  <2>2. \A s \in Turning : meshTurn[s].envelope = v => meshTurn[s].mesh # "open"
    BY <1>0, <1>3, UnleasedIsUnused
  <2> QED BY <2>1, <2>2, CacheFields, NothingLost
<1>5. Cardinality(Unleased') <= Limit
  <2>0. Unleased' = {f \in Mesh!ToSet(Mesh!Without(m, v)) : leases[f] = 0}
    BY <1>0, <1>4 DEF Unleased, Mesh!Kept
  <2>1. CASE e \in Mesh!Kept
    <3>1. v = Nil
      BY <2>1
    <3> HIDE DEF v, m
    <3>2. Unleased' \in SUBSET Unleased
      BY <1>2, <2>0, <2>1, WithoutOne DEF Unleased
    <3>3. Cardinality(Unleased') <= Cardinality(Unleased) /\ Cardinality(Unleased') \in Nat
      BY <3>2, CacheFields, FS_Subset, FS_CardinalityType
    <3> QED BY <3>3, CacheFields
  <2>2. CASE e \notin Mesh!Kept
    <3>1. v = Mesh!Retired(m, leases, Nil)
      BY <2>2
    <3> HIDE DEF v, m
    <3>2. {f \in Mesh!ToSet(m) : leases[f] = 0} \subseteq Unleased \cup {e}
      BY <1>2 DEF Unleased
    <3>3. Cardinality({f \in Mesh!ToSet(Mesh!Without(m, Mesh!Retired(m, leases, Nil))) :
                         leases[f] = 0}) <= Limit
      BY <1>2, <3>2, CacheFields, UnleasedBound
    <3> QED BY <2>0, <3>1, <3>3
  <2> QED BY <2>1, <2>2
<1> HIDE DEF v, m
<1>6. /\ cache' \in Seq(Envelope) /\ Distinct(cache')
      /\ Mesh!Kept' = (Mesh!Kept \cup {e}) \ {v}
  BY <1>2, <1>4, WithoutOne DEF Mesh!Kept
<1>7. \A f \in Envelope : leases'[f] > 0 => f \in Mesh!Kept'
  <2> SUFFICES ASSUME NEW f \in Envelope, leases[f] > 0 PROVE f \in Mesh!Kept'
    BY <1>0
  <2>1. f # v
    BY <1>3, CacheFields
  <2>2. f \in Mesh!Kept
    BY <1>0 DEF CacheInv, LeasesCount
  <2> QED BY <1>6, <2>1, <2>2
<1> DEFINE x == meshTurn[t]
<1>8. meshTurn' = [meshTurn EXCEPT ![t] = x]
  BY <1>4, CacheFields
<1>9. x.at \in {"retiring", "using"} => x.mesh = "open"
  BY <1>0 DEF CacheInv, OpenWhileUsed
<1>10. \A f \in Envelope :
         /\ leases'[f] + Holds(meshTurn[t], f) <= leases[f] + Holds(x, f)
         /\ leases[f] + Uses(x, f) <= leases'[f] + Uses(meshTurn[t], f)
  <2>1. \A f \in Envelope : leases[f] \in Nat /\ Holds(x, f) \in Nat /\ Uses(x, f) \in Nat
    BY CacheFields DEF Holds, Uses
  <2> QED BY <1>0, <2>1
<1>11. TurnSound(x)
  BY <1>0
<1>12. leases' \in [Envelope -> Nat]
  BY <1>0, CacheFields
<1> HIDE DEF x
<1> QED BY <1>0, <1>5, <1>6, <1>7, <1>8, <1>9, <1>10, <1>11, <1>12, CacheMoves

LEMMA CacheReleases ==
  ASSUME CacheConstants, CacheInv, NEW t \in Turning, Mesh!Release(t) PROVE CacheInv'
<1> DEFINE e == meshTurn[t].envelope
           held == Mesh!GivenBack(e)
           v == Mesh!Retired(cache, held, Nil)
<1>0. /\ closed' = closed /\ meshTurn[t].at = "using" /\ TurnSound(meshTurn[t])
      /\ leases' = held /\ cache' = Mesh!Without(cache, v)
      /\ meshTurn' = Mesh!Losing([meshTurn EXCEPT ![t] = Mesh!Idle], v)
  BY CacheFields DEF Mesh!Release
<1>1. e \in Envelope
  BY <1>0 DEF TurnSound
<1>2. /\ held \in [Envelope -> Nat]
      /\ held[e] = IF leases[e] > 0 THEN leases[e] - 1 ELSE 0
      /\ \A f \in Envelope \ {e} : held[f] = leases[f]
      /\ \A f \in Envelope : leases[f] \in Nat
  BY <1>1, CacheFields DEF Mesh!GivenBack
<1>3. v = Nil \/ (v \in Mesh!Kept /\ held[v] = 0)
  <2> HIDE DEF held
  <2> QED BY CacheFields, RetiredIsUnleased DEF Mesh!Kept
<1>a. \A f \in Mesh!Kept : f \in Envelope
  BY CacheFields, LenProperties DEF Mesh!Kept, Mesh!ToSet
<1>4. closed => v = Nil /\ cache = <<>>
  BY CacheFields DEF CacheInv, LeasesCount, Mesh!Retired
<1>5. meshTurn' = [meshTurn EXCEPT ![t] = Mesh!Idle]
  <2> DEFINE turns == [meshTurn EXCEPT ![t] = Mesh!Idle]
  <2>1. turns = [s \in Turning |-> turns[s]] /\ turns[t] = Mesh!Idle
        /\ \A s \in Turning \ {t} : turns[s] = meshTurn[s]
    BY CacheFields
  <2>2. meshTurn' = Mesh!Losing(turns, v)
    BY <1>0
  <2> HIDE DEF turns, v, held
  <2>3. ASSUME NEW s \in Turning, turns[s].envelope = v PROVE turns[s].mesh # "open"
    <3>1. CASE s = t
      BY <2>1, <3>1 DEF Mesh!Idle
    <3>2. CASE s # t /\ (v = Nil \/ v # e)
      <4>1. v = Nil \/ (~closed /\ v \in Envelope /\ leases[v] = 0)
        BY <1>2, <1>3, <1>4, <1>a, <3>2
      <4> QED BY <2>1, <2>3, <3>2, <4>1, UnleasedIsUnused
    <3>3. CASE s # t /\ v = e /\ v # Nil
      <4>0. ~closed /\ held[e] = 0 /\ meshTurn[s].envelope = e /\ TurnSound(meshTurn[s])
        BY <1>3, <1>4, <2>1, <2>3, <3>3, CacheFields
      <4>1. leases[e] <= 1 /\ leases[e] \in Nat
        BY <1>1, <1>2, <4>0
      <4>2. Cardinality(Users(e)) <= leases[e]
        BY <1>1, <4>0 DEF CacheInv, LeasesCount
      <4>3. IsFiniteSet(Users(e)) /\ Cardinality(Users(e)) \in Nat
        <5>1. Users(e) \in SUBSET Turning
          BY DEF Users
        <5> QED BY <5>1, FS_Subset, FS_CardinalityType DEF CacheConstants
      <4>4. t \in Users(e)
        BY <1>0 DEF Users, Uses, Using
      <4>5. ASSUME s \in Users(e) PROVE FALSE
        <5>1. {s, t} \in SUBSET Users(e) /\ s # t
          BY <3>3, <4>4, <4>5
        <5>2. Cardinality({s, t}) = 2
          <6>1. {s, t} = {s} \cup {t} /\ t \notin {s}
            BY <5>1
          <6>2. IsFiniteSet({s}) /\ Cardinality({s}) = 1
            BY FS_Singleton
          <6>3. Cardinality({s} \cup {t}) = Cardinality({s}) + 1
            BY <6>1, <6>2, FS_AddElement
          <6> QED BY <6>1, <6>2, <6>3
        <5>3. Cardinality({s, t}) <= Cardinality(Users(e))
          BY <4>3, <5>1, FS_Subset
        <5> QED BY <4>1, <4>2, <4>3, <5>2, <5>3
      <4>6. meshTurn[s].at \notin {"retiring", "using"}
        BY <4>0, <4>5 DEF Users, Uses, Using
      <4> QED BY <2>1, <3>3, <4>0, <4>6 DEF TurnSound, MeshRow
    <3> QED BY <3>1, <3>2, <3>3
  <2>4. Mesh!Losing(turns, v) = turns
    BY <2>1, <2>3, NothingLost
  <2> QED BY <2>2, <2>4 DEF turns
<1>6. Cardinality(Unleased') <= Limit
  <2>1. Unleased' = {f \in Mesh!ToSet(Mesh!Without(cache, v)) : held[f] = 0}
    BY <1>0 DEF Unleased, Mesh!Kept
  <2>2. v = Mesh!Retired(cache, held, Nil)
    OBVIOUS
  <2> HIDE DEF v, held
  <2>3. {f \in Mesh!ToSet(cache) : held[f] = 0} \subseteq Unleased \cup {e}
    BY <1>2, <1>a DEF Unleased, Mesh!Kept
  <2>4. Cardinality({f \in Mesh!ToSet(Mesh!Without(cache, Mesh!Retired(cache, held, Nil))) :
                       held[f] = 0}) <= Limit
    BY <2>3, CacheFields, UnleasedBound
  <2> QED BY <2>1, <2>2, <2>4
<1> HIDE DEF v, held
<1>7. /\ cache' \in Seq(Envelope) /\ Distinct(cache') /\ Mesh!Kept' = Mesh!Kept \ {v}
  BY <1>0, CacheFields, WithoutOne DEF Mesh!Kept
<1>8. ~closed => \A f \in Envelope : leases'[f] > 0 => f \in Mesh!Kept'
  <2> SUFFICES ASSUME ~closed, NEW f \in Envelope, held[f] > 0 PROVE f \in Mesh!Kept'
    BY <1>0
  <2>1. f # v
    BY <1>3, CacheFields
  <2>2. leases[f] > 0
    BY <1>1, <1>2
  <2>3. f \in Mesh!Kept
    BY <2>2 DEF CacheInv, LeasesCount
  <2> QED BY <1>7, <2>1, <2>3
<1>9. closed => cache' = <<>> /\ \A f \in Envelope : leases'[f] = 0
  <2> SUFFICES ASSUME closed PROVE cache' = <<>> /\ \A f \in Envelope : leases'[f] = 0
    OBVIOUS
  <2>1. \A f \in Envelope : leases[f] = 0
    BY DEF CacheInv, LeasesCount
  <2>2. cache' = <<>>
    BY <1>0, <1>4 DEF Mesh!Without, Mesh!ToSet
  <2> QED BY <1>0, <1>2, <2>1, <2>2
<1>10. /\ TurnSound(Mesh!Idle) /\ Mesh!Idle.at = "idle"
       /\ \A f \in Envelope : /\ Uses(Mesh!Idle, f) = 0 /\ Holds(Mesh!Idle, f) = 0
                              /\ Uses(meshTurn[t], f) = (IF f = e THEN 1 ELSE 0)
                              /\ Holds(meshTurn[t], f) = (IF f = e THEN 1 ELSE 0)
  BY <1>0 DEF TurnSound, MeshRow, Mesh!Idle, Uses, Holds, Using
<1>11. leases[e] > 0 \/ closed
  <2> SUFFICES ASSUME ~closed PROVE leases[e] > 0
    OBVIOUS
  <2>1. IsFiniteSet(Users(e)) /\ Cardinality(Users(e)) \in Nat /\ Cardinality(Users(e)) <= leases[e]
    <3>1. Users(e) \in SUBSET Turning
      BY DEF Users
    <3> QED BY <1>1, <3>1, FS_Subset, FS_CardinalityType DEF CacheConstants, CacheInv, LeasesCount
  <2>2. t \in Users(e)
    BY <1>0 DEF Users, Uses, Using
  <2>3. Cardinality(Users(e)) # 0
    BY <2>1, <2>2, FS_EmptySet
  <2> QED BY <1>1, <1>2, <2>1, <2>3
<1>12. \A f \in Envelope : leases[f] + Uses(Mesh!Idle, f) <= leases'[f] + Uses(meshTurn[t], f)
  BY <1>0, <1>1, <1>2, <1>10
<1>13. ~closed => \A f \in Envelope :
         leases'[f] + Holds(meshTurn[t], f) <= leases[f] + Holds(Mesh!Idle, f)
  BY <1>0, <1>1, <1>2, <1>10, <1>11
<1>14. leases' \in [Envelope -> Nat]
  BY <1>0, <1>2
<1>15. CASE ~closed
  BY <1>0, <1>5, <1>6, <1>7, <1>8, <1>10, <1>12, <1>13, <1>14, <1>15, CacheMoves
<1>16. CASE closed
  <2>1. CacheTables'
    BY <1>5, <1>7, <1>10, <1>14, CacheFields DEF CacheTables, TurnSound
  <2>2. \A f \in Envelope : leases'[f] = 0 /\ Cardinality(Holders(f)') \in Nat
    <3> SUFFICES ASSUME NEW f \in Envelope PROVE Cardinality(Holders(f)') \in Nat
      BY <1>9, <1>16
    <3> QED BY <1>5, HoldersMove
  <2>3. LeasesCount'
    BY <1>0, <1>9, <1>16, <2>2 DEF LeasesCount
  <2>4. OpenWhileUsed'
    BY <1>0, <1>16 DEF OpenWhileUsed
  <2> QED BY <1>6, <2>1, <2>3, <2>4 DEF CacheInv
<1> QED BY <1>15, <1>16

LEMMA CacheCloses ==
  ASSUME CacheConstants, CacheInv, Mesh!Close PROVE CacheInv'
<1>0. /\ closed' = TRUE /\ cache' = <<>> /\ leases' = [e \in Envelope |-> 0]
      /\ meshTurn' = [t \in Turning |-> IF meshTurn[t].mesh = "open"
                                        THEN [meshTurn[t] EXCEPT !.mesh = "closed"]
                                        ELSE meshTurn[t]]
  BY DEF Mesh!Close
<1>1. \A t \in Turning : TurnSound(meshTurn'[t])
  <2> SUFFICES ASSUME NEW t \in Turning PROVE TurnSound(meshTurn'[t])
    OBVIOUS
  <2>1. TurnSound(meshTurn[t]) /\ meshTurn[t] \in MeshRow
    BY CacheFields
  <2>2. CASE meshTurn[t].mesh = "open"
    <3>1. meshTurn'[t] = [meshTurn[t] EXCEPT !.mesh = "closed"]
      BY <1>0, <2>2
    <3>2. meshTurn[t].at \notin {"idle", "ended"}
      BY <2>1, <2>2 DEF TurnSound
    <3> QED BY <2>1, <3>1, <3>2 DEF TurnSound, MeshRow
  <2>3. CASE meshTurn[t].mesh # "open"
    BY <1>0, <2>1, <2>3
  <2> QED BY <2>2, <2>3
<1>2. CacheTables'
  BY <1>0, <1>1, EmptySeq DEF CacheTables, Distinct, TurnSound
<1>3. \A e \in Envelope : Cardinality(Holders(e)') \in Nat
  <2> SUFFICES ASSUME NEW e \in Envelope PROVE Cardinality(Holders(e)') \in Nat
    OBVIOUS
  <2>1. Holders(e)' \in SUBSET Turning
    BY DEF Holders
  <2> QED BY <2>1, FS_Subset, FS_CardinalityType DEF CacheConstants
<1>4. LeasesCount' /\ OpenWhileUsed'
  BY <1>0, <1>3 DEF LeasesCount, OpenWhileUsed
<1>5. Cardinality(Unleased') <= Limit
  <2>1. Unleased' = {}
    BY <1>0 DEF Unleased, Mesh!Kept, Mesh!ToSet
  <2> QED BY <2>1, FS_EmptySet, CacheFields
<1> QED BY <1>2, <1>4, <1>5 DEF CacheInv

LEMMA CacheStarts == ASSUME CacheConstants, Mesh!CacheInit PROVE CacheInv
<1>0. /\ cache = <<>> /\ leases = [e \in Envelope |-> 0] /\ closed = FALSE
      /\ meshTurn = [t \in Turning |-> Mesh!Idle]
  BY DEF Mesh!CacheInit
<1>1. TurnSound(Mesh!Idle)
  BY DEF TurnSound, MeshRow, Mesh!Idle
<1>2. CacheTables
  BY <1>0, <1>1, EmptySeq DEF CacheTables, Distinct, TurnSound
<1>3. \A e \in Envelope : Users(e) = {} /\ Holders(e) = {}
  BY <1>0 DEF Users, Holders, Uses, Holds, Using, Mesh!Idle
<1>4. LeasesCount /\ OpenWhileUsed
  <2>1. \A e \in Envelope :
          leases[e] = 0 /\ Cardinality(Users(e)) = 0 /\ Cardinality(Holders(e)) = 0
    <3> SUFFICES ASSUME NEW e \in Envelope
                 PROVE  leases[e] = 0 /\ Cardinality(Users(e)) = 0 /\ Cardinality(Holders(e)) = 0
      OBVIOUS
    <3>1. Users(e) = {} /\ Holders(e) = {} /\ Cardinality({}) = 0
      BY <1>3, FS_EmptySet
    <3> QED BY <1>0, <3>1
  <2>2. LeasesCount
    BY <1>0, <2>1 DEF LeasesCount
  <2> QED BY <1>0, <2>2 DEF OpenWhileUsed, Mesh!Idle
<1>5. Unleased = {}
  BY <1>0 DEF Unleased, Mesh!Kept, Mesh!ToSet
<1> QED BY <1>2, <1>4, <1>5, FS_EmptySet DEF CacheInv, CacheConstants

\* The leases of the meshes that are kept count the turns that use them.
THEOREM CacheInvariance == ASSUME CacheConstants PROVE Mesh!CacheSpec => []CacheInv
<1>1. CacheInv /\ [Mesh!CacheNext]_(Mesh!cacheVars) => CacheInv'
  <2> SUFFICES ASSUME CacheInv, [Mesh!CacheNext]_(Mesh!cacheVars) PROVE CacheInv'
    OBVIOUS
  <2>1. CASE UNCHANGED Mesh!cacheVars
    <3>1. UNCHANGED <<cache, leases, meshTurn, closed>>
      BY <2>1 DEF Mesh!cacheVars
    <3>2. Unleased' = Unleased /\ \A e : Users(e)' = Users(e) /\ Holders(e)' = Holders(e)
      BY <3>1 DEF Unleased, Mesh!Kept, Users, Holders
    <3> QED BY <3>1, <3>2 DEF CacheInv, CacheTables, LeasesCount, OpenWhileUsed, Mesh!Kept
  <2> QED BY <2>1, CacheResolves, CacheRetires, CacheAsserts, CacheReleases, CacheCloses
          DEF Mesh!CacheNext
<1> QED BY <1>1, CacheStarts, PTL DEF Mesh!CacheSpec

LEMMA CacheKeepsPromises ==
  ASSUME CacheConstants
  PROVE  CacheInv => Mesh!CacheTypeOK /\ Mesh!TurnKeepsMesh /\ Mesh!CacheBounded
<1> SUFFICES ASSUME CacheInv PROVE Mesh!CacheTypeOK /\ Mesh!TurnKeepsMesh /\ Mesh!CacheBounded
  OBVIOUS
<1>0. /\ IsFiniteSet(Mesh!Kept) /\ Cardinality(Mesh!Kept) = Len(cache) /\ Len(cache) \in Nat
      /\ \A S : Mesh!Cardinality(S) = Cardinality(S)
  <2>1. \A S : Mesh!Cardinality(S) = Cardinality(S)
    BY DEF Mesh!Cardinality, Cardinality
  <2> QED BY <2>1, CacheFields, LengthIsSize, LenProperties DEF Mesh!Kept
<1>1. Mesh!CacheTypeOK
  <2>1. \A e \in Envelope : leases[e] \in 0..Cardinality(Turning)
    <3> SUFFICES ASSUME NEW e \in Envelope PROVE leases[e] \in 0..Cardinality(Turning)
      OBVIOUS
    <3>1. Holders(e) \in SUBSET Turning
      BY DEF Holders
    <3>2. /\ Cardinality(Holders(e)) <= Cardinality(Turning)
          /\ Cardinality(Holders(e)) \in Nat /\ Cardinality(Turning) \in Nat
      BY <3>1, FS_Subset, FS_CardinalityType DEF CacheConstants
    <3>3. leases[e] <= Cardinality(Holders(e)) /\ leases[e] \in Nat
      BY CacheFields DEF CacheInv, LeasesCount
    <3> QED BY <3>2, <3>3
  <2>2. leases \in [Envelope -> 0..Cardinality(Turning)]
    BY <2>1, CacheFields
  <2>3. \A t \in Turning : meshTurn[t].at \in {"idle", "retiring", "using", "ended"}
    BY CacheFields DEF MeshRow
  <2> QED BY <1>0, <2>2, <2>3, CacheFields DEF Mesh!CacheTypeOK
<1>2. Mesh!TurnKeepsMesh
  <2> SUFFICES ASSUME ~closed, NEW t \in Turning, meshTurn[t].at \in {"retiring", "using"}
               PROVE  meshTurn[t].mesh = "open" /\ meshTurn[t].envelope \in Mesh!Kept
    BY DEF Mesh!TurnKeepsMesh
  <2> DEFINE e == meshTurn[t].envelope
  <2>1. e \in Envelope /\ t \in Users(e)
    BY CacheFields DEF TurnSound, Users, Uses, Using
  <2>2. IsFiniteSet(Users(e)) /\ Cardinality(Users(e)) \in Nat /\ Cardinality(Users(e)) # 0
    <3>1. Users(e) \in SUBSET Turning
      BY DEF Users
    <3>2. IsFiniteSet(Users(e))
      BY <3>1, FS_Subset DEF CacheConstants
    <3> QED BY <2>1, <3>2, FS_EmptySet, FS_CardinalityType
  <2>3. Cardinality(Users(e)) <= leases[e] /\ leases[e] \in Nat
    BY <2>1, CacheFields DEF CacheInv, LeasesCount
  <2>4. e \in Mesh!Kept
    BY <2>1, <2>2, <2>3 DEF CacheInv, LeasesCount
  <2> QED BY <2>4 DEF CacheInv, OpenWhileUsed
<1>3. Mesh!CacheBounded
  <2> DEFINE L == {e \in Mesh!Kept : leases[e] > 0}
  <2>1. L \in SUBSET Mesh!Kept /\ L = Mesh!Kept \ Unleased /\ Unleased \in SUBSET Mesh!Kept
    <3>1. \A e \in Mesh!Kept : leases[e] \in Nat
      BY CacheFields, LenProperties DEF Mesh!Kept, Mesh!ToSet
    <3> QED BY <3>1 DEF Unleased
  <2>2. Mesh!Kept \cap Unleased = Unleased
    BY <2>1
  <2>3. Cardinality(L) = Cardinality(Mesh!Kept) - Cardinality(Unleased)
    BY <1>0, <2>1, <2>2, FS_Difference
  <2> HIDE DEF L
  <2>4. Len(cache) - Limit <= Cardinality(L)
    BY <1>0, <2>3, CacheFields
  <2> QED BY <1>0, <2>4 DEF L, Mesh!CacheBounded
<1> QED BY <1>1, <1>2, <1>3

-----------------------------------------------------------------------------
(* The release authority: history, pointer, leases and the turns' releases. *)

Within(S) == \A y \in S : PriorOf[y] # Nil => PriorOf[y] \in S
\* An activation and those it would be rolled back to, one after the other.
Lineage(a) == {x \in Activation : \A S \in SUBSET Activation : a \in S /\ Within(S) => x \in S}

LEMMA LineageOf ==
  ASSUME AuthorityConstants, NEW a \in Activation
  PROVE  /\ a \in Lineage(a) /\ Lineage(a) \subseteq Activation /\ Within(Lineage(a))
         /\ PriorOf[a] = Nil => Lineage(a) = {a}
         /\ PriorOf[a] # Nil => /\ PriorOf[a] \in Activation /\ PriorOf[a] \in Lineage(a)
                                /\ Lineage(PriorOf[a]) \subseteq Lineage(a)
                                /\ Lineage(a) \subseteq {a} \cup Lineage(PriorOf[a])
<1>1. \A b \in Activation : /\ b \in Lineage(b) /\ Lineage(b) \subseteq Activation
                            /\ Within(Lineage(b))
  BY DEF Lineage, Within, AuthorityConstants
<1>2. ASSUME PriorOf[a] = Nil PROVE Lineage(a) = {a}
  <2>1. Within({a}) /\ {a} \in SUBSET Activation
    BY <1>2 DEF Within
  <2>2. \A x \in Lineage(a) : x \in {a}
    BY <2>1 DEF Lineage
  <2> QED BY <1>1, <2>2
<1>3. ASSUME PriorOf[a] # Nil
      PROVE  /\ PriorOf[a] \in Activation /\ PriorOf[a] \in Lineage(a)
             /\ Lineage(PriorOf[a]) \subseteq Lineage(a)
             /\ Lineage(a) \subseteq {a} \cup Lineage(PriorOf[a])
  <2> DEFINE p == PriorOf[a]
             S == {a} \cup Lineage(p)
  <2>1. p \in Activation /\ p \in Lineage(a)
    BY <1>1, <1>3 DEF Within, AuthorityConstants
  <2>2. Lineage(a) \in SUBSET Activation /\ Within(Lineage(a))
    BY <1>1
  <2>3. \A x \in Lineage(p) : x \in Lineage(a)
    BY <2>1, <2>2 DEF Lineage
  <2>4. S \in SUBSET Activation /\ Within(S) /\ a \in S
    BY <1>1, <2>1 DEF Within
  <2>5. \A x \in Lineage(a) : x \in S
    BY <2>4 DEF Lineage
  <2> QED BY <2>1, <2>3, <2>5
<1> QED BY <1>1, <1>2, <1>3

\* What an event that was inserted asks of the pins and the chain before it.
Admitted(e) ==
  /\ e \in Authority!Events /\ Authority!MatrixAdmits(e) /\ Authority!DocumentAdmits(e)
  /\ e.type = "activated" => PriorOf[e.to] = Nil
  /\ e.type = "revoked" => PriorOf[e.from] = Nil
  /\ e.type = "rolled_back" => PriorOf[e.from] = e.to /\ Authority!MadeTarget(e.to) # {}

\* Whoever was made the target does not pin itself, and its prior was made the
\* target before it ever was.
PriorsFirst ==
  \A x \in Activation : Authority!MadeTarget(x) # {} =>
    /\ PriorOf[x] # x
    /\ PriorOf[x] # Nil =>
         \E i \in Authority!MadeTarget(PriorOf[x]) : \A j \in Authority!MadeTarget(x) : i < j
NotRevoked(x) ==
  \E i \in Authority!Related(x) :
    history[i].type # "revoked" /\ \A j \in Authority!Related(x) : j <= i
\* The activations the target would be rolled back to were superseded, not revoked.
LineageKept ==
  pointer.target # Safe =>
    \A x \in Lineage(pointer.target) \ {pointer.target} : NotRevoked(x)

Live(t) == lease[t] # Nil /\ lease[t].expires > clock
Writing(x) ==
  /\ x \in Authority!Transactions
  /\ Authority!MatrixAdmits(x.event) /\ Authority!DocumentAdmits(x.event)
  /\ x.inserted => Admitted(x.event) /\ x.revision = Len(history) + 1
  /\ x.moved => /\ x.inserted /\ x.event.from = pointer.target
                /\ ~Authority!LiveLeaseOn(pointer.target)
WritersSound ==
  /\ \A w \in Writer : tx[w] # Nil => Writing(tx[w])
  /\ \A v, w \in Writer :
       tx[v] # Nil /\ tx[w] # Nil /\ tx[v].inserted /\ tx[w].inserted => v = w

Resolving(r, l) ==
  /\ r \in Authority!Turns
  /\ r.phase \in {"pointer", "snapshot", "verified", "fresh", "checked"} =>
       /\ r.seen \in Authority!Pointers /\ r.seen.target \in Activation
       /\ r.seen.revision \in 1..MaxRevision
  /\ r.phase = "checked" => r.release = r.seen
  /\ r.phase = "leased" =>
       l \in Authority!Leases /\ r.release = [target |-> l.activation, revision |-> l.revision]

Told == Authority!PointerFollowsHistory /\ PriorsFirst /\ LineageKept
AuthorityInv ==
  /\ Authority!TypeOK /\ Told /\ WritersSound /\ Authority!LeaseHoldsPointer
  /\ \A t \in Turn : Resolving(turn[t], lease[t])

LEMMA AuthorityFields ==
  ASSUME AuthorityConstants, AuthorityInv
  PROVE  /\ history \in Seq(Authority!Events) /\ Len(history) \in Nat
         /\ DOMAIN history = 1..Len(history)
         /\ \A i \in 1..Len(history) : history[i] \in Authority!Events
         /\ pointer \in Authority!Pointers /\ pointer.revision = Len(history)
         /\ tx \in [Writer -> Authority!Transactions \cup {Nil}]
         /\ turn \in [Turn -> Authority!Turns] /\ lease \in [Turn -> Authority!Leases \cup {Nil}]
         /\ clock \in 0..AuthorityTicks /\ MaxRevision \in Nat /\ LeaseTime \in Nat
         /\ AuthorityTicks \in Nat
         /\ pointer.target # Safe =>
              /\ pointer.target \in Activation /\ Len(history) \in 1..MaxRevision
              /\ history[Len(history)].to = pointer.target
         /\ pointer.target = Safe \/ pointer.target \in Activation
<1>1. /\ history \in Seq(Authority!Events) /\ pointer \in Authority!Pointers
      /\ tx \in [Writer -> Authority!Transactions \cup {Nil}]
      /\ turn \in [Turn -> Authority!Turns] /\ lease \in [Turn -> Authority!Leases \cup {Nil}]
      /\ clock \in 0..AuthorityTicks
  BY DEF AuthorityInv, Authority!TypeOK
<1>2. /\ Len(history) \in Nat /\ DOMAIN history = 1..Len(history)
      /\ \A i \in 1..Len(history) : history[i] \in Authority!Events
  BY <1>1, LenProperties
<1>3. /\ pointer.revision = Len(history)
      /\ pointer.target = IF history = << >> THEN Safe ELSE history[Len(history)].to
  BY DEF AuthorityInv, Told, Authority!PointerFollowsHistory
<1>4. MaxRevision \in Nat /\ LeaseTime \in Nat /\ AuthorityTicks \in Nat
  BY DEF AuthorityConstants
<1>5. pointer.target \in Activation \cup {Safe} /\ pointer.revision \in 0..MaxRevision
  BY <1>1 DEF Authority!Pointers
<1>6. history # << >> => Len(history) # 0
  BY <1>1, EmptySeq
<1> QED BY <1>1, <1>2, <1>3, <1>4, <1>5, <1>6

LEMMA ToldStays ==
  ASSUME Told, UNCHANGED <<history, pointer, outbox>> PROVE Told'
<1>1. /\ \A x : Authority!MadeTarget(x)' = Authority!MadeTarget(x)
      /\ \A x : Authority!Related(x)' = Authority!Related(x)
  BY DEF Authority!MadeTarget, Authority!Related
<1>2. \A x : NotRevoked(x)' <=> NotRevoked(x)
  BY <1>1 DEF NotRevoked
<1>3. PriorsFirst' /\ LineageKept'
  BY <1>1, <1>2 DEF Told, PriorsFirst, LineageKept
<1> QED BY <1>3 DEF Told, Authority!PointerFollowsHistory

\* A transaction stays sound while nothing is committed and no lease is taken on
\* what it moves.
LEMMA WritersStay ==
  ASSUME UNCHANGED <<history, pointer>>,
         \A w \in Writer : tx'[w] # Nil => Writing(tx'[w]),
         \A w \in Writer : tx'[w] # Nil /\ tx'[w].moved =>
           ~Authority!LiveLeaseOn(pointer.target)'
  PROVE  \A w \in Writer : tx'[w] # Nil => Writing(tx[w])'
<1> SUFFICES ASSUME NEW w \in Writer, tx'[w] # Nil PROVE Writing(tx[w])'
  OBVIOUS
<1>1. Writing(tx'[w])
  OBVIOUS
<1>2. tx'[w].inserted => Admitted(tx[w].event)' /\ tx'[w].revision = Len(history') + 1
  BY <1>1 DEF Writing, Admitted, Authority!MadeTarget, Authority!MatrixAdmits,
              Authority!DocumentAdmits
<1>3. tx'[w].moved => /\ tx'[w].inserted /\ tx'[w].event.from = pointer'.target
                      /\ ~Authority!LiveLeaseOn(pointer.target)'
  BY <1>1 DEF Writing
<1>4. /\ tx'[w] \in Authority!Transactions
      /\ Authority!MatrixAdmits(tx[w].event)' /\ Authority!DocumentAdmits(tx[w].event)'
  BY <1>1 DEF Writing, Authority!MatrixAdmits, Authority!DocumentAdmits
<1> QED BY <1>2, <1>3, <1>4 DEF Writing, Authority!Transactions, Authority!Events,
                                Authority!EventTypes

\* One writer's transaction changes, and nothing that is committed.
LEMMA WriterMoves ==
  ASSUME AuthorityConstants, AuthorityInv, NEW w \in Writer, NEW x,
         tx' = [tx EXCEPT ![w] = x],
         UNCHANGED <<history, pointer, outbox, trust, turn, lease, clock>>,
         x = Nil \/ Writing(x),
         x # Nil /\ x.inserted => \A v \in Writer : v # w /\ tx[v] # Nil => ~tx[v].inserted
  PROVE  AuthorityInv'
<1>0. /\ tx'[w] = x /\ \A v \in Writer \ {w} : tx'[v] = tx[v]
      /\ tx' \in [Writer -> Authority!Transactions \cup {Nil}]
  BY AuthorityFields DEF Writing
<1>1. Authority!TypeOK'
  BY <1>0 DEF AuthorityInv, Authority!TypeOK
<1>2. Told'
  BY ToldStays DEF AuthorityInv
<1>3. Authority!LiveLeaseOn(pointer.target)' <=> Authority!LiveLeaseOn(pointer.target)
  BY DEF Authority!LiveLeaseOn
<1>4. \A v \in Writer : tx'[v] # Nil => Writing(tx[v])'
  <2>1. \A v \in Writer : tx'[v] # Nil => Writing(tx'[v])
    BY <1>0 DEF AuthorityInv, WritersSound
  <2>2. \A v \in Writer : tx'[v] # Nil /\ tx'[v].moved => ~Authority!LiveLeaseOn(pointer.target)'
    BY <1>3, <2>1 DEF Writing
  <2> QED BY <2>1, <2>2, WritersStay
<1>5. WritersSound'
  BY <1>0, <1>4 DEF AuthorityInv, WritersSound
<1>6. Authority!LeaseHoldsPointer' /\ \A t \in Turn : Resolving(turn'[t], lease'[t])
  BY DEF AuthorityInv, Authority!LeaseHoldsPointer
<1> QED BY <1>1, <1>2, <1>5, <1>6 DEF AuthorityInv

LEMMA WriterPrepares ==
  ASSUME AuthorityConstants, AuthorityInv, NEW w \in Writer, NEW e \in Authority!Events,
         Authority!Prepare(w, e)
  PROVE  AuthorityInv'
<1> DEFINE x == [event |-> e, revision |-> pointer.revision + 1, inserted |-> FALSE,
                 moved |-> FALSE, published |-> FALSE]
<1>1. /\ tx' = [tx EXCEPT ![w] = x] /\ pointer.revision < MaxRevision
      /\ Authority!MatrixAdmits(e) /\ Authority!DocumentAdmits(e)
      /\ UNCHANGED <<history, pointer, outbox, trust, turn, lease, clock>>
  BY DEF Authority!Prepare
<1>2. pointer.revision + 1 \in 1..MaxRevision
  BY <1>1, AuthorityFields
<1>3. Writing(x) /\ ~x.inserted
  BY <1>1, <1>2 DEF Writing, Authority!Transactions
<1> HIDE DEF x
<1> QED BY <1>1, <1>3, WriterMoves

LEMMA WriterSteps ==
  ASSUME AuthorityConstants, AuthorityInv, NEW w \in Writer,
         \/ Authority!InsertHistory(w) \/ Authority!MovePointer(w)
         \/ Authority!Publish(w) \/ Authority!Rollback(w)
  PROVE  AuthorityInv'
<1> DEFINE q == tx[w]
<1>0. /\ UNCHANGED <<history, pointer, outbox, trust, turn, lease, clock>>
      /\ q # Nil /\ Writing(q) /\ q \in Authority!Transactions
  BY DEF Authority!InsertHistory, Authority!MovePointer, Authority!Publish, Authority!Rollback,
         AuthorityInv, WritersSound, Writing
<1>1. CASE Authority!Abort(w)
  <2>1. tx' = [tx EXCEPT ![w] = Nil]
    BY <1>1 DEF Authority!Abort
  <2> QED BY <1>0, <2>1, WriterMoves
<1>2. ASSUME Authority!InsertHistory(w), tx' = [tx EXCEPT ![w].inserted = TRUE],
             Authority!HistoryAdmits(tx[w].event, tx[w].revision)
      PROVE  AuthorityInv'
  <2> DEFINE x == [q EXCEPT !.inserted = TRUE]
  <2>1. tx' = [tx EXCEPT ![w] = x] /\ \A v \in Writer : tx[v] # Nil => ~tx[v].inserted
    BY <1>2, AuthorityFields DEF Authority!InsertHistory
  <2>2. /\ x \in Authority!Transactions /\ x.event = q.event /\ x.revision = q.revision
        /\ x.moved = q.moved
    BY <1>0 DEF Authority!Transactions
  <2>3. Admitted(q.event) /\ q.revision = Len(history) + 1
    BY <1>0, <1>2 DEF Writing, Admitted, Authority!HistoryAdmits, Authority!Transactions
  <2>4. ~q.moved
    BY <1>0, <2>1 DEF Writing
  <2> HIDE DEF x
  <2>5. Writing(x)
    BY <1>0, <2>2, <2>3, <2>4 DEF Writing
  <2> QED BY <1>0, <2>1, <2>5, WriterMoves
<1>3. ASSUME Authority!MovePointer(w), tx' = [tx EXCEPT ![w].moved = TRUE],
             Authority!PointerAdmits(tx[w])
      PROVE  AuthorityInv'
  <2> DEFINE x == [q EXCEPT !.moved = TRUE]
  <2>1. tx' = [tx EXCEPT ![w] = x] /\ q.inserted
    BY <1>3, AuthorityFields DEF Authority!MovePointer
  <2>2. /\ x \in Authority!Transactions /\ x.event = q.event /\ x.revision = q.revision
        /\ x.inserted = q.inserted
    BY <1>0 DEF Authority!Transactions
  <2> HIDE DEF x
  <2>3. Writing(x)
    BY <1>0, <1>3, <2>1, <2>2 DEF Writing, Authority!PointerAdmits
  <2>4. \A v \in Writer : v # w /\ tx[v] # Nil => ~tx[v].inserted
    BY <1>0, <2>1 DEF AuthorityInv, WritersSound
  <2> QED BY <1>0, <2>1, <2>3, <2>4, WriterMoves
<1>4. CASE Authority!Publish(w)
  <2> DEFINE x == [q EXCEPT !.published = TRUE]
  <2>1. tx' = [tx EXCEPT ![w] = x] /\ q.inserted
    BY <1>4, AuthorityFields DEF Authority!Publish
  <2>2. /\ x \in Authority!Transactions /\ x.event = q.event /\ x.revision = q.revision
        /\ x.inserted = q.inserted /\ x.moved = q.moved
    BY <1>0 DEF Authority!Transactions
  <2> HIDE DEF x
  <2>3. Writing(x)
    BY <1>0, <2>2 DEF Writing
  <2>4. \A v \in Writer : v # w /\ tx[v] # Nil => ~tx[v].inserted
    BY <1>0, <2>1 DEF AuthorityInv, WritersSound
  <2> QED BY <1>0, <2>1, <2>3, <2>4, WriterMoves
<1> QED BY <1>1, <1>2, <1>3, <1>4
    DEF Authority!InsertHistory, Authority!MovePointer, Authority!Rollback

\* What an inserted event makes of the history once it is committed.
LEMMA ToldOn ==
  ASSUME AuthorityConstants, AuthorityInv, NEW e, Admitted(e), e.from = pointer.target,
         history' = Append(history, e),
         pointer' = [target |-> e.to, revision |-> Len(history) + 1],
         outbox' = outbox \cup {Len(history) + 1}
  PROVE  Told' /\ history' \in Seq(Authority!Events)
<1> DEFINE n == Len(history) + 1
<1>0. /\ n \in Nat /\ n \in 1..n /\ Len(history') = n /\ DOMAIN history' = 1..n
      /\ history'[n] = e /\ \A i \in 1..Len(history) : history'[i] = history[i]
      /\ 1..n = 1..Len(history) \cup {n} /\ n \notin 1..Len(history)
      /\ history' \in Seq(Authority!Events) /\ e \in Authority!Events
      /\ DOMAIN history = 1..Len(history) /\ Len(history) \in Nat
      /\ \A i \in 1..Len(history) : i < n
  BY AuthorityFields DEF Admitted
<1>1. \A x : /\ Authority!MadeTarget(x)' = Authority!MadeTarget(x) \cup (IF e.to = x THEN {n} ELSE {})
             /\ Authority!Related(x)' = Authority!Related(x)
                                          \cup (IF x \in {e.from, e.to} THEN {n} ELSE {})
             /\ Authority!MadeTarget(x) \subseteq 1..Len(history)
             /\ Authority!Related(x) \subseteq 1..Len(history)
  <2> HIDE DEF n
  <2> QED BY <1>0 DEF Authority!MadeTarget, Authority!Related
<1>2. Authority!PointerFollowsHistory'
  <2>1. /\ pointer.revision = Len(history) /\ outbox = 1..Len(history)
        /\ \A i \in DOMAIN history :
             history[i].from = IF i = 1 THEN Safe ELSE history[i - 1].to
        /\ pointer.target = IF history = << >> THEN Safe ELSE history[Len(history)].to
    BY DEF AuthorityInv, Told, Authority!PointerFollowsHistory
  <2>2. history' # << >>
    BY <1>0, EmptySeq
  <2>3. history = << >> <=> n = 1
    BY <1>0, AuthorityFields, EmptySeq
  <2>4. pointer'.revision = n /\ pointer'.target = e.to
    OBVIOUS
  <2>5. ASSUME NEW i \in 1..n
        PROVE  history'[i].from = IF i = 1 THEN Safe ELSE history'[i - 1].to
    <3>1. CASE i = n
      <4>1. history'[i].from = pointer.target
        BY <1>0, <3>1
      <4>2. i # 1 => i - 1 \in 1..Len(history) /\ i - 1 = Len(history)
        BY <1>0, <3>1
      <4> QED BY <1>0, <2>1, <2>3, <3>1, <4>1, <4>2
    <3>2. CASE i # n
      <4>1. i \in 1..Len(history)
        BY <1>0, <3>2
      <4>2. i # 1 => i - 1 \in 1..Len(history)
        BY <1>0, <4>1
      <4> QED BY <1>0, <2>1, <4>1, <4>2
    <3> QED BY <3>1, <3>2
  <2> HIDE DEF n
  <2>6. outbox' = 1..n
    BY <1>0, <2>1 DEF n
  <2> QED BY <1>0, <2>2, <2>4, <2>5, <2>6 DEF Authority!PointerFollowsHistory
<1>3. /\ e.from \in Activation \cup {Safe} /\ e.to \in Activation \cup {Safe}
      /\ e.type \in {"activated", "superseded", "revoked", "rolled_back"}
  BY <1>0 DEF Authority!Events, Authority!EventTypes
<1>4. PriorsFirst'
  <2> SUFFICES ASSUME NEW x \in Activation, Authority!MadeTarget(x)' # {}
               PROVE  /\ PriorOf[x] # x
                      /\ PriorOf[x] # Nil =>
                           \E i \in Authority!MadeTarget(PriorOf[x])' :
                             \A j \in Authority!MadeTarget(x)' : i < j
    BY DEF PriorsFirst
  <2>1. CASE Authority!MadeTarget(x) # {}
    <3>1. PriorOf[x] # x
      BY <2>1 DEF AuthorityInv, Told, PriorsFirst
    <3>2. ASSUME PriorOf[x] # Nil
          PROVE  \E i \in Authority!MadeTarget(PriorOf[x])' :
                   \A j \in Authority!MadeTarget(x)' : i < j
      <4>1. PICK i \in Authority!MadeTarget(PriorOf[x]) : \A j \in Authority!MadeTarget(x) : i < j
        BY <2>1, <3>2 DEF AuthorityInv, Told, PriorsFirst
      <4>2. i < n /\ i \in Authority!MadeTarget(PriorOf[x])'
        BY <1>0, <1>1
      <4> HIDE DEF n
      <4> QED BY <1>1, <4>1, <4>2
    <3> QED BY <3>1, <3>2
  <2>2. CASE Authority!MadeTarget(x) = {}
    <3>1. e.to = x /\ Authority!MadeTarget(x)' = {n}
      BY <1>1, <2>2
    <3>2. e.type \in {"activated", "superseded"}
      BY <1>3, <2>2, <3>1 DEF Admitted, Authority!MatrixAdmits, AuthorityConstants
    <3>3. CASE e.type = "activated"
      <4>1. PriorOf[x] = Nil
        BY <3>1, <3>3 DEF Admitted
      <4> QED BY <4>1 DEF AuthorityConstants
    <3>4. CASE e.type = "superseded"
      <4>1. PriorOf[x] = pointer.target /\ pointer.target # Safe /\ pointer.target # x
        BY <3>1, <3>4 DEF Admitted, Authority!MatrixAdmits, Authority!DocumentAdmits
      <4>2. Len(history) \in 1..Len(history) /\ history[Len(history)].to = PriorOf[x]
        BY <1>0, <4>1, AuthorityFields
      <4>3. Len(history) \in Authority!MadeTarget(PriorOf[x])
        BY <1>0, <4>2 DEF Authority!MadeTarget
      <4>4. Len(history) \in Authority!MadeTarget(PriorOf[x])' /\ Len(history) < n
        BY <1>0, <1>1, <4>3
      <4> HIDE DEF n
      <4> QED BY <3>1, <4>1, <4>4
    <3> QED BY <3>2, <3>3, <3>4
  <2> QED BY <2>1, <2>2
<1>5. ASSUME NEW x, NotRevoked(x), x # e.from, x # e.to PROVE NotRevoked(x)'
  <2>1. Authority!Related(x)' = Authority!Related(x) /\ Authority!Related(x) \subseteq 1..Len(history)
    BY <1>1, <1>5
  <2> QED BY <1>0, <1>5, <2>1 DEF NotRevoked
<1>6. ASSUME e.type # "revoked", NEW x \in {e.from, e.to} PROVE NotRevoked(x)'
  <2>1. n \in Authority!Related(x)' /\ history'[n].type # "revoked"
    BY <1>0, <1>1, <1>6
  <2>2. \A j \in Authority!Related(x)' : j <= n
    BY <1>0, <1>1
  <2> HIDE DEF n
  <2> QED BY <2>1, <2>2 DEF NotRevoked
<1>7. LineageKept'
  <2> SUFFICES ASSUME e.to # Safe, NEW x \in Lineage(e.to) \ {e.to} PROVE NotRevoked(x)'
    BY DEF LineageKept, Lineage, Within
  <2>0. e.to \in Activation
    BY <1>3
  <2>1. e.type \in {"activated", "superseded", "rolled_back"}
    BY <1>3 DEF Admitted, Authority!MatrixAdmits
  <2>2. CASE e.type = "activated"
    <3>1. PriorOf[e.to] = Nil
      BY <2>2 DEF Admitted
    <3> QED BY <2>0, <3>1, LineageOf
  <2>3. CASE e.type \in {"superseded", "rolled_back"}
    <3>1. pointer.target \in Activation /\ pointer.target # Safe
      BY <1>3, <2>3 DEF Admitted, Authority!MatrixAdmits
    <3>2. x \in Lineage(pointer.target) \cup {pointer.target}
      <4>1. CASE e.type = "superseded"
        <5>1. PriorOf[e.to] = pointer.target /\ PriorOf[e.to] # Nil
          BY <3>1, <4>1 DEF Admitted, Authority!DocumentAdmits, AuthorityConstants
        <5>2. Lineage(e.to) \subseteq {e.to} \cup Lineage(pointer.target)
          BY <2>0, <5>1, LineageOf
        <5> QED BY <5>2
      <4>2. CASE e.type = "rolled_back"
        <5>1. PriorOf[pointer.target] = e.to /\ PriorOf[pointer.target] # Nil
          BY <2>0, <4>2 DEF Admitted, AuthorityConstants
        <5>2. Lineage(e.to) \subseteq Lineage(pointer.target)
          BY <3>1, <5>1, LineageOf
        <5> QED BY <5>2
      <4> QED BY <2>3, <4>1, <4>2
    <3>3. CASE x = pointer.target
      BY <1>6, <2>3, <3>3
    <3>4. CASE x # pointer.target
      <4>1. NotRevoked(x)
        BY <3>1, <3>2, <3>4 DEF AuthorityInv, Told, LineageKept
      <4> QED BY <1>5, <3>4, <4>1
    <3> QED BY <3>3, <3>4
  <2> QED BY <2>1, <2>2, <2>3
<1> QED BY <1>0, <1>2, <1>4, <1>7 DEF Told

LEMMA WriterCommits ==
  ASSUME AuthorityConstants, AuthorityInv, NEW w \in Writer, Authority!Commit(w)
  PROVE  AuthorityInv'
<1> DEFINE q == tx[w]
<1>0. /\ q # Nil /\ q.inserted /\ Writing(q) /\ tx' = [tx EXCEPT ![w] = Nil]
      /\ UNCHANGED <<trust, turn, lease, clock>>
      /\ \A v \in Writer : v # w /\ tx[v] # Nil => ~tx[v].inserted
  BY DEF Authority!Commit, Authority!Abort, AuthorityInv, WritersSound
<1>1. CASE ~Authority!CommitAdmits(q)
  <2>1. UNCHANGED <<history, pointer, outbox>>
    BY <1>1 DEF Authority!Commit
  <2> QED BY <1>0, <2>1, WriterMoves
<1>2. CASE Authority!CommitAdmits(q)
  <2>1. q.moved /\ q.published
    BY <1>2 DEF Authority!CommitAdmits
  <2>2. /\ Admitted(q.event) /\ q.revision = Len(history) + 1 /\ q \in Authority!Transactions
        /\ q.event.from = pointer.target /\ ~Authority!LiveLeaseOn(pointer.target)
    BY <1>0, <2>1 DEF Writing
  <2>3. /\ history' = Append(history, q.event)
        /\ pointer' = [target |-> q.event.to, revision |-> q.revision]
        /\ outbox' = outbox \cup {q.revision}
    BY <1>2, <2>1 DEF Authority!Commit
  <2>4. Told' /\ history' \in Seq(Authority!Events)
    BY <2>2, <2>3, ToldOn
  <2>5. /\ tx'[w] = Nil /\ \A v \in Writer \ {w} : tx'[v] = tx[v]
        /\ tx' \in [Writer -> Authority!Transactions \cup {Nil}]
    BY <1>0, AuthorityFields
  <2>6. Authority!TypeOK'
    <3>1. q.revision \in 1..MaxRevision /\ q.event.to \in Activation \cup {Safe}
      BY <2>2 DEF Authority!Transactions, Authority!Events
    <3>2. pointer' \in Authority!Pointers
      BY <2>3, <3>1, AuthorityFields DEF Authority!Pointers
    <3>3. outbox' \subseteq 1..MaxRevision
      BY <2>3, <3>1 DEF AuthorityInv, Authority!TypeOK
    <3> QED BY <1>0, <2>4, <2>5, <3>2, <3>3 DEF AuthorityInv, Authority!TypeOK
  <2>7. WritersSound'
    <3>1. \A v \in Writer : tx'[v] # Nil => Writing(tx'[v]) /\ ~tx'[v].inserted /\ ~tx'[v].moved
      BY <1>0, <2>5 DEF AuthorityInv, WritersSound, Writing
    <3>2. \A v \in Writer : tx'[v] # Nil => Writing(tx[v])'
      BY <3>1 DEF Writing, Authority!Transactions, Authority!Events, Authority!EventTypes,
                  Authority!MatrixAdmits, Authority!DocumentAdmits
    <3> QED BY <3>1, <3>2 DEF WritersSound
  <2>8. \A t \in Turn : ~(lease[t] # Nil /\ lease[t].expires > clock)
    <3> SUFFICES ASSUME NEW t \in Turn, lease[t] # Nil, lease[t].expires > clock PROVE FALSE
      OBVIOUS
    <3>1. pointer = [target |-> lease[t].activation, revision |-> lease[t].revision]
      BY DEF AuthorityInv, Authority!LeaseHoldsPointer
    <3>2. pointer.target = lease[t].activation
      BY <3>1
    <3> QED BY <2>2, <3>2 DEF Authority!LiveLeaseOn
  <2>9. Authority!LeaseHoldsPointer'
    BY <1>0, <2>8 DEF Authority!LeaseHoldsPointer
  <2>10. \A t \in Turn : Resolving(turn[t], lease[t])'
    BY <1>0 DEF AuthorityInv, Resolving, Authority!Turns, Authority!Phases, Authority!Pointers,
                Authority!Leases
  <2> QED BY <2>4, <2>6, <2>7, <2>9, <2>10 DEF AuthorityInv
<1> QED BY <1>1, <1>2

\* A turn goes on; nothing else changes.
LEMMA TurnMoves ==
  ASSUME AuthorityConstants, AuthorityInv, NEW t \in Turn, NEW x,
         turn' = [turn EXCEPT ![t] = x], Resolving(x, lease[t]),
         UNCHANGED <<history, pointer, outbox, tx, trust, lease, clock>>
  PROVE  AuthorityInv'
<1>0. turn'[t] = x /\ \A s \in Turn \ {t} : turn'[s] = turn[s]
  BY AuthorityFields
<1>1. Authority!TypeOK'
  BY DEF AuthorityInv, Authority!TypeOK, Resolving
<1>2. Told'
  BY ToldStays DEF AuthorityInv
<1>3. Authority!LiveLeaseOn(pointer.target)' <=> Authority!LiveLeaseOn(pointer.target)
  BY DEF Authority!LiveLeaseOn
<1>4. WritersSound'
  <2>1. \A v \in Writer : tx'[v] # Nil => Writing(tx'[v])
    BY DEF AuthorityInv, WritersSound
  <2>2. \A v \in Writer : tx'[v] # Nil /\ tx'[v].moved => ~Authority!LiveLeaseOn(pointer.target)'
    BY <1>3, <2>1 DEF Writing
  <2>3. \A v \in Writer : tx'[v] # Nil => Writing(tx[v])'
    BY <2>1, <2>2, WritersStay
  <2> QED BY <2>3 DEF AuthorityInv, WritersSound
<1>5. Authority!LeaseHoldsPointer'
  BY DEF AuthorityInv, Authority!LeaseHoldsPointer
<1>6. \A s \in Turn : Resolving(turn'[s], lease'[s])
  BY <1>0 DEF AuthorityInv
<1>7. \A s \in Turn : Resolving(turn[s], lease[s])'
  BY <1>6 DEF Resolving, Authority!Turns, Authority!Phases, Authority!Pointers, Authority!Leases
<1> QED BY <1>1, <1>2, <1>4, <1>5, <1>7 DEF AuthorityInv

LEMMA TurnSteps ==
  ASSUME AuthorityConstants, AuthorityInv, NEW t \in Turn,
         \/ Authority!ReadPointer(t) \/ Authority!Snapshot(t) \/ Authority!AssertPointerFresh(t)
         \/ Authority!AssertTrustFresh(t) \/ Authority!Resolved(t) \/ Authority!AssertCurrent(t)
         \/ Authority!Answer(t) \/ (\E a \in Activation : Authority!Verify(t, a))
  PROVE  AuthorityInv'
<1> DEFINE r == turn[t]
<1>0. /\ UNCHANGED <<history, pointer, outbox, tx, trust, lease, clock>>
      /\ r \in Authority!Turns /\ Resolving(r, lease[t])
  BY DEF Authority!ReadPointer, Authority!Snapshot, Authority!AssertPointerFresh,
         Authority!AssertTrustFresh, Authority!Resolved, Authority!AssertCurrent,
         Authority!Answer, Authority!Verify, AuthorityInv, Resolving
<1>1. ASSUME NEW p \in {"failed", "answered", "verified", "fresh"},
             turn' = [turn EXCEPT ![t].phase = p],
             p \in {"verified", "fresh"} => r.phase \in {"snapshot", "verified"}
      PROVE  AuthorityInv'
  <2> DEFINE x == [r EXCEPT !.phase = p]
  <2>1. turn' = [turn EXCEPT ![t] = x]
    BY <1>1, AuthorityFields
  <2>2. x \in Authority!Turns /\ x.phase = p /\ x.seen = r.seen
    BY <1>0 DEF Authority!Turns, Authority!Phases
  <2> HIDE DEF x
  <2>3. Resolving(x, lease[t])
    BY <1>0, <1>1, <2>2 DEF Resolving
  <2> QED BY <1>0, <2>1, <2>3, TurnMoves
<1>2. CASE Authority!Fail(t)
  BY <1>1, <1>2 DEF Authority!Fail
<1>3. ASSUME Authority!ReadPointer(t), pointer.target # Safe,
             turn' = [turn EXCEPT
               ![t].pass = IF turn[t].phase = "idle" THEN 1 ELSE 2,
               ![t].phase = "pointer", ![t].seen = pointer, ![t].snap = Nil, ![t].receipts = {}]
      PROVE  AuthorityInv'
  <2> DEFINE n == IF turn[t].phase = "idle" THEN 1 ELSE 2
             x == [r EXCEPT !.pass = n, !.phase = "pointer", !.seen = pointer, !.snap = Nil,
                            !.receipts = {}]
  <2>1. turn' = [turn EXCEPT ![t] = x]
    BY <1>3, AuthorityFields
  <2>2. n \in 1..2
    OBVIOUS
  <2> HIDE DEF n
  <2>3. /\ x = [phase |-> "pointer", pass |-> n, seen |-> pointer, snap |-> Nil,
                receipts |-> {}, release |-> r.release]
    <3>1. x = [r EXCEPT !.pass = n, !.phase = "pointer", !.seen = pointer, !.snap = Nil,
                        !.receipts = {}]
      OBVIOUS
    <3>2. r \in Authority!Turns
      BY <1>0
    <3> HIDE DEF x
    <3> QED BY <3>1, <3>2 DEF Authority!Turns
  <2> HIDE DEF x
  <2>4. x \in Authority!Turns /\ x.phase = "pointer" /\ x.seen = pointer
    BY <1>0, <2>2, <2>3, AuthorityFields DEF Authority!Turns, Authority!Phases
  <2>5. pointer.target \in Activation /\ pointer.revision \in 1..MaxRevision
    BY <1>3, AuthorityFields
  <2>6. Resolving(x, lease[t])
    BY <2>4, <2>5, AuthorityFields DEF Resolving
  <2> QED BY <1>0, <2>1, <2>6, TurnMoves
<1>4. ASSUME Authority!Snapshot(t),
             turn' = [turn EXCEPT ![t].phase = "snapshot", ![t].snap = pointer]
      PROVE  AuthorityInv'
  <2> DEFINE x == [r EXCEPT !.phase = "snapshot", !.snap = pointer]
  <2>1. turn' = [turn EXCEPT ![t] = x] /\ r.phase = "pointer"
    BY <1>4, AuthorityFields DEF Authority!Snapshot
  <2>2. x \in Authority!Turns /\ x.phase = "snapshot" /\ x.seen = r.seen
    BY <1>0, AuthorityFields DEF Authority!Turns, Authority!Phases
  <2> HIDE DEF x
  <2>3. Resolving(x, lease[t])
    BY <1>0, <2>1, <2>2 DEF Resolving
  <2> QED BY <1>0, <2>1, <2>3, TurnMoves
<1>5. ASSUME NEW a \in Activation, Authority!Verify(t, a),
             turn' = [turn EXCEPT ![t].receipts = @ \cup {a}]
      PROVE  AuthorityInv'
  <2> DEFINE k == r.receipts \cup {a}
             x == [r EXCEPT !.receipts = k]
  <2>1. turn' = [turn EXCEPT ![t] = x] /\ r.phase = "snapshot"
    BY <1>5, AuthorityFields DEF Authority!Verify
  <2>2. k \subseteq Activation
    BY <1>0 DEF Authority!Turns
  <2> HIDE DEF k
  <2>3. x \in Authority!Turns /\ x.phase = "snapshot" /\ x.seen = r.seen
    BY <1>0, <2>1, <2>2 DEF Authority!Turns
  <2> HIDE DEF x
  <2>4. Resolving(x, lease[t])
    BY <1>0, <2>1, <2>3 DEF Resolving
  <2> QED BY <1>0, <2>1, <2>4, TurnMoves
<1>6. CASE Authority!Resolved(t)
  <2> DEFINE x == [r EXCEPT !.phase = "running", !.release = r.seen]
  <2>1. turn' = [turn EXCEPT ![t] = x]
    BY <1>6, AuthorityFields DEF Authority!Resolved
  <2>2. x \in Authority!Turns /\ x.phase = "running"
    BY <1>0 DEF Authority!Turns, Authority!Phases
  <2> HIDE DEF x
  <2>3. Resolving(x, lease[t])
    BY <2>2 DEF Resolving
  <2> QED BY <1>0, <2>1, <2>3, TurnMoves
<1>7. ASSUME Authority!AssertCurrent(t), r.seen = r.release,
             turn' = [turn EXCEPT ![t].phase = "checked"]
      PROVE  AuthorityInv'
  <2> DEFINE x == [r EXCEPT !.phase = "checked"]
  <2>1. turn' = [turn EXCEPT ![t] = x] /\ r.phase = "fresh"
    BY <1>7, AuthorityFields DEF Authority!AssertCurrent
  <2>2. x \in Authority!Turns /\ x.phase = "checked" /\ x.seen = r.seen /\ x.release = r.release
    BY <1>0 DEF Authority!Turns, Authority!Phases
  <2> HIDE DEF x
  <2>3. Resolving(x, lease[t])
    BY <1>0, <1>7, <2>1, <2>2 DEF Resolving
  <2> QED BY <1>0, <2>1, <2>3, TurnMoves
<1>8. CASE Authority!ReadPointer(t)
  BY <1>2, <1>3, <1>8 DEF Authority!ReadPointer
<1>9. CASE Authority!Snapshot(t)
  BY <1>2, <1>4, <1>9 DEF Authority!Snapshot
<1>10. CASE Authority!AssertPointerFresh(t)
  BY <1>1, <1>2, <1>10 DEF Authority!AssertPointerFresh
<1>11. CASE Authority!AssertTrustFresh(t)
  BY <1>1, <1>2, <1>11 DEF Authority!AssertTrustFresh
<1>12. CASE Authority!AssertCurrent(t)
  BY <1>2, <1>7, <1>12 DEF Authority!AssertCurrent
<1>13. CASE Authority!Answer(t)
  BY <1>1, <1>2, <1>13 DEF Authority!Answer
<1>14. ASSUME NEW a \in Activation, Authority!Verify(t, a) PROVE AuthorityInv'
  BY <1>2, <1>5, <1>14 DEF Authority!Verify
<1> QED BY <1>6, <1>8, <1>9, <1>10, <1>11, <1>12, <1>13, <1>14

LEMMA LeaseIssued ==
  ASSUME AuthorityConstants, AuthorityInv, NEW t \in Turn, Authority!IssueLease(t)
  PROVE  AuthorityInv'
<1> DEFINE r == turn[t]
<1>0. /\ UNCHANGED <<history, pointer, outbox, tx, trust, clock>>
      /\ r \in Authority!Turns /\ Resolving(r, lease[t]) /\ r.phase = "checked"
      /\ \A w \in Writer : tx[w] # Nil => ~tx[w].moved
  BY DEF Authority!IssueLease, AuthorityInv, Resolving
<1>1. CASE pointer # r.release
  <2> DEFINE x == [r EXCEPT !.phase = "failed"]
  <2>1. turn' = [turn EXCEPT ![t] = x] /\ UNCHANGED lease
    BY <1>1, AuthorityFields DEF Authority!IssueLease, Authority!Fail
  <2>2. x \in Authority!Turns /\ x.phase = "failed"
    BY <1>0 DEF Authority!Turns, Authority!Phases
  <2> HIDE DEF x
  <2>3. Resolving(x, lease[t])
    BY <2>2 DEF Resolving
  <2> QED BY <1>0, <2>1, <2>3, TurnMoves
<1>2. CASE pointer = r.release
  <2> DEFINE x == [r EXCEPT !.phase = "leased"]
             end == clock + LeaseTime
             l == [activation |-> pointer.target, revision |-> pointer.revision, expires |-> end]
  <2>1. turn' = [turn EXCEPT ![t] = x] /\ lease' = [lease EXCEPT ![t] = l]
    BY <1>2, AuthorityFields DEF Authority!IssueLease
  <2>2. x \in Authority!Turns /\ x.phase = "leased" /\ x.release = r.release
    BY <1>0 DEF Authority!Turns, Authority!Phases
  <2>3. end \in 0..AuthorityTicks + LeaseTime
    BY AuthorityFields
  <2> HIDE DEF x, end
  <2>4. pointer.target \in Activation /\ pointer.revision \in 1..MaxRevision
    BY <1>0, <1>2 DEF Resolving
  <2>5. /\ l \in Authority!Leases /\ l # Nil
        /\ l.activation = pointer.target /\ l.revision = pointer.revision
    BY <2>3, <2>4 DEF Authority!Leases, AuthorityConstants
  <2>6. pointer = [target |-> l.activation, revision |-> l.revision]
    BY <2>5, AuthorityFields DEF Authority!Pointers
  <2> HIDE DEF l
  <2>7. Resolving(x, l)
    BY <1>2, <2>2, <2>5, <2>6 DEF Resolving
  <2>8. /\ turn'[t] = x /\ lease'[t] = l
        /\ \A s \in Turn \ {t} : turn'[s] = turn[s] /\ lease'[s] = lease[s]
        /\ turn' \in [Turn -> Authority!Turns]
        /\ lease' \in [Turn -> Authority!Leases \cup {Nil}]
    BY <2>1, <2>2, <2>5, AuthorityFields
  <2>9. Authority!TypeOK'
    BY <1>0, <2>8 DEF AuthorityInv, Authority!TypeOK
  <2>10. Told'
    BY <1>0, ToldStays DEF AuthorityInv
  <2>11. WritersSound'
    <3>1. \A v \in Writer : tx'[v] # Nil => Writing(tx'[v]) /\ ~tx'[v].moved
      BY <1>0 DEF AuthorityInv, WritersSound
    <3>2. \A v \in Writer : tx'[v] # Nil => Writing(tx[v])'
      BY <1>0, <3>1, WritersStay
    <3> QED BY <1>0, <3>2 DEF AuthorityInv, WritersSound
  <2>12. Authority!LeaseHoldsPointer'
    BY <1>0, <2>6, <2>8 DEF AuthorityInv, Authority!LeaseHoldsPointer
  <2>13. \A s \in Turn : Resolving(turn'[s], lease'[s])
    BY <2>7, <2>8 DEF AuthorityInv
  <2>14. \A s \in Turn : Resolving(turn[s], lease[s])'
    BY <2>13 DEF Resolving, Authority!Turns, Authority!Phases, Authority!Pointers,
                 Authority!Leases
  <2> QED BY <2>9, <2>10, <2>11, <2>12, <2>14 DEF AuthorityInv
<1> QED BY <1>1, <1>2

\* Time passes, or an artifact is revoked: leases only lapse.
LEMMA AuthorityAges ==
  ASSUME AuthorityConstants, AuthorityInv,
         UNCHANGED <<history, pointer, outbox, tx, turn, lease>>,
         trust' \subseteq trust, clock' \in 0..AuthorityTicks, clock <= clock'
  PROVE  AuthorityInv'
<1>1. \A t \in Turn : lease[t] # Nil /\ lease[t].expires > clock' => lease[t].expires > clock
  BY AuthorityFields DEF Authority!Leases
<1>2. Authority!TypeOK'
  BY DEF AuthorityInv, Authority!TypeOK
<1>3. Told'
  BY ToldStays DEF AuthorityInv
<1>4. ~Authority!LiveLeaseOn(pointer.target) => ~Authority!LiveLeaseOn(pointer.target)'
  BY <1>1 DEF Authority!LiveLeaseOn
<1>5. WritersSound'
  <2>1. \A v \in Writer : tx'[v] # Nil => Writing(tx'[v])
    BY DEF AuthorityInv, WritersSound
  <2>2. \A v \in Writer : tx'[v] # Nil /\ tx'[v].moved => ~Authority!LiveLeaseOn(pointer.target)'
    BY <1>4, <2>1 DEF Writing
  <2>3. \A v \in Writer : tx'[v] # Nil => Writing(tx[v])'
    BY <2>1, <2>2, WritersStay
  <2> QED BY <2>3 DEF AuthorityInv, WritersSound
<1>6. Authority!LeaseHoldsPointer'
  BY <1>1 DEF AuthorityInv, Authority!LeaseHoldsPointer
<1>7. \A s \in Turn : Resolving(turn[s], lease[s])'
  BY DEF AuthorityInv, Resolving, Authority!Turns, Authority!Phases, Authority!Pointers,
         Authority!Leases
<1> QED BY <1>2, <1>3, <1>5, <1>6, <1>7 DEF AuthorityInv

LEMMA AuthorityBegins == ASSUME AuthorityConstants, Authority!Init PROVE AuthorityInv
<1>0. /\ history = << >> /\ pointer = [target |-> Safe, revision |-> 0] /\ outbox = {}
      /\ trust = Activation /\ clock = 0
      /\ \A w \in Writer : tx[w] = Nil
      /\ \A t \in Turn : turn[t] = Authority!NewTurn /\ lease[t] = Nil
      /\ tx = [w \in Writer |-> Nil] /\ lease = [t \in Turn |-> Nil]
      /\ turn = [t \in Turn |-> Authority!NewTurn]
  BY DEF Authority!Init
<1>1. Len(history) = 0 /\ DOMAIN history = {} /\ history \in Seq(Authority!Events)
  BY <1>0
<1>2. Authority!NewTurn \in Authority!Turns /\ Authority!NewTurn.phase = "idle"
  BY DEF Authority!NewTurn, Authority!Turns, Authority!Phases
<1>3. pointer \in Authority!Pointers /\ clock \in 0..AuthorityTicks
  BY <1>0 DEF Authority!Pointers, AuthorityConstants
<1>4. Authority!TypeOK
  BY <1>0, <1>1, <1>2, <1>3 DEF Authority!TypeOK
<1>5. Told
  <2>1. Authority!PointerFollowsHistory
    BY <1>0, <1>1 DEF Authority!PointerFollowsHistory
  <2>2. \A x : Authority!MadeTarget(x) = {}
    BY <1>1 DEF Authority!MadeTarget
  <2>3. PriorsFirst /\ LineageKept
    BY <1>0, <2>2 DEF PriorsFirst, LineageKept
  <2> QED BY <2>1, <2>3 DEF Told
<1>6. WritersSound /\ Authority!LeaseHoldsPointer
  BY <1>0 DEF WritersSound, Authority!LeaseHoldsPointer
<1>7. \A t \in Turn : Resolving(turn[t], lease[t])
  BY <1>0, <1>2 DEF Resolving
<1> QED BY <1>4, <1>5, <1>6, <1>7 DEF AuthorityInv

LEMMA AuthorityStep ==
  ASSUME AuthorityConstants, AuthorityInv, [Authority!Next]_(Authority!vars) PROVE AuthorityInv'
<1>1. CASE UNCHANGED Authority!vars
  BY <1>1, AuthorityAges, AuthorityFields DEF Authority!vars
<1>2. ASSUME NEW w \in Writer, NEW e \in Authority!Events, Authority!Prepare(w, e)
      PROVE  AuthorityInv'
  BY <1>2, WriterPrepares
<1>3. ASSUME NEW w \in Writer,
             \/ Authority!InsertHistory(w) \/ Authority!MovePointer(w) \/ Authority!Publish(w)
             \/ Authority!Commit(w) \/ Authority!Rollback(w)
      PROVE  AuthorityInv'
  BY <1>3, WriterSteps, WriterCommits
<1>4. ASSUME NEW a \in Activation, Authority!RevokeTrust(a) PROVE AuthorityInv'
  <2>1. /\ UNCHANGED <<history, pointer, outbox, tx, turn, lease>>
        /\ trust' \subseteq trust /\ clock' = clock
    BY <1>4 DEF Authority!RevokeTrust
  <2> QED BY <2>1, AuthorityAges, AuthorityFields
<1>5. ASSUME NEW t \in Turn,
             \/ Authority!ReadPointer(t) \/ Authority!Snapshot(t)
             \/ Authority!AssertPointerFresh(t) \/ Authority!AssertTrustFresh(t)
             \/ Authority!Resolved(t) \/ Authority!AssertCurrent(t)
             \/ Authority!IssueLease(t) \/ Authority!Answer(t)
      PROVE  AuthorityInv'
  BY <1>5, TurnSteps, LeaseIssued
<1>6. ASSUME NEW t \in Turn, NEW a \in Activation, Authority!Verify(t, a) PROVE AuthorityInv'
  BY <1>6, TurnSteps
<1>7. CASE Authority!Tick
  <2>1. /\ UNCHANGED <<history, pointer, outbox, tx, turn, lease>> /\ trust' = trust
        /\ clock < AuthorityTicks /\ clock' = clock + 1
    BY <1>7 DEF Authority!Tick
  <2>2. clock' \in 0..AuthorityTicks /\ clock <= clock'
    BY <2>1, AuthorityFields
  <2> QED BY <2>1, <2>2, AuthorityAges
<1> QED BY <1>1, <1>2, <1>3, <1>4, <1>5, <1>6, <1>7 DEF Authority!Next

\* Whatever writers race and turns resolve, the committed rows tell one story.
THEOREM AuthorityInvariance ==
  ASSUME AuthorityConstants PROVE Authority!Spec => []AuthorityInv
<1>1. Authority!Init => AuthorityInv
  BY AuthorityBegins
<1>2. AuthorityInv /\ [Authority!Next]_(Authority!vars) => AuthorityInv'
  BY AuthorityStep
<1> QED BY <1>1, <1>2, PTL DEF Authority!Spec

LEMMA PriorWasFirst ==
  ASSUME AuthorityConstants, AuthorityInv, pointer.target # Safe
  PROVE  Authority!RollbackReady(pointer.target)
<1> DEFINE t == pointer.target
           p == PriorOf[t]
<1>0. /\ t \in Activation /\ Len(history) \in Nat \ {0} /\ history[Len(history)].to = t
      /\ DOMAIN history = 1..Len(history)
  BY AuthorityFields
<1>1. SUFFICES ASSUME p # Nil
               PROVE  /\ Authority!StateOf(p) = "superseded"
                      /\ \E i \in Authority!MadeTarget(p) :
                           i < Authority!FirstOf(Authority!MadeTarget(t))
  BY DEF Authority!RollbackReady
<1>2. Len(history) \in Authority!MadeTarget(t) /\ Authority!MadeTarget(t) \subseteq Nat
  BY <1>0 DEF Authority!MadeTarget
<1>3. /\ p # t
      /\ \E i \in Authority!MadeTarget(p) : \A j \in Authority!MadeTarget(t) : i < j
  BY <1>0, <1>1, <1>2 DEF AuthorityInv, Told, PriorsFirst
<1>4. Authority!FirstOf(Authority!MadeTarget(t)) \in Authority!MadeTarget(t)
  <2> DEFINE S == Authority!MadeTarget(t)
  <2>1. \E i \in S : \A j \in S : i <= j
    <3>1. S # {} /\ S \subseteq Nat
      BY <1>2
    <3> HIDE DEF S
    <3> QED BY <3>1, LeastExists
  <2> HIDE DEF S
  <2>2. Authority!FirstOf(S) \in S
    BY <2>1 DEF Authority!FirstOf
  <2> QED BY <2>2 DEF S
<1>5. p \in Lineage(t) \ {t}
  BY <1>0, <1>1, <1>3, LineageOf
<1>6. PICK i \in Authority!Related(p) :
        history[i].type # "revoked" /\ \A j \in Authority!Related(p) : j <= i
  BY <1>0, <1>5 DEF AuthorityInv, Told, LineageKept, NotRevoked
<1>7. Authority!LastOf(Authority!Related(p)) = i
  <2> DEFINE S == Authority!Related(p)
  <2>1. \A k \in S : k \in Nat
    BY <1>0 DEF Authority!Related
  <2>2. \A k \in S : (\A j \in S : j <= k) => k = i
    BY <1>6, <2>1
  <2> HIDE DEF S
  <2>3. i \in S /\ \A j \in S : j <= i
    BY <1>6 DEF S
  <2>4. Authority!LastOf(S) = i
    BY <2>2, <2>3 DEF Authority!LastOf
  <2> QED BY <2>4 DEF S
<1>8. Authority!StateOf(p) = "superseded"
  BY <1>3, <1>6, <1>7 DEF Authority!StateOf
<1> QED BY <1>3, <1>4, <1>8

LEMMA AuthorityKeepsPromises ==
  ASSUME AuthorityConstants
  PROVE  AuthorityInv => /\ Authority!TypeOK /\ Authority!PointerFollowsHistory
                         /\ Authority!LeaseHoldsPointer /\ Authority!RollbackAlwaysReady
BY PriorWasFirst DEF AuthorityInv, Told, Authority!RollbackAlwaysReady

LEMMA AnswersUnderLease ==
  ASSUME AuthorityConstants, AuthorityInv, [Authority!Next]_(Authority!vars),
         NEW t \in Turn, turn[t].phase # "answered", turn'[t].phase = "answered"
  PROVE  pointer = turn[t].release
<1>0. /\ turn \in [Turn -> Authority!Turns]
      /\ \A s \in Turn : turn[s] \in Authority!Turns /\ Resolving(turn[s], lease[s])
  BY DEF AuthorityInv, Authority!TypeOK, Resolving
<1>1. CASE Authority!Answer(t)
  <2>1. turn[t].phase = "leased" /\ clock < lease[t].expires
    <3>1. turn[t].phase = "leased"
      BY <1>1 DEF Authority!Answer
    <3>2. ~(clock < lease[t].expires) => turn'[t].phase = "failed"
      BY <1>0, <1>1 DEF Authority!Answer, Authority!Fail, Authority!Turns
    <3> QED BY <3>1, <3>2
  <2>2. lease[t] \in Authority!Leases
        /\ turn[t].release = [target |-> lease[t].activation, revision |-> lease[t].revision]
    BY <1>0, <2>1 DEF Resolving
  <2>3. lease[t] # Nil /\ lease[t].expires > clock
    BY <2>1, <2>2, AuthorityFields DEF AuthorityConstants, Authority!Leases
  <2> QED BY <2>2, <2>3 DEF AuthorityInv, Authority!LeaseHoldsPointer
<1>2. ASSUME NEW s \in Turn, Authority!Answer(s) PROVE s = t
  BY <1>0, <1>2 DEF Authority!Answer, Authority!Fail
<1>3. ASSUME NEW s \in Turn,
             \/ Authority!ReadPointer(s) \/ Authority!Snapshot(s)
             \/ Authority!AssertPointerFresh(s) \/ Authority!AssertTrustFresh(s)
             \/ Authority!Resolved(s) \/ Authority!AssertCurrent(s)
             \/ Authority!IssueLease(s) \/ (\E a \in Activation : Authority!Verify(s, a))
      PROVE  FALSE
  <2>1. \A x \in Turn \ {s} : turn'[x] = turn[x]
    BY <1>0, <1>3 DEF Authority!ReadPointer, Authority!Snapshot, Authority!AssertPointerFresh,
       Authority!AssertTrustFresh, Authority!Resolved, Authority!AssertCurrent,
       Authority!IssueLease, Authority!Verify, Authority!Fail
  <2>2. turn'[s].phase # "answered" \/ turn'[s].phase = turn[s].phase
    BY <1>0, <1>3 DEF Authority!ReadPointer, Authority!Snapshot, Authority!AssertPointerFresh,
       Authority!AssertTrustFresh, Authority!Resolved, Authority!AssertCurrent,
       Authority!IssueLease, Authority!Verify, Authority!Fail, Authority!Turns
  <2> QED BY <2>1, <2>2
<1>4. CASE UNCHANGED turn
  BY <1>4
<1>5. ASSUME NEW w \in Writer,
             \/ Authority!InsertHistory(w) \/ Authority!MovePointer(w) \/ Authority!Publish(w)
             \/ Authority!Commit(w) \/ Authority!Rollback(w)
      PROVE  UNCHANGED turn
  BY <1>5 DEF Authority!InsertHistory, Authority!MovePointer, Authority!Publish,
              Authority!Commit, Authority!Rollback
<1>6. (\E w \in Writer, e \in Authority!Events : Authority!Prepare(w, e))
      \/ (\E a \in Activation : Authority!RevokeTrust(a)) \/ Authority!Tick
      \/ UNCHANGED Authority!vars => UNCHANGED turn
  BY DEF Authority!Prepare, Authority!RevokeTrust, Authority!Tick, Authority!vars
<1> QED BY <1>1, <1>2, <1>3, <1>4, <1>5, <1>6 DEF Authority!Next

\* An answered turn is answered under the release the pointer is on.
THEOREM AnswersFollowThePointer ==
  ASSUME AuthorityConstants PROVE Authority!Spec => Authority!AnsweredUnderItsRelease
<1>1. AuthorityInv /\ [Authority!Next]_(Authority!vars) =>
        [\A t \in Turn : turn[t].phase # "answered" /\ turn'[t].phase = "answered" =>
           pointer = turn[t].release]_(Authority!vars)
  BY AnswersUnderLease
<1>2. Authority!Spec => []AuthorityInv
  BY AuthorityInvariance
<1> QED BY <1>1, <1>2, PTL DEF Authority!Spec, Authority!AnsweredUnderItsRelease

-----------------------------------------------------------------------------
(* The parts together.                                                     *)

\* A behaviour of the whole is, for every part, a behaviour of it.
LEMMA PartsBehave ==
  Spec => /\ Graph!Spec /\ Execution!Spec /\ Classifier!Spec /\ Authority!Spec /\ Agent!Spec
          /\ Mesh!CallsSpec /\ Mesh!CacheSpec
<1>1. Init => /\ Graph!Init /\ Execution!Init /\ Classifier!Init /\ Authority!Init
              /\ Agent!Init /\ Mesh!CallsInit /\ Mesh!CacheInit
  BY DEF Init
<1>2. [Next]_vars => [Graph!Next]_(Graph!vars)
  BY DEF Next, vars, graphVars, Graph!vars
<1>3. [Next]_vars => [Execution!Next]_(Execution!vars)
  BY DEF Next, vars, executionVars, Execution!vars
<1>4. [Next]_vars => [Classifier!Next]_(Classifier!vars)
  BY DEF Next, vars, bindingVars, Classifier!vars
<1>5. [Next]_vars => [Authority!Next]_(Authority!vars)
  BY DEF Next, vars, authorityVars, Authority!vars
<1>6. [Next]_vars => [Agent!Next]_(Agent!vars)
  BY DEF Next, vars, agentVars, Agent!vars
<1>7. [Next]_vars => [Mesh!CallsNext]_(Mesh!callsVars)
  BY DEF Next, vars, meshVars, Mesh!callsVars
<1>8. [Next]_vars => [Mesh!CacheNext]_(Mesh!cacheVars)
  BY DEF Next, vars, cacheVars, Mesh!cacheVars
<1> QED
  BY <1>1, <1>2, <1>3, <1>4, <1>5, <1>6, <1>7, <1>8, PTL
  DEF Spec, Graph!Spec, Execution!Spec, Classifier!Spec, Authority!Spec, Agent!Spec,
      Mesh!CallsSpec, Mesh!CacheSpec

\* The invariants of the parts hold of the whole.
LEMMA PartsInvariant ==
  Spec => [](/\ GraphInv /\ ExecutionInv /\ BindingInv /\ AuthorityInv /\ AgentInv
             /\ MeshInv /\ CacheInv)
<1>1. Graph!Spec => []GraphInv
  BY AssistantAssumption, GraphInvariance
<1>2. Execution!Spec => []ExecutionInv
  BY AssistantAssumption, ExecutionInvariance
<1>3. Classifier!Spec => []BindingInv
  BY AssistantAssumption, BindingInvariance
<1>4. Authority!Spec => []AuthorityInv
  BY AssistantAssumption, AuthorityInvariance
<1>5. Agent!Spec => []AgentInv
  BY AssistantAssumption, AgentInvariance
<1>6. Mesh!CallsSpec => []MeshInv
  BY AssistantAssumption, MeshInvariance
<1>7. Mesh!CacheSpec => []CacheInv
  BY AssistantAssumption, CacheInvariance
<1> QED BY <1>1, <1>2, <1>3, <1>4, <1>5, <1>6, <1>7, PartsBehave, PTL

\* The rows of the part at work keep their types.
THEOREM PartsTyped == Spec => []TypeOK
<1>1. GraphInv => Graph!TypeOK
  BY DEF GraphInv
<1>2. ExecutionInv => Execution!TypeOK
  BY DEF ExecutionInv
<1>3. BindingInv => Classifier!TypeOK
  BY DEF BindingInv
<1>4. AuthorityInv => Authority!TypeOK
  BY DEF AuthorityInv
<1>5. MeshInv => Mesh!CallsTypeOK
  BY AssistantAssumption, MeshKeepsPromises
<1>6. CacheInv => Mesh!CacheTypeOK
  BY AssistantAssumption, CacheKeepsPromises
<1>7. GraphInv /\ ExecutionInv /\ BindingInv /\ AuthorityInv /\ AgentInv /\ MeshInv /\ CacheInv
        => TypeOK
  BY <1>1, <1>2, <1>3, <1>4, <1>5, <1>6, AgentKeepsPromises DEF TypeOK
<1> QED BY <1>7, PartsInvariant, PTL

\* The graph runs one start and consumes one checkpoint whatever is resent or cut off,
\* an agent's writing call runs once and only when approved, and no call of the mesh
\* passes a breaker or a bulkhead that should have held it.
THEOREM GatesPassedOnce == Spec => []GatePassedOnce
<1>1. GraphInv => Graph!OneStartRuns /\ Graph!CheckpointConsumedOnce /\ Graph!ReturnedIsRecorded
  BY OneStart DEF GraphInv
<1>2. MeshInv => Mesh!NoStrandedProbe /\ Mesh!ConcurrencyBounded
  BY AssistantAssumption, MeshKeepsPromises
<1>3. GraphInv /\ ExecutionInv /\ BindingInv /\ AuthorityInv /\ AgentInv /\ MeshInv /\ CacheInv
        => GatePassedOnce
  BY <1>1, <1>2, AgentKeepsPromises DEF GatePassedOnce
<1> QED BY <1>3, PartsInvariant, PTL

\* A turn is answered at most once, its fence says cancelled exactly when a cancellation
\* was acknowledged, an answer is paid for within the call's budget and by a mesh that
\* stays open until the turn is done.
THEOREM TurnsAnsweredOrCancelled == Spec => []AnsweredOrCancelled
<1>1. ExecutionInv => Execution!AnsweredAtMostOnce /\ Execution!CancelledAsAcknowledged
  BY AssistantAssumption, OneAnswer
<1>2. MeshInv => Mesh!CostIsCovered
  BY AssistantAssumption, MeshKeepsPromises
<1>3. CacheInv => Mesh!TurnKeepsMesh /\ Mesh!CacheBounded
  BY AssistantAssumption, CacheKeepsPromises
<1>4. GraphInv /\ ExecutionInv /\ BindingInv /\ AuthorityInv /\ AgentInv /\ MeshInv /\ CacheInv
        => AnsweredOrCancelled
  BY <1>1, <1>2, <1>3 DEF AnsweredOrCancelled
<1> QED BY <1>4, PartsInvariant, PTL

\* Pointer, history and outbox tell one story, a live lease holds the pointer, the
\* release that is authoritative can be rolled back, and every retired binding has the
\* one event that retired it.
THEOREM AuthorityTellsOneStory == Spec => []AuthorityConsistent
<1>1. AuthorityInv => /\ Authority!PointerFollowsHistory /\ Authority!LeaseHoldsPointer
                      /\ Authority!RollbackAlwaysReady
  BY AssistantAssumption, AuthorityKeepsPromises
<1>2. BindingInv => Classifier!HistoryExplainsRetirement
  BY DEF BindingInv
<1>3. GraphInv /\ ExecutionInv /\ BindingInv /\ AuthorityInv /\ AgentInv /\ MeshInv /\ CacheInv
        => AuthorityConsistent
  BY <1>1, <1>2 DEF AuthorityConsistent
<1> QED BY <1>3, PartsInvariant, PTL

\* What is over stays over: an expired gate, the workers of a cancelled turn, a retired
\* binding, an agent's run that is cancelled or has ended.
THEOREM PartsStayOver == Spec => OverStaysOver
<1>1. Graph!Spec => Graph!ExpiredIsFinal
  BY AssistantAssumption, ExpiredGateStays
<1>2. Execution!Spec => Execution!CancelledStopsWorkers
  BY AssistantAssumption, CancelledWorkersStop
<1>3. Classifier!Spec => Classifier!RetiredStaysRetired
  BY AssistantAssumption, RetiredBindingsStay
<1>4. Agent!Spec => Agent!CancelledNeverResumes
  BY AssistantAssumption, CancelledRunsEnd
<1> QED BY <1>1, <1>2, <1>3, <1>4, PartsBehave, PTL DEF OverStaysOver

\* Replacing a classifier binding leaves no gap.
THEOREM CutoversAreAtomic == Spec => CutoverIsAtomic
<1>1. Classifier!Spec => Classifier!CutoverIsAtomic
  BY AssistantAssumption, CutoverLeavesNoGap
<1> QED BY <1>1, PartsBehave, PTL DEF CutoverIsAtomic

\* An answered turn was resolved, run and answered under one revision.
THEOREM AnswersUnderOneRelease == Spec => AnsweredUnderItsRelease
<1>1. Authority!Spec => Authority!AnsweredUnderItsRelease
  BY AssistantAssumption, AnswersFollowThePointer
<1> QED BY <1>1, PartsBehave, PTL DEF AnsweredUnderItsRelease

=============================================================================
