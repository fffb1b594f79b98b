------------------------ MODULE MCConversationRuntime ------------------------
(***************************************************************************)
(* Small instances of ConversationRuntime for TLC.                         *)
(***************************************************************************)
EXTENDS ConversationRuntime, TLC

CONSTANTS MaxVersion, MaxClock

TwoUnits == [r \in Resource |-> 2]
MCInitialBudget == [r \in Resource |-> 4]
MCReservation == {TwoUnits}
MCUsage == {[r \in Resource |-> 1]}
\* A turn is first claimed in version 2; a receipt may lapse before its commit.
MCReceipts ==
  [conversationVersion : 2..3, fencingToken : Fence, expiresAt : {1}]

Bounds == store.version <= MaxVersion /\ clock <= MaxClock

Interchangeable == Permutations(Turn) \cup Permutations(Message)
                     \cup Permutations(Caller) \cup Permutations(Fingerprint)

=============================================================================
