------------------------ MODULE MCAtomicConversation ------------------------
(***************************************************************************)
(* Small instances of AtomicConversation for TLC.  Without transitions in  *)
(* flight the histories can be long enough for leases to lapse, turns to   *)
(* be claimed again and the session budget to run out.                     *)
(***************************************************************************)
EXTENDS AtomicConversation, TLC

CONSTANTS MaxVersion, MaxClock

MCInitialBudget == [tokens |-> 5, micros |-> 3]
MCReservation == {[tokens |-> 2, micros |-> 1]}
\* The second usage exceeds the reservation in one dimension only.
MCUsage == {[tokens |-> 1, micros |-> 1], [tokens |-> 1, micros |-> 2]}
MCReceipts ==
  [conversationVersion : 1..MaxVersion, fencingToken : Fence, expiresAt : {2}]

Bounds == store.version <= MaxVersion /\ clock <= MaxClock

Interchangeable == Permutations(Turn) \cup Permutations(Message)

=============================================================================
