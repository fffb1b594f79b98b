CONSTANTS
  Component = {"dispatch"}
  Turn = {1}
  Message = {m1}
  Fingerprint = {f1}
  Resource = {tokens}
  Worker = {w1}
  InitialBudget <- MCInitialBudget
  Reservation <- MCReservation
  Usage <- MCUsage
  LeaseDuration = 1
  Disposition = {"retry"}
  MaxFaults = 5
  OutboxRow = {1}
  BatchSize = 1
  MaxAttempts = 1
  Lease = 1
  OutboxFaults = 0
  Nil = Nil
SPECIFICATION Spec
CHECK_DEADLOCK FALSE
INVARIANT TransientRetriesBounded
