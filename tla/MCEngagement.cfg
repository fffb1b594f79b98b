CONSTANTS
  Component = {"dispatch", "outbox"}
  Turn = {1, 2}
  Message = {m1, m2}
  Fingerprint = {f1}
  Resource = {tokens}
  Worker = {w1, w2}
  InitialBudget <- MCInitialBudget
  Reservation <- MCReservation
  Usage <- MCUsage
  LeaseDuration = 1
  Disposition = {"retry", "refuse", "stale", "dead-letter"}
  MaxFaults = 1
  OutboxRow = {1, 2}
  BatchSize = 1
  MaxAttempts = 2
  Lease = 1
  OutboxFaults = 2
  Nil = Nil
SPECIFICATION LiveSpec
\* Once everything is settled and the session closed nothing is left to do.
CHECK_DEADLOCK FALSE
INVARIANTS TypeOK OutcomesHaveCause
PROPERTIES LateProcessesHarmless EverythingSettled
