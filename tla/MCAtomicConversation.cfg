CONSTANTS
  Turn = {t1, t2, t3}
  Message = {m1, m2, m3}
  Fingerprint = {f1}
  Resource = {"tokens", "micros"}
  Fence = {1, 2, 3}
  InitialBudget <- MCInitialBudget
  Reservation <- MCReservation
  Usage <- MCUsage
  Receipts <- MCReceipts
  LeaseDuration = 1
  MaxSkew = 1
  MaxVersion = 6
  MaxClock = 2
  Nil = Nil
SPECIFICATION Spec
CONSTRAINT Bounds
SYMMETRY Interchangeable
INVARIANTS TypeOK InboxOrder OneTurnPerMessage EventLogGapless
  AnsweredOnce BudgetConserved
PROPERTIES SettledIsFinal FenceNeverReused
