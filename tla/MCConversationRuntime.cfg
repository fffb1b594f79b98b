CONSTANTS
  Turn = {t1, t2}
  Message = {m1, m2}
  Fingerprint = {f1, f2}
  Resource = {tokens}
  Caller = {c1, c2}
  Fence = {1, 2}
  InitialBudget <- MCInitialBudget
  Reservation <- MCReservation
  Usage <- MCUsage
  Receipts <- MCReceipts
  LeaseDuration = 1
  MaxSkew = 0
  SessionExpiry = 9
  MaxVersion = 4
  MaxClock = 1
  Nil = Nil
SPECIFICATION Spec
CONSTRAINT Bounds
SYMMETRY Interchangeable
INVARIANT RepliesAgree
PROPERTIES AtomicSpec StaleResultRejected ReceiptLiveAtCommit
