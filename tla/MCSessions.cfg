CONSTANTS
  Component = {"subject", "access", "customer", "queue", "staff", "credentials"}
  Process = {p1, p2}
  Session = {s1, s2}
  Nil = Nil
  Turn = {"turn"}
  Message = {"message"}
  Fingerprint = {"content"}
  Resource = {"tokens"}
  Eraser = {"eraser"}
  InitialBudget <- MCInitialBudget
  DailyLimit <- MCDailyLimit
  Reservation <- MCReservation
  Usage <- MCUsage
  LeaseDuration = 1
  SessionTtl = 2
  Retention = 2
  DayLength = 2
  Provider = {"sid"}
  ProviderOf <- MCProviderOf
  MaxToken = 2
  MaxClock = 2
  MaxRevision = 3
  MaxVersion = 4
  MaxAttempts = 2
  MaxLapses = 1
SPECIFICATION Spec
SYMMETRY Interchangeable
\* Sessions, tokens and clocks run out.
CHECK_DEADLOCK FALSE
INVARIANTS TypeOK SubjectBudgetKept StoredCredentialsUsable RevocationsTracked
PROPERTIES OverStaysOver SessionLifecycles
