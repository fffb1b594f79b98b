CONSTANTS
  Component = {"grants", "keys", "apply", "evaluation", "definitions", "smoke", "tuning",
               "registry", "manifest"}
  Process = {p1, p2}
  Subject = {s1, s2}
  Role = {boot, r1}
  BootRole = boot
  Assignment = {a1, a2}
  Request = {q1}
  Nil = Nil
SPECIFICATION Spec
VIEW WithoutRevision
SYMMETRY Interchangeable
\* Requests, runs, rows and versions run out.
CHECK_DEADLOCK FALSE
INVARIANTS TypeOK AppliedOnce EvaluationAccounts
PROPERTY ApprovedAsSeen
