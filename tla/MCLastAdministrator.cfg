CONSTANTS
  Component = {"grants"}
  Process = {p1, p2}
  Subject = {s1, s2}
  Role = {boot, r1}
  BootRole = boot
  Assignment = {a1, a2, a3}
  Request = {q1}
  Nil = Nil
SPECIFICATION Spec
\* Requests, rows and versions run out.
CHECK_DEADLOCK FALSE
SYMMETRY Interchangeable
PROPERTY LastAdministratorKept
