CONSTANTS
  Component = {"classifier"}
  Call = {c1, c2, c3}
  Activation = {a1, a2}
  First = a1
  Binding = {1, 2, 3}
  EventRef = {e1, e2}
  Writer = {w1, w2}
  Turn = {t1}
  Resolver = {t1}
  Safe = Safe
  ToolCall = {k1, k2}
  Process = {p1, p2}
  Turning = {n1, n2, n3}
  Envelope = {v1, v2, v3}
  Nil = Nil
  MaxFence = 2
  GraphTicks = 3
  GraphBudget = 1
  TurnTicks = 2
  TurnBudget = 2
  BindingTicks = 3
  WindowOf <- MCWindowOf
  AuthorityTicks = 2
  PriorOf <- MCPriorOf
  LeaseTime = 1
  MaxRevision = 3
  MaxVersion = 5
  MaxAttempts = 2
  Routes = 2
  CostOf <- MCCostOf
  MaxCost = 2
  Threshold = 1
  Permits = 1
  Limit = 1
SPECIFICATION Spec
\* Calls and turns end, bounded clocks and revisions stop.
CHECK_DEADLOCK FALSE
INVARIANT ReplacementIsResolved
