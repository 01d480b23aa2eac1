SPECIFICATION Spec
CONSTANTS
  Models = {m1, m2}
  Outcomes = {"quota", "transient"}
  MaxLevel = 2
  Ladder <- ShortLadder
  QuotaMax = 6
  CloudflareMin = 2
  TransientWait = 1
  SuspendWait = 2
  NotFoundWait = 3
  RetryAfters = {1}
  TornCopies = FALSE
  MaxTime = 3
  Limits <- StoreEvents
SYMMETRY ModelSymmetry
CHECK_DEADLOCK FALSE
INVARIANTS
  QuotaWindowKept
  StoreCurrent
  LadderTakesTime
  NoEndlessBlock
