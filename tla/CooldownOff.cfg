SPECIFICATION Spec
CONSTANTS
  Models = {m1}
  Outcomes = {"quota", "unauthorized"}
  MaxLevel = 2
  Ladder <- ShortLadder
  QuotaMax = 6
  CloudflareMin = 2
  TransientWait = 1
  SuspendWait = 2
  NotFoundWait = 3
  RetryAfters = {1}
  TornCopies = TRUE
  MaxTime = 1
  Limits <- OffEvents
CHECK_DEADLOCK FALSE
INVARIANTS
  CoolingOffUnblocks
