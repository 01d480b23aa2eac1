SPECIFICATION Spec
CONSTANTS
  Models = {m1}
  Outcomes = {"retryAfter"}
  MaxLevel = 2
  Ladder <- ShortLadder
  QuotaMax = 6
  CloudflareMin = 2
  TransientWait = 1
  SuspendWait = 2
  NotFoundWait = 3
  RetryAfters = {3}
  TornCopies = FALSE
  MaxTime = 3
  Limits <- RestartEvents
CHECK_DEADLOCK FALSE
INVARIANTS
  RestartKeepsCooldown
