SPECIFICATION Spec
CONSTANTS
  a1 = a1 a2 = a2 b1 = b1 b2 = b2
  None = None
  MaxSkipped = 3
  Slots <- OneEach
  Openers <- Opener
  Prekeys <- OnePrekey
  FirstKey = 4
  Failures = {"request"}
  MaxSends = 2
  MaxReloads <- NoReload
INVARIANTS RetryOpens
\* The conversation ends at the bounds.
CHECK_DEADLOCK FALSE
