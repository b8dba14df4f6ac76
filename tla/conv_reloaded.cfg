SPECIFICATION Spec
CONSTANTS
  MaxSkipped = 2
  Openers <- Opener
  Senders <- Opener
  Reordering = TRUE
  Redelivery = FALSE
  Reloads = TRUE
  MaxMessages = 4
  MaxDeliveries = 1
INVARIANTS ReadableOnceOpened
\* The conversation ends at the bounds.
CHECK_DEADLOCK FALSE
