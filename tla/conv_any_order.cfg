SPECIFICATION Spec
CONSTANTS
  MaxSkipped = 2
  Openers <- Both
  Senders <- Both
  Reordering = TRUE
  Redelivery = TRUE
  Reloads = TRUE
  MaxMessages = 5
  MaxDeliveries = 2
INVARIANTS TypeOK KeyUniqueness ForwardSecrecy FreshRatchetPerReply
PROPERTIES ReadUnlessOvertaken
\* The conversation ends at the bounds.
CHECK_DEADLOCK FALSE
