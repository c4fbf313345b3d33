CONSTANTS
  Partition = {p1, p2}
  MaxMessages = 2
  None = None
SPECIFICATION FairNotificationSpec
INVARIANT CommittedIsProcessed
INVARIANT NoneIsSkipped
PROPERTY EveryMessageIsProcessed
