SPECIFICATION FairSpec
CONSTANTS
  Creator = creator
  Joiner = joiner
  Events = {e1, e2}
  NoEvent = NoEvent
  OutboxLimit = 2
  InboxLimit = 1
  Receipts = 1
  Batch = 2
  MaxSequence <- TwoAndOne
  MaxFaults = 1
PROPERTIES PairingCompletes EventuallyShared
