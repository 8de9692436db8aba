SPECIFICATION FairServerSpec
CONSTANTS
  Clicks = {c1, c2, c3, c4}
  Workers = {w1, w2}
  BufferSize = 1
  MayFail = {c1}
INVARIANT ServerTypeOK
INVARIANT CountersAddUp
INVARIANT DeliveryInv
INVARIANT DrainedMeansRecorded
PROPERTY KeepsLedger
PROPERTY QueuedIsRecorded
PROPERTY SignalEndsProcess
CHECK_DEADLOCK FALSE
