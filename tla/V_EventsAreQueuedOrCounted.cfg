SPECIFICATION ServerSpec
CONSTANTS
  Clicks = {c1, c2}
  Workers = {w1, w2}
  BufferSize = 1
  MayFail = {c1}
INVARIANT EventsAreQueuedOrCounted
CHECK_DEADLOCK FALSE
