SPECIFICATION CallsSpec
CONSTANTS
  i1 = i1  i2 = i2  i3 = i3  e1 = e1  e2 = e2  p1 = p1  p2 = p2  w1 = w1  w2 = w2
  Invocation = {i1, i2, i3}
  Peer = {p1, p2}  Outcome = {e1, e2}  Orphan = {e2}  Slots = 1  Batch = 1  MaxFaults = 2
  Batches = 4  EWorker = {w1, w2}
INVARIANTS CallsTypeOK NoSendBlocks NothingForgotten
PROPERTIES CallsAreAnswered OutcomesCollected EmbeddingEnds
CHECK_DEADLOCK FALSE
