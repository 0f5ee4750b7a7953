SPECIFICATION BatchingSpec
CONSTANTS
  Caller = {"small", "large"}
  Thread = {"t0", "t1"}
  DeviceOf <- OneThreadEach
  Devices = 2
  Step = 2
  BatchSize <- Batches
  Owner = "owner"
  Child = {"c1", "c2"}
  Worker = {"w1", "w2"}
  MaxBatch <- Limits
  Width <- Widths
CHECK_DEADLOCK FALSE
INVARIANTS DemuxInv MuxInv
PROPERTIES DemuxReturns DemuxServes ChildrenReturn MuxServes
