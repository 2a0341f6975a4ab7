\* Two people and two writes through a pipeline of one, so that one waits on disk
\* while the other is sent; two disruptions, under fairness.
SPECIFICATION FairSpec
CONSTANTS
  Users = {alice, bob}
  NoUser = NoUser
  kMaxPendingWrites = 1
  MaxWrites = 2
  MaxDisruptions = 2
INVARIANTS
  TypeOK
  PipelineIsQueueFront
  AssertionsHold
  CallbackIsForItsBatch
PROPERTY QueueFairSpec
CHECK_DEADLOCK FALSE
