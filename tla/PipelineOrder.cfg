\* One person, signed in or not, and three writes that can all be under way, so
\* that an answer, a refusal and a write can pass each other; two disruptions.
SPECIFICATION Spec
CONSTANTS
  Users = {alice}
  NoUser = NoUser
  kMaxPendingWrites = 3
  MaxWrites = 3
  MaxDisruptions = 2
INVARIANTS
  AnswersMatchPipeline
  FailureHasCause
  WritesGoOutAsTheirAuthor
PROPERTY QueueSpec
CHECK_DEADLOCK FALSE
