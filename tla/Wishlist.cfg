\* One product and one user who comes and goes; four calls, so that a page can
\* load and be tapped over a write an earlier page left in the queue; under
\* fairness.
SPECIFICATION FairSpec
CONSTANTS
  Products = {p1}
  Users = {alice}
  NoUser = NoUser
  NoProduct = NoProduct
  MaxCalls = 4
INVARIANTS
  TypeOK
  QuietHeartIsTrue
PROPERTIES
  HeartCatchesUp
