\* One person with or without an account, three overlapping calls, under fairness.
SPECIFICATION FairSpec
CONSTANTS
  Users = {alice}
  NoUser = NoUser
  MaxCalls = 3
INVARIANTS
  TypeOK
  SpinnerIsOneLogin
  ShopOnlyAfterSignIn
  SignedOutInShopHasCause
  MissingProfileHasCause
  EmptyStackHasCause
PROPERTIES
  SpinnerStops
