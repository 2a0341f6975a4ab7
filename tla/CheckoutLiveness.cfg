\* Two taps on Confirm Order by a user who comes and goes, so that one order can
\* wait for its buyer behind or beside another; under fairness.
SPECIFICATION FairSpec
CONSTANTS
  Products <- OneProduct
  MaxQuantity = 1
  Users = {alice}
  NoUser = NoUser
  Unknown = Unknown
  PaymentMethods = {cash}
  DefaultMethod = cash
  NoProduct = NoProduct
  MaxOrders = 2
  MaxPages = 3
PROPERTIES
  ConfirmedOrderEmptiesCart
