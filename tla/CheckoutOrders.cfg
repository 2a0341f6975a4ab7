\* Two taps on Confirm Order, so that two calls of _placeOrder can be in flight
\* together, in one checkout page or in two, and leave two dialogs; a user who
\* comes and goes, so that they are answered in any order; room for a home page
\* and a description page over two dialogs or the checkout page.
SPECIFICATION Spec
CONSTANTS
  Products <- OneProduct
  MaxQuantity = 2
  Users = {alice}
  NoUser = NoUser
  Unknown = Unknown
  PaymentMethods = {cash}
  DefaultMethod = cash
  NoProduct = NoProduct
  MaxOrders = 2
  MaxPages = 5
INVARIANTS
  EmptyOrderOnlyAfterSuccess
  SuccessDialogIsTrue
PROPERTIES
  ClearsWhatWasCharged
