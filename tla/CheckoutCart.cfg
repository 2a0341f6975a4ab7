\* Two products in quantities up to two, so that rows, lines and quantities
\* can be mixed up; one tap on Confirm Order; room for a home page and a
\* description page over the checkout page.
SPECIFICATION Spec
CONSTANTS
  Products <- TwoProducts
  MaxQuantity = 2
  Users = {}
  NoUser = NoUser
  Unknown = Unknown
  PaymentMethods = {cash, card}
  DefaultMethod = cash
  NoProduct = NoProduct
  MaxOrders = 1
  MaxPages = 4
INVARIANTS
  TypeOK
  RowsMatchCart
  ChargedTotalIsCartTotal
PROPERTIES
  CartBag
