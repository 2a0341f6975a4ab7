\* Two people and two orders, so that the dialog of the first can lead to the second;
\* one line makes the cart ready for an order.
SPECIFICATION ShopSpec
CONSTANTS
  Users = {alice, bob}
  NoUser = NoUser
  MaxCalls = 2
  Visited = {"Cart", "Profile", "Desc"}
  MaxLines = 1
  MaxOrders = 2
SYMMETRY UserSymmetry
INVARIANTS
  UnknownBuyerHasCause
