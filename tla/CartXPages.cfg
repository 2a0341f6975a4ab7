\* Two people and two overlapping calls; with two lines, the cart can change under
\* the cart and checkout pages.
SPECIFICATION ShopSpec
CONSTANTS
  Users = {alice, bob}
  NoUser = NoUser
  MaxCalls = 2
  Visited = {"Home", "Cart", "Profile", "Signup", "Desc", "Edit"}
  MaxLines = 2
  MaxOrders = 1
SYMMETRY UserSymmetry
INVARIANTS
  ShopTypeOK
  PagesShowTheirUser
  StaleCartHasCause
  ForeignLineHasCause
