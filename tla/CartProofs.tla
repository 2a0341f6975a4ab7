----------------------------- MODULE CartProofs -----------------------------
(***************************************************************************)
(* Facts about the list algorithms of module Cart, for any finite set of   *)
(* products whose names are different.                                     *)
(***************************************************************************)
EXTENDS Cart, CommonLemmas

(***************************************************************************)
(* globalCart.indexWhere: 0 exactly when no line has the name, otherwise   *)
(* the position of a line that has it.                                     *)
(***************************************************************************)
LEMMA IndexWhereFinds ==
  ASSUME NEW cart \in Seq(CartItem), NEW p
  PROVE  LET k == IndexWhere(cart, p)
         IN  /\ k \in 0..Len(cart)
             /\ k > 0 => cart[k].product.name = p.name
             /\ k = 0 => \A i \in 1..Len(cart) : cart[i].product.name # p.name
<1> DEFINE I == {i \in 1..Len(cart) : cart[i].product.name = p.name}
<1>1. IndexWhere(cart, p) = IF I # {} THEN Min(I) ELSE 0
  BY DEF IndexWhere, SelectInSeq
<1>2. CASE I = {}
  BY <1>1, <1>2
<1>3. CASE I # {}
  <2>1. I \subseteq Nat
    OBVIOUS
  <2>2. Min(I) \in I
    <3> HIDE DEF I
    <3> QED BY <1>3, <2>1, MinIsLeast
  <2>3. QED
    BY <1>1, <1>3, <2>2
<1>4. QED
  BY <1>2, <1>3

(***************************************************************************)
(* A cart without a second line for any product fits in the bound of Carts *)
(* (the pigeonhole principle on the products of its lines).                *)
(***************************************************************************)
LEMMA OneLineFits ==
  ASSUME NEW cart \in Seq(CartItem), OneLinePerProduct(cart)
  PROVE  cart \in Carts
<1> DEFINE f == [i \in 1..Len(cart) |-> cart[i].product]
<1>1. cart \in [1..Len(cart) -> CartItem] /\ Len(cart) \in Nat
  BY LenProperties
<1>2. f \in [1..Len(cart) -> Products]
  BY <1>1 DEF CartItem
<1>3. IsFiniteSet(1..Len(cart)) /\ Cardinality(1..Len(cart)) = Len(cart)
  <2>1. 1 \in Int /\ Len(cart) \in Int
    BY <1>1
  <2>2. IsFiniteSet(1..Len(cart))
    BY <2>1, FS_Interval, Zenon
  <2>3. Cardinality(1..Len(cart)) = IF 1 > Len(cart) THEN 0 ELSE Len(cart) - 1 + 1
    BY <2>1, FS_Interval, Zenon
  <2>4. QED
    BY <1>1, <2>2, <2>3
<1>4. IsFiniteSet(Products) /\ Cardinality(Products) \in Nat
  BY ProductsAssumption, FS_CardinalityType
<1>5. ~ (Cardinality(Products) < Len(cart))
  <2>1. SUFFICES ASSUME Cardinality(Products) < Len(cart)
                 PROVE  FALSE
    OBVIOUS
  <2>2. PICK x, y \in 1..Len(cart) : x # y /\ f[x] = f[y]
    <3> HIDE DEF f
    <3>1. Cardinality(Products) < Cardinality(1..Len(cart))
      BY <1>3, <2>1
    <3>2. QED
      BY <1>2, <1>3, <1>4, <3>1, FS_PigeonHole
  <2>3. QED
    BY <1>1, <2>2 DEF OneLinePerProduct
<1>6. Len(cart) \in 0..Cardinality(Products)
  BY <1>1, <1>4, <1>5
<1>7. QED
  BY <1>1, <1>6 DEF Carts, SeqOf

\* Every cart within the bound is a sequence of lines, the empty one included.
LEMMA CartsAreSequences ==
  /\ Carts \subseteq Seq(CartItem)
  /\ <<>> \in Carts
  /\ OneLinePerProduct(<<>>)
<1>1. Cardinality(Products) \in Nat
  BY ProductsAssumption, FS_CardinalityType
<1>2. Carts \subseteq Seq(CartItem)
  BY <1>1, SeqDef DEF Carts, SeqOf
<1>3. OneLinePerProduct(<<>>)
  BY DEF OneLinePerProduct
<1>4. <<>> \in Carts
  BY <1>3, OneLineFits, EmptySeq
<1>5. QED
  BY <1>2, <1>3, <1>4

(***************************************************************************)
(* In a cart with one line per product the count of a product is that of   *)
(* its line, and 0 when there is none: looking a line up by name is        *)
(* looking it up by product.                                               *)
(***************************************************************************)
LEMMA QuantityOfLine ==
  ASSUME NEW cart \in Seq(CartItem), OneLinePerProduct(cart)
  PROVE  /\ \A i \in 1..Len(cart) :
              /\ IndexWhere(cart, cart[i].product) = i
              /\ QuantityOf(cart, cart[i].product) = cart[i].quantity
         /\ \A p \in Products :
              (\A i \in 1..Len(cart) : cart[i].product # p) =>
                 IndexWhere(cart, p) = 0 /\ QuantityOf(cart, p) = 0
<1>1. cart \in [1..Len(cart) -> CartItem] /\ Len(cart) \in Nat
  BY LenProperties
<1>2. ASSUME NEW i \in 1..Len(cart)
      PROVE  IndexWhere(cart, cart[i].product) = i
  <2> DEFINE k == IndexWhere(cart, cart[i].product)
  <2>1. /\ k \in 0..Len(cart)
        /\ k > 0 => cart[k].product.name = cart[i].product.name
        /\ k = 0 => \A j \in 1..Len(cart) :
                       cart[j].product.name # cart[i].product.name
    BY IndexWhereFinds
  <2> HIDE DEF k
  <2>2. k \in 1..Len(cart)
    BY <2>1, <1>1
  <2>3. cart[k].product \in Products /\ cart[i].product \in Products
    BY <1>1, <2>2 DEF CartItem
  <2>4. cart[k].product = cart[i].product
    BY <2>1, <2>2, <2>3, ProductsAssumption
  <2>5. k = i
    BY <1>1, <2>2, <2>4 DEF OneLinePerProduct
  <2>6. QED
    BY <2>5 DEF k
<1>3. ASSUME NEW p \in Products, \A i \in 1..Len(cart) : cart[i].product # p
      PROVE  IndexWhere(cart, p) = 0
  <2> DEFINE k == IndexWhere(cart, p)
  <2>1. /\ k \in 0..Len(cart)
        /\ k > 0 => cart[k].product.name = p.name
    BY IndexWhereFinds
  <2> HIDE DEF k
  <2>2. ASSUME k > 0 PROVE FALSE
    <3>1. k \in 1..Len(cart)
      BY <2>1, <2>2, <1>1
    <3>2. cart[k].product \in Products
      BY <1>1, <3>1 DEF CartItem
    <3>3. QED
      BY <1>3, <2>1, <2>2, <3>1, <3>2, ProductsAssumption
  <2>3. QED
    BY <2>1, <2>2, <1>1 DEF k
<1>4. QED
  BY <1>2, <1>3, <1>1 DEF QuantityOf

(***************************************************************************)
(* _addToCart keeps one line per product, raises the count of its product  *)
(* by n and no other count.                                                *)
(***************************************************************************)
LEMMA WithItemAdds ==
  ASSUME NEW cart \in Seq(CartItem), OneLinePerProduct(cart),
         NEW p \in Products, NEW n \in 1..MaxQuantity,
         QuantityOf(cart, p) + n <= MaxQuantity
  PROVE  LET new == WithItem(cart, p, n)
         IN  /\ new \in Seq(CartItem)
             /\ OneLinePerProduct(new)
             /\ \A q \in Products :
                  QuantityOf(new, q) = IF q = p THEN QuantityOf(cart, p) + n
                                               ELSE QuantityOf(cart, q)
<1> DEFINE k == IndexWhere(cart, p)
           new == WithItem(cart, p, n)
<1>1. cart \in [1..Len(cart) -> CartItem] /\ Len(cart) \in Nat
  BY LenProperties
<1>2. /\ k \in 0..Len(cart)
      /\ k > 0 => cart[k].product.name = p.name
      /\ k = 0 => \A i \in 1..Len(cart) : cart[i].product.name # p.name
  BY IndexWhereFinds
<1>3. new = IF k > 0 THEN [cart EXCEPT ![k].quantity = @ + n]
                     ELSE Append(cart, [product |-> p, quantity |-> n])
  BY DEF WithItem
<1>4. QuantityOf(cart, p) = IF k > 0 THEN cart[k].quantity ELSE 0
  BY DEF QuantityOf
<1>5. /\ \A i \in 1..Len(cart) : QuantityOf(cart, cart[i].product) = cart[i].quantity
      /\ \A q \in Products :
           (\A i \in 1..Len(cart) : cart[i].product # q) => QuantityOf(cart, q) = 0
  BY QuantityOfLine
<1> HIDE DEF k, new
<1>6. CASE k > 0
  <2>1. k \in 1..Len(cart)
    BY <1>1, <1>2, <1>6
  <2>2. cart[k].product = p
    <3>1. cart[k].product \in Products
      BY <1>1, <2>1 DEF CartItem
    <3>2. QED
      BY <1>2, <1>6, <3>1, ProductsAssumption
  <2> DEFINE e == [cart[k] EXCEPT !.quantity = @ + n]
  <2>3. /\ e \in CartItem
        /\ e.product = p
        /\ e.quantity = cart[k].quantity + n
    <3>1. cart[k] \in CartItem
      BY <1>1, <2>1
    <3>2. cart[k].quantity + n <= MaxQuantity
      BY <1>4, <1>6
    <3>3. cart[k].quantity + n \in 1..MaxQuantity
      BY <3>1, <3>2, MaxQuantityAssumption DEF CartItem
    <3>4. QED
      BY <2>2, <3>1, <3>3 DEF CartItem
  <2>4. new = [cart EXCEPT ![k] = e]
    BY <1>3, <1>6
  <2> HIDE DEF e
  <2>5. /\ new \in Seq(CartItem)
        /\ Len(new) = Len(cart)
        /\ \A j \in 1..Len(cart) : new[j] = IF j = k THEN e ELSE cart[j]
    BY <2>1, <2>3, <2>4, ExceptSeq
  <2>6. OneLinePerProduct(new)
    BY <1>1, <2>1, <2>2, <2>3, <2>5, LenProperties DEF OneLinePerProduct
  <2>7. \A q \in Products :
          QuantityOf(new, q) = IF q = p THEN cart[k].quantity + n
                                        ELSE QuantityOf(cart, q)
    <3>1. TAKE q \in Products
    <3>2. /\ \A i \in 1..Len(new) : QuantityOf(new, new[i].product) = new[i].quantity
          /\ (\A i \in 1..Len(new) : new[i].product # q) => QuantityOf(new, q) = 0
      BY <2>5, <2>6, QuantityOfLine
    <3>3. CASE q = p
      BY <2>1, <2>3, <2>5, <3>2, <3>3
    <3>4. CASE q # p /\ \E i \in 1..Len(cart) : cart[i].product = q
      <4>1. PICK i \in 1..Len(cart) : cart[i].product = q
        BY <3>4
      <4>2. i # k /\ i \in 1..Len(new) /\ new[i] = cart[i]
        BY <2>2, <2>5, <3>4, <4>1
      <4>3. QED
        BY <1>5, <3>2, <3>4, <4>1, <4>2
    <3>5. CASE q # p /\ \A i \in 1..Len(cart) : cart[i].product # q
      <4>1. \A i \in 1..Len(new) : new[i].product # q
        BY <2>3, <2>5, <3>5
      <4>2. QED
        BY <1>5, <3>2, <3>5, <4>1
    <3>6. QED
      BY <3>3, <3>4, <3>5
  <2>8. QED
    BY <1>4, <1>6, <2>5, <2>6, <2>7 DEF new
<1>7. CASE k = 0
  <2> DEFINE e == [product |-> p, quantity |-> n]
  <2>1. e \in CartItem /\ e.product = p /\ e.quantity = n
    BY DEF CartItem
  <2>2. new = Append(cart, e)
    BY <1>3, <1>7
  <2> HIDE DEF e
  <2>3. /\ new \in Seq(CartItem)
        /\ Len(new) = Len(cart) + 1
        /\ \A j \in 1..Len(cart) : new[j] = cart[j]
        /\ new[Len(cart) + 1] = e
    BY <2>1, <2>2, AppendProperties
  <2>4. \A i \in 1..Len(cart) : cart[i].product # p
    BY <1>2, <1>7
  <2>5. DOMAIN new = 1..(Len(cart) + 1) /\ DOMAIN cart = 1..Len(cart)
    BY <1>1, <2>3, LenProperties
  <2>6. OneLinePerProduct(new)
    BY <1>1, <2>1, <2>3, <2>4, <2>5 DEF OneLinePerProduct
  <2>7. \A q \in Products :
          QuantityOf(new, q) = IF q = p THEN n ELSE QuantityOf(cart, q)
    <3>1. TAKE q \in Products
    <3>2. /\ \A i \in 1..Len(new) : QuantityOf(new, new[i].product) = new[i].quantity
          /\ (\A i \in 1..Len(new) : new[i].product # q) => QuantityOf(new, q) = 0
      BY <2>3, <2>6, QuantityOfLine
    <3>3. CASE q = p
      BY <1>1, <2>1, <2>3, <3>2, <3>3
    <3>4. CASE q # p /\ \E i \in 1..Len(cart) : cart[i].product = q
      <4>1. PICK i \in 1..Len(cart) : cart[i].product = q
        BY <3>4
      <4>2. i \in 1..Len(new) /\ new[i] = cart[i]
        BY <1>1, <2>3
      <4>3. QED
        BY <1>5, <3>2, <3>4, <4>1, <4>2
    <3>5. CASE q # p /\ \A i \in 1..Len(cart) : cart[i].product # q
      <4>1. \A i \in 1..Len(new) : new[i].product # q
        BY <1>1, <2>1, <2>3, <3>5
      <4>2. QED
        BY <1>5, <3>2, <3>5, <4>1
    <3>6. QED
      BY <3>3, <3>4, <3>5
  <2>8. QED
    BY <1>4, <1>7, <2>3, <2>6, <2>7 DEF new
<1>8. QED
  BY <1>1, <1>2, <1>6, <1>7

(***************************************************************************)
(* _removeItem: removeAt takes one line out and keeps the others in their  *)
(* order, so exactly one product's count goes to 0.                        *)
(***************************************************************************)
LEMMA RemoveAtTakesOut ==
  ASSUME NEW cart \in Seq(CartItem), OneLinePerProduct(cart),
         NEW k \in 1..Len(cart)
  PROVE  LET new == RemoveAt(cart, k)
         IN  /\ new \in Seq(CartItem)
             /\ OneLinePerProduct(new)
             /\ \A q \in Products :
                  QuantityOf(new, q) = IF q = cart[k].product
                                         THEN 0 ELSE QuantityOf(cart, q)
<1> DEFINE left  == SubSeq(cart, 1, k - 1)
           right == SubSeq(cart, k + 1, Len(cart))
           new   == RemoveAt(cart, k)
           from(j) == IF j < k THEN j ELSE j + 1
<1>1. cart \in [1..Len(cart) -> CartItem] /\ Len(cart) \in Nat
  BY LenProperties
<1>2. /\ left \in Seq(CartItem)
      /\ Len(left) = k - 1
      /\ \A j \in 1..(k - 1) : left[j] = cart[j]
  <2>1. \A i \in 1..(k - 1) : cart[i] \in CartItem
    BY <1>1
  <2>2. /\ left \in Seq(CartItem)
        /\ Len(left) = IF 1 <= k - 1 THEN k - 1 - 1 + 1 ELSE 0
        /\ \A i \in 1..(k - 1 - 1 + 1) : left[i] = cart[1 + i - 1]
    BY <1>1, <2>1, SubSeqProperties
  <2>3. QED
    BY <1>1, <2>2
<1>3. /\ right \in Seq(CartItem)
      /\ Len(right) = Len(cart) - k
      /\ \A j \in 1..(Len(cart) - k) : right[j] = cart[k + j]
  <2>1. \A i \in (k + 1)..Len(cart) : cart[i] \in CartItem
    BY <1>1
  <2>2. /\ right \in Seq(CartItem)
        /\ Len(right) = IF k + 1 <= Len(cart) THEN Len(cart) - (k + 1) + 1 ELSE 0
        /\ \A i \in 1..(Len(cart) - (k + 1) + 1) : right[i] = cart[k + 1 + i - 1]
    BY <1>1, <2>1, SubSeqProperties
  <2> HIDE DEF right
  <2>3. Len(cart) - (k + 1) + 1 = Len(cart) - k
    BY <1>1
  <2>4. \A j \in 1..(Len(cart) - k) : k + 1 + j - 1 = k + j
    BY <1>1
  <2>5. Len(right) = Len(cart) - k
    <3>1. Len(right) = IF k + 1 <= Len(cart) THEN Len(cart) - k ELSE 0
      BY <2>2, <2>3
    <3>2. CASE k + 1 <= Len(cart)
      BY <3>1, <3>2
    <3>3. CASE ~ (k + 1 <= Len(cart))
      <4>1. k \in Nat /\ Len(cart) \in Nat /\ k <= Len(cart)
        BY <1>1
      <4>2. Len(cart) = k
        BY <3>3, <4>1
      <4>3. Len(cart) - k = 0
        BY <4>1, <4>2
      <4>4. QED
        BY <3>1, <3>3, <4>3
    <3>4. QED
      BY <3>2, <3>3
  <2>6. ASSUME NEW j \in 1..(Len(cart) - k)
        PROVE  right[j] = cart[k + j]
    <3>1. right[j] = cart[k + 1 + j - 1]
      BY <2>2, <2>3
    <3>2. QED
      BY <2>4, <3>1
  <2>7. QED
    BY <2>2, <2>5, <2>6
<1>4. new = left \o right
  BY DEF RemoveAt
<1> HIDE DEF left, right, new
<1>5. /\ new \in Seq(CartItem)
      /\ Len(new) = Len(cart) - 1
      /\ \A j \in 1..(Len(cart) - 1) : new[j] = cart[from(j)]
  <2>1. /\ new \in Seq(CartItem)
        /\ Len(new) = Len(left) + Len(right)
        /\ \A i \in 1..(Len(left) + Len(right)) :
             new[i] = IF i <= Len(left) THEN left[i] ELSE right[i - Len(left)]
    BY <1>2, <1>3, <1>4, ConcatProperties
  <2>2. Len(left) + Len(right) = Len(cart) - 1
    BY <1>1, <1>2, <1>3
  <2>3. ASSUME NEW j \in 1..(Len(cart) - 1)
        PROVE  new[j] = cart[from(j)]
    <3>1. CASE j < k
      BY <1>1, <1>2, <2>1, <2>2, <3>1
    <3>2. CASE j >= k
      <4>1. j - (k - 1) \in 1..(Len(cart) - k) /\ k + (j - (k - 1)) = j + 1
        BY <1>1, <3>2
      <4>2. new[j] = right[j - (k - 1)]
        BY <1>1, <1>2, <2>1, <2>2, <3>2
      <4>3. right[j - (k - 1)] = cart[k + (j - (k - 1))]
        BY <1>3, <4>1
      <4>4. QED
        BY <3>2, <4>1, <4>2, <4>3
    <3>3. QED
      BY <1>1, <3>1, <3>2
  <2>4. QED
    BY <2>1, <2>2, <2>3
<1>6. DOMAIN new = 1..(Len(cart) - 1) /\ DOMAIN cart = 1..Len(cart)
  BY <1>1, <1>5, LenProperties
<1>7. OneLinePerProduct(new)
  <2>1. SUFFICES ASSUME NEW i \in 1..(Len(cart) - 1), NEW j \in 1..(Len(cart) - 1),
                        new[i].product = new[j].product
                 PROVE  i = j
    BY <1>6 DEF OneLinePerProduct
  <2>2. /\ from(i) \in 1..Len(cart) /\ from(j) \in 1..Len(cart)
        /\ from(i) = from(j) => i = j
    BY <1>1
  <2>3. cart[from(i)].product = cart[from(j)].product
    BY <1>5, <2>1
  <2>4. QED
    BY <1>6, <2>2, <2>3 DEF OneLinePerProduct
<1>8. ASSUME NEW q \in Products
      PROVE  QuantityOf(new, q) = IF q = cart[k].product
                                    THEN 0 ELSE QuantityOf(cart, q)
  <2>1. /\ \A i \in 1..Len(cart) : QuantityOf(cart, cart[i].product) = cart[i].quantity
        /\ (\A i \in 1..Len(cart) : cart[i].product # q) => QuantityOf(cart, q) = 0
    BY QuantityOfLine
  <2>2. /\ \A i \in 1..Len(new) : QuantityOf(new, new[i].product) = new[i].quantity
        /\ (\A i \in 1..Len(new) : new[i].product # q) => QuantityOf(new, q) = 0
    BY <1>5, <1>7, QuantityOfLine
  <2>3. CASE q = cart[k].product
    <3>1. \A i \in 1..Len(new) : new[i].product # q
      BY <1>1, <1>5, <1>6, <2>3 DEF OneLinePerProduct
    <3>2. QED
      BY <2>2, <2>3, <3>1
  <2>4. CASE q # cart[k].product /\ \E i \in 1..Len(cart) : cart[i].product = q
    <3>1. PICK i \in 1..Len(cart) : cart[i].product = q
      BY <2>4
    <3>2. PICK j \in 1..Len(new) : new[j] = cart[i]
      <4>1. i # k
        BY <2>4, <3>1
      <4>2. CASE i < k
        BY <1>1, <1>5, <4>2
      <4>3. CASE i > k
        <5>1. i - 1 \in 1..Len(new) /\ from(i - 1) = i
          BY <1>1, <1>5, <4>3
        <5>2. QED
          BY <1>5, <5>1
      <4>4. QED
        BY <1>1, <4>1, <4>2, <4>3
    <3>3. QED
      BY <2>1, <2>2, <2>4, <3>1, <3>2
  <2>5. CASE q # cart[k].product /\ \A i \in 1..Len(cart) : cart[i].product # q
    <3>1. \A i \in 1..Len(new) : new[i].product # q
      BY <1>1, <1>5, <2>5
    <3>2. QED
      BY <2>1, <2>2, <2>5, <3>1
  <2>6. QED
    BY <2>3, <2>4, <2>5
<1>9. QED
  BY <1>5, <1>7, <1>8 DEF new
=============================================================================
