------------------------------ MODULE Catalog ------------------------------
(***************************************************************************)
(* The product catalogue of lib/Hasnine/products.dart: a constant list of  *)
(* thirteen products.  Description texts and image paths are left out, no  *)
(* handler reads them.  Every price of the list is a whole number of taka, *)
(* so the doubles of the code are naturals here.                           *)
(***************************************************************************)
EXTENDS Naturals, Sequences, FiniteSets

Product(id, name, category, price) ==
  [id |-> id, name |-> name, category |-> category, price |-> price]

demoProducts == <<
  Product("p1",  "Fresh Tomatoo (1 kg)", "Food",        70),
  Product("p2",  "Laptop Backpack",      "Bags",        2000),
  Product("p3",  "T-Shirt",              "Clothing",    1500),
  Product("p4",  "Galaxy Buds 2",        "Electronics", 9000),
  Product("p5",  "Sneakers",             "Sports",      1800),
  Product("p6",  "Sunscream",            "Beauty",      720),
  Product("p7",  "Bluetooth Speaker",    "Electronics", 4000),
  Product("p8",  "Wrist Watch",          "Accessories", 4000),
  Product("p9",  "Football Boots",       "Sports",      3000),
  Product("p10", "Milk (1 liter)",       "Food",        90),
  Product("p11", "Cotton Hoodie",        "Clothing",    1500),
  Product("p12", "Power Bank",           "Electronics", 2200),
  Product("p13", "Sunglasses",           "Accessories", 1200) >>

(***************************************************************************)
(* _addToCart looks a cart line up by product NAME and the wishlist looks  *)
(* a product up by ID: both are only right because the list repeats        *)
(* neither.  TLC evaluates this on the real list in every run.             *)
(***************************************************************************)
ASSUME NamesAndIdsAreKeys ==
  \A i, j \in DOMAIN demoProducts :
    \/ demoProducts[i].name = demoProducts[j].name
    \/ demoProducts[i].id = demoProducts[j].id
    => i = j

-----------------------------------------------------------------------------
(***************************************************************************)
(* What the pages list: the categories of product_catagory.dart with the   *)
(* number of their products, the list a category opens, and the home page. *)
(* Positions are 1-based here.                                             *)
(***************************************************************************)
categoryNames == <<"Food", "Clothing", "Electronics", "Accessories", "Sports", "Beauty">>

popularProducts == [k \in 1..6 |-> demoProducts[<<1, 2, 4, 13, 11, 12>>[k]]]

\* The category page always passes a category; without one (null) the list
\* page shows everything.
NoFilter == "null"

CategoryFilter(categoryFilter) ==
  IF categoryFilter = NoFilter
    THEN demoProducts
    ELSE SelectSeq(demoProducts, LAMBDA p : p.category = categoryFilter)

ItemCount(category) ==
  Cardinality({i \in DOMAIN demoProducts : demoProducts[i].category = category})

(***************************************************************************)
(* Every product can be found without knowing its name: in a category or   *)
(* on the home page.  (The backpack is in none of the six categories.)     *)
(* A category shows as many items as it lists, and lists at least one; no  *)
(* category is taken for the missing filter.                               *)
(***************************************************************************)
ASSUME EveryProductIsListed ==
  \A i \in DOMAIN demoProducts :
    \/ \E k \in DOMAIN categoryNames : demoProducts[i].category = categoryNames[k]
    \/ \E k \in DOMAIN popularProducts : popularProducts[k] = demoProducts[i]

ASSUME CountsAreTrue ==
  \A k \in DOMAIN categoryNames :
    /\ categoryNames[k] # NoFilter
    /\ Len(CategoryFilter(categoryNames[k])) = ItemCount(categoryNames[k])
    /\ ItemCount(categoryNames[k]) > 0
=============================================================================
