------------------------------- MODULE MCShop -------------------------------
(* The shop's parts, which share nothing but the session: orders, the lists  *)
(* of products, and what is kept of a product.  Each behaviour exercises one *)
(* of them, so the run explores their state spaces and not their product.    *)
EXTENDS ShopOrders, ShopBrowse, TLC

CONSTANT jane

VARIABLE part

SeedOwners == <<jane>>
NoWishes == [p \in Person |-> {}]
Symmetry == Permutations(Slot) \cup Permutations(Term)

ShopInit ==
  /\ part \in {"orders", "lists", "catalogue"}
  /\ SessionInit /\ OrdersInit /\ BrowseInit

ShopNext ==
  /\ UNCHANGED part
  /\ \/ part = "orders" /\ OrdersNext /\ UNCHANGED browseVars
     \/ /\ \/ part = "lists" /\ ListNext
           \/ part = "catalogue" /\ CatalogueNext
           \/ part # "orders" /\ (HearsNext \/ Fires \/ Open("other", term))
        /\ UNCHANGED orderVars

ShopSpec == ShopInit /\ [][ShopNext]_<<part, sessionVars, orderVars, browseVars>>

\* The variables of the session and of its parts have their types.
ShopTypeOK == SessionTypeOK /\ OrdersTypeOK /\ BrowseTypeOK

\* Inductive: one part moves, as it does on its own, and the others are as they were
\* at first.
ShopInv ==
  /\ SessionTypeOK /\ SessionAgrees
  /\ IF part = "orders" THEN OrdersInv /\ BrowseInit ELSE BrowseInv /\ OrdersInit
=============================================================================
