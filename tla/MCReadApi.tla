------------------------------ MODULE MCReadApi ------------------------------
(***************************************************************************)
(* A small instance of ReadApi for TLC.                                    *)
(***************************************************************************)
EXTENDS ReadApi, TLC

(* Two products of one source, and one of another.                        *)
ProductSource == [p \in Products |-> IF p = 3 THEN "other" ELSE "shop"]

(* One source's items state a currency, the other's rely on the default.   *)
DefaultCurrency == [s \in Sources |-> IF s = "shop" THEN NotStated ELSE "EUR"]

(* The budgets, in ticks.                                                  *)
Budgets == [s \in Sources |-> IF s = "shop" THEN 2 ELSE 1]

Item(price, currency, title) ==
    [price |-> price, currency |-> currency, title |-> title]

Items == {Item(2, "usd", "t"), Item(4, NotStated, "t"), Item(3, " ", "t"),
          Item(NotFinite, "USD", "t"), Item(Unparsable, "USD", "t"),
          Item(-1, "USD", "t"), Item(2, "USD", " ")}

(* Nothing yet, or a price of a product of each source.                    *)
Observed(product, amount, currency, at) ==
    [product |-> product, amount |-> amount, currency |-> currency, at |-> at]

Series == {{}, {Observed(3, 3, "EUR", 1), Observed(1, 4, "USD", 2)}}

(* Below and above the bounds.                                             *)
Limits == {0, 5}

Symmetry == Permutations(Writers)

=============================================================================
