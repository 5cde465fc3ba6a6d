----------------------------- MODULE MCPricedOrder -----------------------------
(* PricedOrder on a small instance, for TLC. *)
EXTENDS PricedOrder

CONSTANTS i1, i2

Size(price, default, available) ==
  [price |-> price, default |-> default, available |-> available, diet |-> "same"]

MCSizeList == {<< >>, <<Size(250, FALSE, TRUE), Size(101, TRUE, TRUE)>>}

MCTopping == {NoToppings,
              [min |-> 1, max |-> 1, rows |-> <<[price |-> 50, available |-> TRUE,
                                                 diet |-> "EGG"]>>]}

Asking(scheme, slab, rate, method, active) ==
  [scheme |-> scheme, slab |-> slab, rate |-> rate, method |-> method,
   types |-> OrderType, active |-> active, dishes |-> {i1}]

MCNewRule == {Asking("gst", "gst_5", 0, "forward", TRUE), Asking("gst", "igst", 1200, "backward", TRUE),
              Asking("gst", "custom", 725, "tax_on_tax", TRUE), Asking("vat", "none", 1000, "forward", TRUE)}

MCChange == {[active |-> TRUE], [method |-> "backward"], [dishes |-> {i2}],
             [scheme |-> "gst", slab |-> "gst_18"], [cgst |-> 0, sgst |-> 0]}

Wants(amount, percent, taxes, tip) ==
  [amount |-> amount, percent |-> percent, taxes |-> taxes, tip |-> tip, rounds |-> taxes]

MCPreview == {Wants(0, 0, TRUE, 0), Wants(40, 0, TRUE, 7), Wants(0, 1250, FALSE, 0)}

MCPolicy == {[max |-> 3000, worker |-> 3000], [max |-> 10000, worker |-> 0]}

RowSymmetry == Permutations(Category) \cup Permutations(CategoryName) \cup Permutations(Line)
=============================================================================
