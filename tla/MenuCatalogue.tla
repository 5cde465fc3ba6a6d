------------------------------ MODULE MenuCatalogue ------------------------------
(***************************************************************************)
(* An outlet's menu: app/services/owner/menu_service.py, and how the till  *)
(* turns a dish into an order line (order_service.py _resolve_menu_line,   *)
(* menu_food_type.py). Operators on the rows of an outlet, a record with   *)
(* the fields named in MenuRows among others.                              *)
(*                                                                         *)
(* A dish has sizes, the leaves of its tree of variations in menu order,   *)
(* and one group of toppings. Texts, weights, sort orders and the GST      *)
(* columns of a dish, which no bill reads, are left out.                   *)
(***************************************************************************)
EXTENDS Integers, Sequences, SequencesExt, FiniteSetsExt

CONSTANTS Category, Dish,  \* identities of categories and dishes
          CategoryName

RowState == {"unused", "live", "deleted"}

Diet == {"VEG", "EGG", "NON_VEG"}

\* The diet of a size or topping may be NULL: that of its dish.
SizeRow == [price : Nat, default : BOOLEAN, available : BOOLEAN, diet : Diet \cup {"same"}]

ToppingRow == [price : Nat, available : BOOLEAN, diet : Diet \cup {"same"}]

\* max = 0 stands for no limit.
ToppingGroup == [min : Nat, max : Nat, rows : Seq(ToppingRow)]

NoToppings == [min |-> 0, max |-> 0, rows |-> << >>]

MenuRows == [category : [Category -> RowState], name : [Category -> CategoryName],
             dish : [Dish -> RowState], under : [Dish -> Category], price : [Dish -> Nat],
             diet : [Dish -> Diet], available : [Dish -> BOOLEAN],
             sizes : [Dish -> Seq(SizeRow)], toppings : [Dish -> ToppingGroup]]

LiveCategories(d) == {c \in Category : d.category[c] = "live"}

LiveDishes(d) == {i \in Dish : d.dish[i] = "live"}

-----------------------------------------------------------------------------
(* Sizes and prices *)

Defaults(sizes) == {k \in DOMAIN sizes : sizes[k].default}

\* At most one default; without one, the first size becomes it.
MayNormalize(sizes) == Cardinality(Defaults(sizes)) <= 1

normalize_variations(sizes) ==
  IF sizes = << >> \/ Defaults(sizes) # {} THEN sizes ELSE [sizes EXCEPT ![1].default = TRUE]

\* Mutant of base_price_from_variations: the price of the first size.
FirstPrice(sizes, fallback) == IF sizes = << >> THEN fallback ELSE sizes[1].price

base_price_from_variations(sizes, fallback) ==
  IF sizes = << >> THEN fallback
  ELSE LET leaves == normalize_variations(sizes)
       IN leaves[CHOOSE k \in Defaults(leaves) : TRUE].price

-----------------------------------------------------------------------------
(* Handlers *)

\* uq_menu_categories_outlet_name
NameFree(d, n, except) == \A c \in LiveCategories(d) \ except : d.name[c] # n

create_category(d, c, n) == [d EXCEPT !.category[c] = "live", !.name[c] = n]

update_category(d, c, n) == [d EXCEPT !.name[c] = n]

create_item(d, i, c, price, diet, sizes, toppings) ==
  [d EXCEPT !.dish[i] = "live", !.under[i] = c, !.diet[i] = diet, !.available[i] = TRUE,
            !.price[i] = base_price_from_variations(sizes, price),
            !.sizes[i] = normalize_variations(sizes), !.toppings[i] = toppings]

\* update_item sets the columns of its payload; the price is the dish's own,
\* whatever its sizes cost.
MoveItem(d, i, c) == [d EXCEPT !.under[i] = c]
RepriceItem(d, i, price) == [d EXCEPT !.price[i] = price]
SetDiet(d, i, diet) == [d EXCEPT !.diet[i] = diet]
SetAvailable(d, i, yes) == [d EXCEPT !.available[i] = yes]

replace_item_modifiers(d, i, sizes, toppings) ==
  [d EXCEPT !.sizes[i] = normalize_variations(sizes), !.toppings[i] = toppings,
            !.price[i] = base_price_from_variations(sizes, @)]

\* Mutant of Detached: the order lines go with the dish.
LinesDeleted(d, gone) ==
  [d EXCEPT !.line = [l \in DOMAIN @ |-> IF @[l].dish \in gone THEN [@[l] EXCEPT !.state = "none"]
                                         ELSE @[l]]]

\* Order lines lose their dish and keep what they were sold as.
Detached(d, gone) ==
  [d EXCEPT !.line = [l \in DOMAIN @ |-> IF @[l].dish \in gone THEN [@[l] EXCEPT !.dish = "nothing"]
                                         ELSE @[l]]]

\* ON DELETE CASCADE of outlet_tax_profile_items
Unruled(d, gone) ==
  [d EXCEPT !.rules = [k \in DOMAIN @ |-> [@[k] EXCEPT !.dishes = d.rules[k].dishes \ gone]]]

DeleteDishes(d, gone) ==
  [Unruled(Detached(d, gone), gone) EXCEPT
     !.dish = [i \in Dish |-> IF i \in gone THEN "deleted" ELSE @[i]]]

delete_item(d, i) == DeleteDishes(d, {i})

delete_category(d, c) ==
  [DeleteDishes(d, {i \in LiveDishes(d) : d.under[i] = c}) EXCEPT !.category[c] = "deleted"]

-----------------------------------------------------------------------------
(* From a dish to an order line *)

DietIn(dish, own) == IF own = "same" THEN dish ELSE own

AvailableSizes(sizes) == {k \in DOMAIN sizes : sizes[k].available}

\* The size the till takes when none is asked for: the default, else one with
\* the dish's diet, else the first. Sizes of equal sort order come in any order.
pick_default_variation(diet, sizes) ==
  LET open == AvailableSizes(sizes)
      default == open \cap Defaults(sizes)
      alike == {k \in open : DietIn(diet, sizes[k].diet) = diet}
  IN IF default # {} THEN default ELSE IF alike # {} THEN alike ELSE open

\* The sizes an order for size k of dish i (0: none asked for) may get; 0 is
\* the price of a dish without sizes.
ResolvedSizes(d, i, k) ==
  IF k # 0 THEN {k} \cap AvailableSizes(d.sizes[i])
  ELSE IF d.sizes[i] = << >> THEN {0}
  ELSE pick_default_variation(d.diet[i], d.sizes[i])

\* Each topping is there, and the group has as many as it asks for.
MayTop(group, chosen) ==
  /\ \A k \in chosen : group.rows[k].available
  /\ group.min <= Cardinality(chosen)
  /\ group.max = 0 \/ Cardinality(chosen) <= group.max

UnitPrice(d, i, k) == IF k = 0 THEN d.price[i] ELSE d.sizes[i][k].price

ToppingsTotal(d, i, chosen) ==
  LET rows == d.toppings[i].rows
  IN SumFunctionOnSet([k \in DOMAIN rows |-> rows[k].price], chosen)

\* Non-veg wins over egg, egg over veg.
effective_food_type(d, i, k, chosen) ==
  LET diets == {IF k = 0 THEN d.diet[i] ELSE DietIn(d.diet[i], d.sizes[i][k].diet)}
               \cup {DietIn(d.diet[i], d.toppings[i].rows[t].diet) : t \in chosen}
  IN IF "NON_VEG" \in diets THEN "NON_VEG" ELSE IF "EGG" \in diets THEN "EGG" ELSE "VEG"
=============================================================================
