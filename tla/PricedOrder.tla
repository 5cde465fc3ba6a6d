------------------------------- MODULE PricedOrder -------------------------------
(***************************************************************************)
(* One order of an outlet while its menu and its tax rules are edited: the *)
(* dishes become lines, the lines, the discount and the taxes become the   *)
(* bill (order_service.py). Requests run one at a time; what overlapping   *)
(* requests do to lines and bills is the subject of BillSettlement.        *)
(***************************************************************************)
EXTENDS MenuCatalogue, TaxRules

CONSTANTS Line,       \* identities of order lines
          Price,      \* prices of dishes and of open items
          Charge,     \* the table-time charges a session may lead to
          SizeList,   \* the sizes a dish may be given
          Topping,    \* the groups of toppings a dish may be given
          NewRule,    \* the rules that may be asked for
          RuleChange, \* the changes to a rule that may be asked for
          Preview,    \* what a bill may be asked with: discount, tip, rounding, taxes
          Policy,     \* the discount caps the owner may set
          NewDiet,    \* the diets a dish may be given
          MaxMenu, MaxTax, MaxOrder, MaxPolicy, \* bounds on the requests of a behaviour, by kind,
          MaxRequests                 \* and of all of them

ASSUME PricingAssumption ==
  /\ IsFiniteSet(Line)
  /\ TaxedDish = Dish /\ "nothing" \notin Dish
  /\ Price \subseteq Nat /\ Charge \subseteq Nat /\ NewDiet \subseteq Diet
  /\ SizeList \subseteq Seq(SizeRow) /\ Topping \subseteq ToppingGroup
  /\ \A new \in NewRule : OfRule(new) /\ DOMAIN new = AskedColumns
  /\ \A data \in RuleChange : OfRule(data) /\ "sort" \notin DOMAIN data
  /\ \A p \in Preview : /\ p.amount \in Nat /\ p.percent \in 0 .. Hundred /\ p.tip \in Nat
                         /\ p.taxes \in BOOLEAN /\ p.rounds \in BOOLEAN
  /\ \A caps \in Policy : caps.max \in 0 .. Hundred /\ caps.worker \in 0 .. Hundred
  /\ MaxMenu \in Nat /\ MaxTax \in Nat /\ MaxOrder \in Nat /\ MaxPolicy \in Nat
  /\ MaxRequests \in Nat

VARIABLES db,       \* the committed rows
          policy,   \* the discount caps, and whether a manager PIN is set
          made,     \* made[k]: how many requests of kind k were made
          repriced, \* dishes whose price was edited since their sizes were set (history)
          switched, \* whether all taxes were ever switched on together (history)
          asked,    \* whether the bill was last asked for with taxes, and the rules
                    \* are as they were then (history)
          granted,  \* whether the bill was last asked for when the order cost something,
                    \* and since then the order never became cheaper and the cap was
                    \* not lowered (history)
          beyond    \* since the open bill was last computed, what the line removed then
                    \* cost and what table time became cheaper by (history)

pricingVars == <<db, policy, made, repriced, switched, asked, granted, beyond>>

LineRow == [state : {"none", "active", "cancelled"}, dish : Dish \cup {"nothing"},
            open : BOOLEAN, each : Nat, quantity : Nat, diet : Diet]

\* percent is the discount's, method the tax's ("none": no tax applied).
BillRow == [state : {"none", "open", "settled"}, subtotal : Nat, discount : Nat, percent : Nat,
            taxPercent : Nat, tax : Nat, cgst : Nat, sgst : Nat, igst : Nat,
            method : Method \cup {"none"}, tip : Nat, roundOff : Int, grand : Nat]

PricingTypeOK ==
  /\ [k \in DOMAIN db \ {"type", "charge", "line", "rules", "bill"} |-> db[k]] \in MenuRows
  /\ db.type \in OrderType /\ db.charge \in Nat /\ db.line \in [Line -> LineRow]
  /\ db.rules \in Seq(Range(db.rules)) /\ \A k \in DOMAIN db.rules : IsRule(db.rules[k])
  /\ db.bill \in BillRow
  /\ policy \in [max : 0 .. Hundred, worker : 0 .. Hundred, pin : BOOLEAN]
  /\ repriced \subseteq Dish
  /\ switched \in BOOLEAN /\ asked \in BOOLEAN /\ granted \in BOOLEAN
  /\ beyond \in Int

NoLine == [state |-> "none", dish |-> "nothing", open |-> FALSE, each |-> 0, quantity |-> 0,
           diet |-> "VEG"]

NoBill == [state |-> "none", subtotal |-> 0, discount |-> 0, percent |-> 0, taxPercent |-> 0,
           tax |-> 0, cgst |-> 0, sgst |-> 0, igst |-> 0, method |-> "none", tip |-> 0,
           roundOff |-> 0, grand |-> 0]

-----------------------------------------------------------------------------
(* The bill of the rows d *)

line_total(row) == row.each * row.quantity

Active(d) == {l \in Line : d.line[l].state = "active"}

\* order_effective_subtotal: the lines, and the time at the table.
Subtotal(d) == SumFunctionOnSet([l \in Line |-> line_total(d.line[l])], Active(d)) + d.charge

\* The lines as the rules for dishes see them, each with its share of the
\* discount. (Table time is of no dish: such a rule never taxes it.)
LineTaxables(d, taxable) ==
  {[line |-> l, dish |-> d.line[l].dish,
    amount |-> money(line_total(d.line[l]) * taxable, Subtotal(d))] : l \in Active(d)}

TaxOn(d, taxable) ==
  compute_for_bill(taxable, IF Subtotal(d) = 0 THEN {} ELSE LineTaxables(d, taxable),
                   d.rules, matching_profiles(d, d.type))

\* To the rupee, ties to the even one.
RoundOff(pays) == 100 * money(pays, 100) - pays

\* What a bill says of a discount and a tax.
AmountsWith(d, p, discount, tax) ==
  LET pays == guest_pays(Subtotal(d) - discount, tax, p.tip)
      off == IF p.rounds THEN RoundOff(pays) ELSE 0
  IN [subtotal |-> Subtotal(d), discount |-> discount, percent |-> p.percent,
      taxPercent |-> tax.percent, tax |-> tax.amount,
      cgst |-> tax.cgst, sgst |-> tax.sgst, igst |-> tax.igst,
      method |-> IF tax.applied THEN tax.method ELSE "none",
      tip |-> p.tip, roundOff |-> off, grand |-> pays + off]

bill_amounts(d, p) ==
  LET discount == DiscountOf(Subtotal(d), p.amount, p.percent)
  IN AmountsWith(d, p, discount,
                 IF p.taxes THEN TaxOn(d, Subtotal(d) - discount) ELSE NoTax)

Billed(d, p, state) == [d EXCEPT !.bill = [state |-> state] ++ bill_amounts(d, p)]

\* Mutant of Refreshed: cancelling or adding a line leaves the bill alone.
LeftAlone(d, state) == [d EXCEPT !.bill.state = state]

\* A bill is computed again from what it holds: taxes if there were any.
Refreshed(d, state) ==
  LET b == d.bill
  IN Billed(d, [amount |-> IF b.percent > 0 THEN 0 ELSE b.discount, percent |-> b.percent,
                taxes |-> b.method # "none" \/ b.tax > 0 \/ b.taxPercent > 0,
                tip |-> b.tip, rounds |-> TRUE], state)

maybe_refresh_open_bill(d) == IF d.bill.state = "open" THEN Refreshed(d, "open") ELSE d

-----------------------------------------------------------------------------
(* The settings row of the business *)

\* It is inserted with these columns when it is first looked for.
DefaultPolicy == [max |-> 5000, worker |-> 1000, pin |-> FALSE]

\* Whoever knows the PIN, once there is one.
verify_manager_pin(knowsPin) == policy.pin /\ knowsPin

-----------------------------------------------------------------------------
(* Requests *)

\* Outlets start with a category and a dish on the menu, and no tax rules.
PricingInit ==
  /\ \E c \in Category, i \in Dish, n \in CategoryName, price \in Price, kind \in OrderType :
       db = create_item(
              create_category(
                [category |-> [k \in Category |-> "unused"], name |-> [k \in Category |-> n],
                 dish |-> [k \in Dish |-> "unused"], under |-> [k \in Dish |-> c],
                 price |-> [k \in Dish |-> 0], diet |-> [k \in Dish |-> "VEG"],
                 available |-> [k \in Dish |-> TRUE], sizes |-> [k \in Dish |-> << >>],
                 toppings |-> [k \in Dish |-> NoToppings],
                 type |-> kind, charge |-> 0, line |-> [l \in Line |-> NoLine],
                 rules |-> << >>, bill |-> NoBill], c, n), i, c, price, "VEG", << >>, NoToppings)
  /\ policy = DefaultPolicy
  /\ made = [k \in {"menu", "tax", "order", "policy"} |-> 0]
  /\ repriced = {}
  /\ switched = FALSE
  /\ asked = FALSE
  /\ granted = FALSE
  /\ beyond = 0

RequestsLeft == made["menu"] + made["tax"] + made["order"] + made["policy"] < MaxRequests

\* A request of a kind that leaves the rows as new.
Request(kind, new) ==
  /\ made[kind] < CASE kind = "menu" -> MaxMenu [] kind = "tax" -> MaxTax
                     [] kind = "policy" -> MaxPolicy [] OTHER -> MaxOrder
  /\ db' = new
  /\ made' = [made EXCEPT ![kind] = @ + 1]

MenuRequest(new) ==
  Request("menu", new) /\ UNCHANGED <<policy, repriced, switched, asked, granted, beyond>>

CreateCategory(c, n) ==
  /\ db.category[c] = "unused" /\ NameFree(db, n, {})
  /\ MenuRequest(create_category(db, c, n))

UpdateCategory(c, n) ==
  /\ c \in LiveCategories(db) /\ NameFree(db, n, {c})
  /\ MenuRequest(update_category(db, c, n))

DeleteCategory(c) == c \in LiveCategories(db) /\ MenuRequest(delete_category(db, c))

CreateItem(i, c, price, diet, sizes, toppings) ==
  /\ db.dish[i] = "unused" /\ c \in LiveCategories(db) /\ MayNormalize(sizes)
  /\ MenuRequest(create_item(db, i, c, price, diet, sizes, toppings))

UpdateItem(i) ==
  /\ i \in LiveDishes(db)
  /\ \/ \E c \in LiveCategories(db) : MenuRequest(MoveItem(db, i, c))
     \/ \E diet \in NewDiet : MenuRequest(SetDiet(db, i, diet))
     \/ \E yes \in BOOLEAN : MenuRequest(SetAvailable(db, i, yes))
     \/ \E price \in Price :
          /\ Request("menu", RepriceItem(db, i, price))
          /\ repriced' = repriced \cup {i}
          /\ UNCHANGED <<policy, switched, asked, granted, beyond>>

\* Without sizes the price stays, and so does what is known of it.
ReplaceItemModifiers(i, sizes, toppings) ==
  /\ i \in LiveDishes(db) /\ MayNormalize(sizes)
  /\ Request("menu", replace_item_modifiers(db, i, sizes, toppings))
  /\ repriced' = IF sizes = << >> THEN repriced ELSE repriced \ {i}
  /\ UNCHANGED <<policy, switched, asked, granted, beyond>>

DeleteItem(i) == i \in LiveDishes(db) /\ MenuRequest(delete_item(db, i))

TaxRequest(new) ==
  /\ Request("tax", new)
  /\ asked' = FALSE
  /\ UNCHANGED <<policy, repriced, granted, beyond>>

ListRules ==
  /\ db # ensure_gst_catalog(db)
  /\ TaxRequest(ensure_gst_catalog(db)) /\ UNCHANGED switched

CreateRule(new) ==
  /\ MayRule(new.scheme, new.dishes, LiveDishes(db))
  /\ TaxRequest(create(db, new)) /\ UNCHANGED switched

UpdateRule(k, data) ==
  /\ MayUpdate(db.rules[k], data, LiveDishes(db))
  /\ TaxRequest(update(db, k, data)) /\ UNCHANGED switched

DeleteRule(k) == TaxRequest(delete(db, k)) /\ UNCHANGED switched

SetEnabled(yes) ==
  /\ db.rules # << >>
  /\ TaxRequest(set_enabled(db, yes))
  /\ switched' = (switched \/ yes)

\* update_policy, by an owner.
UpdatePolicy(max, worker) ==
  /\ Request("policy", db)
  /\ policy' = [policy EXCEPT !.max = max, !.worker = worker]
  /\ granted' = (granted /\ max >= policy.max)
  /\ UNCHANGED <<repriced, switched, asked, beyond>>

SetManagerPin ==
  /\ ~ policy.pin
  /\ Request("policy", db)
  /\ policy' = [policy EXCEPT !.pin = TRUE]
  /\ UNCHANGED <<repriced, switched, asked, granted, beyond>>

OrderRequest(new) ==
  /\ db.bill.state # "settled"
  /\ Request("order", new)
  /\ UNCHANGED <<policy, repriced, switched>>

\* A request that does not ask for the bill, and leaves it counting more than the
\* order costs.
StalingRequest(new, more) ==
  /\ OrderRequest(new)
  /\ granted' = (granted /\ Subtotal(new) >= Subtotal(db))
  /\ beyond' = IF db.bill.state = "open" THEN more ELSE 0
  /\ UNCHANGED asked

\* One that leaves no outdated bill.
LineRequest(new) == StalingRequest(new, 0)

WithLine(l, row) == maybe_refresh_open_bill([db EXCEPT !.line[l] = row])

\* add_line: a dish in one of its sizes, with toppings.
AddLine(l, i, k, quantity) ==
  /\ db.line[l].state = "none"
  /\ i \in LiveDishes(db) /\ db.available[i]
  /\ \E size \in ResolvedSizes(db, i, k), chosen \in SUBSET (DOMAIN db.toppings[i].rows) :
       /\ MayTop(db.toppings[i], chosen)
       /\ LineRequest(WithLine(l,
            [state |-> "active", dish |-> i, open |-> FALSE,
             each |-> UnitPrice(db, i, size) + ToppingsTotal(db, i, chosen),
             quantity |-> quantity, diet |-> effective_food_type(db, i, size, chosen)]))

\* add_open_line: at a price of its own, a dish of the menu or none.
AddOpenLine(l, i, price, quantity) ==
  /\ db.line[l].state = "none" /\ price > 0
  /\ i \in LiveDishes(db) \cup {"nothing"}
  /\ LineRequest(WithLine(l, [state |-> "active", dish |-> i, open |-> TRUE, each |-> price,
                               quantity |-> quantity,
                               diet |-> IF i = "nothing" THEN "VEG" ELSE db.diet[i]]))

\* update_line: the price of open items only.
UpdateLine(l, price, quantity) ==
  LET row == db.line[l]
  IN /\ row.state = "active"
     /\ price = row.each \/ (row.open /\ price > 0)
     /\ LineRequest(WithLine(l, [row EXCEPT !.each = price, !.quantity = quantity]))

CancelLine(l) ==
  /\ db.line[l].state = "active"
  /\ LineRequest(WithLine(l, [db.line[l] EXCEPT !.state = "cancelled"]))

\* remove_line: the DELETE is not flushed (autoflush is off) when the open bill is
\* computed again, so the bill still counts the line. (Lines that were sent to the
\* kitchen, which stay, are not told apart here.)
RemoveLine(l) ==
  /\ db.line[l].state = "active"
  /\ StalingRequest([maybe_refresh_open_bill(db) EXCEPT !.line[l] = NoLine],
                    line_total(db.line[l]))

\* update_order: another type of order, which other rules may tax, and another
\* charge for table time (TableTime says which). The open bill is left as it is.
UpdateTypeAndTime(type, charge) ==
  StalingRequest([db EXCEPT !.type = type, !.charge = charge], beyond + db.charge - charge)

\* Taxes, discount and tip as asked; the discount within the policy.
Asked(p, role, knowsPin, state) ==
  /\ assert_discount_allowed(policy, role, Subtotal(db), p.amount, p.percent,
                             verify_manager_pin(knowsPin))
  /\ OrderRequest(Billed(db, p, state))
  /\ asked' = p.taxes
  /\ granted' = (Subtotal(db) > 0)
  /\ beyond' = 0

CreateOrRefreshBill(p, role, knowsPin) ==
  /\ Active(db) # {} \/ db.charge > 0
  /\ Asked(p, role, knowsPin, "open")

\* settle_bill, paid in full.
SettleBill(p, role, knowsPin) ==
  db.bill.state = "open" /\ Asked(p, role, knowsPin, "settled")

\* add_bill_payment of all that is due, after computing the bill again.
PayInFull ==
  /\ db.bill.state = "open"
  /\ Refreshed(db, "settled").bill.grand > 0
  /\ LineRequest(Refreshed(db, "settled"))

PricingNext ==
  /\ RequestsLeft
  /\ \/ \E c \in Category : DeleteCategory(c) \/ \E n \in CategoryName :
                               CreateCategory(c, n) \/ UpdateCategory(c, n)
     \/ \E i \in Dish :
          \/ UpdateItem(i) \/ DeleteItem(i)
          \/ \E sizes \in SizeList, toppings \in Topping :
               \/ ReplaceItemModifiers(i, sizes, toppings)
               \/ \E c \in Category, price \in Price, diet \in NewDiet :
                    CreateItem(i, c, price, diet, sizes, toppings)
     \/ ListRules
     \/ \E new \in NewRule : CreateRule(new)
     \/ \E k \in DOMAIN db.rules : DeleteRule(k) \/ \E data \in RuleChange : UpdateRule(k, data)
     \/ \E yes \in BOOLEAN : SetEnabled(yes)
     \/ \E l \in Line :
          \/ CancelLine(l) \/ RemoveLine(l)
          \/ \E i \in Dish, k \in 0 .. 2, n \in 1 .. 2 : AddLine(l, i, k, n)
          \/ \E price \in Price \cup {db.line[l].each}, n \in 1 .. 2 : UpdateLine(l, price, n)
          \/ \E i \in Dish \cup {"nothing"}, price \in Price, n \in 1 .. 2 :
               AddOpenLine(l, i, price, n)
     \/ \E type \in OrderType, charge \in Charge : UpdateTypeAndTime(type, charge)
     \/ \E caps \in Policy : UpdatePolicy(caps.max, caps.worker)
     \/ SetManagerPin
     \/ \E p \in Preview, role \in {"OWNER", "EMPLOYEE"}, knowsPin \in BOOLEAN :
          CreateOrRefreshBill(p, role, knowsPin) \/ SettleBill(p, role, knowsPin)
     \/ PayInFull

PricingSpec == PricingInit /\ [][PricingNext]_pricingVars

-----------------------------------------------------------------------------
(* Properties *)

\* Orders are billed as they were sold: a settled bill adds up the order's lines
\* and its table time, and no edit or deletion of categories and dishes changes
\* what they add up to. The open bill does so too, but for a line removed when it
\* was last computed and for what table time changed since: whatever the order
\* goes through, it is wrong by no more, and settling puts it right.
BilledHistoryKept ==
  /\ db.bill.state = "settled" => db.bill.subtotal = Subtotal(db)
  /\ db.bill.state = "open" => db.bill.subtotal = Subtotal(db) + beyond

\* A dish with sizes that is ordered without naming one is charged at the price
\* the menu shows for it, as long as its default size is to be had and its price
\* was not edited since its sizes were set.
ShownPriceCharged ==
  \A i \in LiveDishes(db) \ repriced :
    Defaults(db.sizes[i]) \cap AvailableSizes(db.sizes[i]) # {} =>
      \A k \in ResolvedSizes(db, i, 0) : UnitPrice(db, i, k) = db.price[i]

\* What is taxed when the bill is computed again: the order less the discount.
TaxableNow ==
  Subtotal(db) - DiscountOf(Subtotal(db), db.bill.discount, db.bill.percent)

RulesNow == Charging(db.rules, matching_profiles(db, db.type))

GstNow == {k \in RulesNow : db.rules[k].scheme = "gst"}

GstTax == compute_from_profiles(TaxableNow, db.rules, GstNow)

InclusiveGst == GstNow # {} /\ GstTax.method = "backward"

\* The parts of a tax, central, state and integrated, add up to it: to no more
\* than the tax, and to no less when every rule that charges has parts. Only
\* when several GST rules share an inclusive tax may the parts be more, by half
\* a paisa for every rule but one (rounded down: by nothing for two rules).
PartsOfTax ==
  LET tax == TaxOn(db, TaxableNow)
      parts == tax.cgst + tax.sgst + tax.igst
      spare == IF InclusiveGst THEN Cardinality(GstNow) - 1 ELSE 0
  IN /\ 2 * parts <= 2 * tax.amount + spare
     /\ (\A k \in RulesNow : db.rules[k].cgst + db.rules[k].sgst + db.rules[k].igst > 0)
          => parts >= tax.amount

\* Putting the tax back on what an inclusive price is without it gives the
\* price back, to the paisa (and one more for every 200 % that the rules add up
\* to); an exclusive tax is within half a paisa a rule of the exact one; and tax
\* on tax is no less.
GstNearExact ==
  LET rate == CombinedRate(db.rules, GstNow)
      net == TaxableNow - GstTax.amount
      near == 1 + rate \div (2 * Hundred)
      spare == Hundred * Cardinality(GstNow)
      onTop == ChargeOnTop(TaxableNow, db.rules, GstNow, "forward")
  IN GstNow # {} =>
       /\ InclusiveGst => net + money(net * rate, Hundred) - TaxableNow \in -near .. near
       /\ GstTax.method = "forward" =>
            2 * Hundred * GstTax.amount - 2 * TaxableNow * rate \in -spare .. spare
       /\ GstTax.method = "tax_on_tax" => GstTax.amount >= onTop[Len(db.rules)]

\* "VAT / other hits only the dishes linked to that rule": what these rules add
\* is at most their rate on what the linked dishes cost, half a paisa a rule.
DishRulesOnlyTheirDishes ==
  LET extra == TaxOn(db, TaxableNow).amount - GstTax.amount
      linked(k) == {l \in Active(db) : db.line[l].dish \in db.rules[k].dishes}
      cost(k) == SumFunction([l \in linked(k) |-> line_total(db.line[l])])
  IN 2 * Hundred * extra
       <= SumFunction([k \in RulesNow \ GstNow |-> 2 * db.rules[k].rate * cost(k) + Hundred])

\* Unless all taxes were switched on together, at most one GST rule is active,
\* whatever rules are created, changed, deleted and listed.
OneGstRate ==
  ~ switched =>
    Cardinality({k \in DOMAIN db.rules : db.rules[k].scheme = "gst" /\ db.rules[k].active}) <= 1

\* What the taxes come to: their parts add up, GST is near the exact amount, and
\* rules for dishes tax no others, whatever lines, discounts and rules.
TaxesAddUp == PartsOfTax /\ GstNearExact /\ DishRulesOnlyTheirDishes

\* A discount granted on an order that cost something stays within the cap it was
\* granted under, to the rounding of the percentage and of the paisa, whatever
\* lines and table time are added, whatever menu, taxes and worker's cap are edited and however
\* the bill is computed again: only an order that became cheaper or a cap that was
\* lowered since takes it beyond. (On an order that costs nothing yet, any
\* percentage passes, and stays in the bill when lines are added.)
DiscountWithinCap ==
  db.bill.state # "none" /\ granted =>
    2 * Hundred * db.bill.discount <= (2 * policy.max + 1) * db.bill.subtotal + Hundred

\* The lines a bill counts when they become after: the removed ones as before.
Counted(before, after) ==
  [l \in Line |-> IF after[l] = NoLine THEN before[l] ELSE after[l]]

\* A bill that was asked for with taxes and has some is charged, by any request
\* that changes the order's lines, what the rules charge on them; one that removes
\* a line charges it a last time. (A bill that has no tax when it is computed is
\* computed without taxes ever after, though a taxed dish is added; and update_order,
\* which changes no line, leaves the tax as it is, whatever the new type is taxed.)
TaxedBillStaysTaxed ==
  [][(asked /\ db.bill.tax > 0 /\ db.bill.state = "open" /\ db'.line # db.line /\ made'["order"] # made["order"])
       => db'.bill.tax = TaxOn([db' EXCEPT !.line = Counted(db.line, db'.line)],
                               db'.bill.subtotal - db'.bill.discount).amount]_pricingVars
=============================================================================
