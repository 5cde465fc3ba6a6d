-------------------------------- MODULE TaxRules --------------------------------
(***************************************************************************)
(* The tax rules of an outlet and the requests that edit them:             *)
(* app/services/owner/tax_service.py. Operators on the rows of an outlet;  *)
(* d.rules is the sequence of its rules by sort order, then age.           *)
(***************************************************************************)
EXTENDS TaxEngine

CONSTANTS TaxedDish,  \* identities of dishes
          OrderType

GstSlab == {"gst_5", "gst_18", "gst_40", "igst", "custom"}

\* What the columns of a rule hold.
RuleColumn == [scheme |-> {"gst", "vat", "other"}, slab |-> GstSlab \cup {"none"}, rate |-> Nat,
               cgst |-> Nat, sgst |-> Nat, igst |-> Nat, method |-> Method,
               types |-> SUBSET OrderType, active |-> BOOLEAN, dishes |-> SUBSET TaxedDish,
               sort |-> Nat]

\* A row of some columns of a rule, those a new one is asked for with, and all.
OfRule(row) == \A c \in DOMAIN row : c \in DOMAIN RuleColumn /\ row[c] \in RuleColumn[c]

AskedColumns == {"scheme", "slab", "rate", "method", "types", "active", "dishes"}

IsRule(row) == DOMAIN row = DOMAIN RuleColumn /\ OfRule(row)

\* The columns of new, and of row those that new does not have.
new ++ row == [c \in DOMAIN new \cup DOMAIN row |-> IF c \in DOMAIN new THEN new[c] ELSE row[c]]

\* GST_SLABS, and the slabs every outlet gets with their place in its list.
SlabRate == [gst_5 |-> 500, gst_18 |-> 1800, gst_40 |-> 4000]

GstCatalog == <<[slab |-> "gst_5", rate |-> 500], [slab |-> "gst_18", rate |-> 1800],
                [slab |-> "gst_40", rate |-> 4000], [slab |-> "igst", rate |-> 500]>>

\* A slab has its rate; integrated and custom GST, VAT and others have theirs.
fill_rates(scheme, slab, rate) ==
  LET r == IF scheme = "gst" /\ slab \in DOMAIN SlabRate THEN SlabRate[slab] ELSE rate
  IN [rate |-> r] ++ fill_gst_split(scheme, slab, r)

\* Rows come by sort order; of two with the same, the older one is first.
Inserted(rules, row) ==
  InsertAt(rules, Cardinality({k \in DOMAIN rules : rules[k].sort <= row.sort}) + 1, row)

next_sort(rules) == IF rules = << >> THEN 0 ELSE rules[Len(rules)].sort + 1

\* Mutant of deactivate_other_gst: the others stay as they are.
KeepOtherGst(rules, row) == rules

deactivate_other_gst(rules, row) ==
  IF row.scheme = "gst" /\ row.active
  THEN [k \in DOMAIN rules |-> IF rules[k].scheme = "gst" THEN [rules[k] EXCEPT !.active = FALSE]
                               ELSE rules[k]]
  ELSE rules

\* VAT and others need dishes, all of them on the menu.
MayRule(scheme, dishes, onMenu) == scheme = "gst" \/ (dishes # {} /\ dishes \subseteq onMenu)

create(d, new) ==
  LET row == fill_rates(new.scheme, new.slab, new.rate)
             ++ [scheme |-> new.scheme, slab |-> IF new.scheme = "gst" THEN new.slab ELSE "none",
                 method |-> new.method, types |-> new.types, active |-> new.active,
                 dishes |-> IF new.scheme = "gst" THEN {} ELSE new.dishes,
                 sort |-> next_sort(d.rules)]
  IN [d EXCEPT !.rules = Append(deactivate_other_gst(@, row), row)]

\* A change has some of a rule's columns; a new scheme, slab or rate fills the
\* parts the change does not have.
Updated(row, data) ==
  LET asked == data ++ row
      filled == fill_rates(asked.scheme, asked.slab, asked.rate)
  IN IF DOMAIN data \cap {"scheme", "slab", "rate"} = {} THEN asked
     ELSE [rate |-> filled.rate] ++ data ++ filled ++ row

\* What a change makes of the dishes of a rule: GST forgets them when asked.
DishesAfter(row, data) ==
  IF (data ++ row).scheme = "gst" /\ "dishes" \in DOMAIN data THEN {} ELSE (data ++ row).dishes

MayUpdate(row, data, onMenu) ==
  /\ (data ++ row).types # {}
  /\ MayRule((data ++ row).scheme, DishesAfter(row, data), onMenu)

update(d, k, data) ==
  LET row == [Updated(d.rules[k], data) EXCEPT !.dishes = DishesAfter(d.rules[k], data)]
  IN [d EXCEPT !.rules = [deactivate_other_gst(@, row) EXCEPT ![k] = row]]

delete(d, k) == [d EXCEPT !.rules = RemoveAt(@, k)]

set_enabled(d, yes) == [d EXCEPT !.rules = [k \in DOMAIN @ |-> [@[k] EXCEPT !.active = yes]]]

\* Listing the rules adds the slabs that are missing, switched off.
ensure_gst_catalog(d) ==
  LET has == {d.rules[k].slab : k \in {i \in DOMAIN d.rules : d.rules[i].scheme = "gst"}}
      row(k) == [scheme |-> "gst", slab |-> GstCatalog[k].slab, method |-> "forward",
                 types |-> OrderType, active |-> FALSE, dishes |-> {}, sort |-> k - 1]
                ++ fill_rates("gst", GstCatalog[k].slab, GstCatalog[k].rate)
      add(rules, k) == IF GstCatalog[k].slab \in has THEN rules ELSE Inserted(rules, row(k))
  IN [d EXCEPT !.rules = add(add(add(add(@, 1), 2), 3), 4)]

matching_profiles(d, type) ==
  {k \in DOMAIN d.rules : d.rules[k].active /\ applies_to_order(d.rules[k], type)}
=============================================================================
