-------------------------------- MODULE TaxEngine --------------------------------
(***************************************************************************)
(* What a bill adds for taxes: app/services/owner/tax_engine.py, with the  *)
(* money arithmetic of order_pricing.py. Amounts are in paise and rates in *)
(* hundredths of a percent, both as the code's two decimals; titles are    *)
(* left out. A rule is a row of outlet_tax_profiles; rules is the sequence *)
(* of an outlet's, in their sort order, and K the positions in it of those *)
(* that are asked about.                                                   *)
(***************************************************************************)
EXTENDS Integers, Sequences, SequencesExt, FiniteSetsExt

Hundred == 10000

\* a / b to two decimals, ties to the even neighbour (Decimal.quantize).
money(a, b) ==
  LET q == a \div b
      r == a % b
  IN IF 2 * r > b \/ (2 * r = b /\ q % 2 = 1) THEN q + 1 ELSE q

Method == {"forward", "backward", "tax_on_tax"}

NoTax == [percent |-> 0, amount |-> 0, cgst |-> 0, sgst |-> 0, igst |-> 0,
          method |-> "forward", applied |-> FALSE, added |-> 0]

applies_to_order(p, type) == type \in p.types

\* The parts of a GST rate: all of it integrated, or half central and the
\* rest for the state.
fill_gst_split(scheme, slab, rate) ==
  IF scheme # "gst" THEN [cgst |-> 0, sgst |-> 0, igst |-> 0]
  ELSE IF slab = "igst" THEN [cgst |-> 0, sgst |-> 0, igst |-> rate]
  ELSE [cgst |-> money(rate, 2), sgst |-> rate - money(rate, 2), igst |-> 0]

\* The rules at the positions K that charge: active, at a rate.
Charging(rules, K) == {k \in K : rules[k].active /\ rules[k].rate > 0}

\* Mutant of allocate_chunk: both halves are rounded, each on its own.
RoundBothHalves(p, chunk) ==
  LET parts == p.cgst + p.sgst + p.igst
  IN IF p.rate <= 0 \/ chunk <= 0 \/ parts <= 0 THEN [cgst |-> 0, sgst |-> 0, igst |-> 0]
     ELSE [cgst |-> money(chunk * p.cgst, parts), sgst |-> money(chunk * p.sgst, parts),
           igst |-> money(chunk * p.igst, parts)]

\* The parts of what a rule charges; a rule without parts has none.
allocate_chunk(p, chunk) ==
  LET parts == p.cgst + p.sgst + p.igst
      central == money(chunk * p.cgst, parts)
      state == money(chunk * p.sgst, parts)
  IN IF p.rate <= 0 \/ chunk <= 0 \/ parts <= 0 THEN [cgst |-> 0, sgst |-> 0, igst |-> 0]
     ELSE IF p.igst > 0 THEN [cgst |-> central, sgst |-> state, igst |-> chunk - central - state]
     ELSE [cgst |-> central, sgst |-> chunk - central, igst |-> 0]

\* An inclusive tax is shared between the rules, the last one taking the rest.
split_amounts(rules, K, amount, rate) ==
  LET share(k) == money(amount * rules[k].rate, rate)
  IN [k \in K |-> IF k # Max(K) THEN share(k)
                  ELSE amount - SumFunction([i \in K \ {k} |-> share(i)])]

\* An exclusive tax: charged[k] is what the rules up to k charge, each on the
\* price or, tax on tax, on the price with the taxes before it.
ChargeOnTop(taxable, rules, K, method) ==
  LET charged[k \in 0 .. Len(rules)] ==
        IF k = 0 THEN 0
        ELSE IF k \notin K THEN charged[k - 1]
        ELSE LET before == charged[k - 1]
                 base == IF method = "tax_on_tax" THEN taxable + before ELSE taxable
             IN before + money(base * rules[k].rate, Hundred)
  IN charged

\* What a price that includes taxes at a rate includes.
Inclusive(taxable, rate) == money(taxable * rate, Hundred + rate)

CombinedRate(rules, K) == SumFunction([k \in K |-> rules[k].rate])

\* What each of the rules charges.
Chunks(taxable, rules, K, method) ==
  LET rate == CombinedRate(rules, K)
      charged == ChargeOnTop(taxable, rules, K, method)
  IN IF method = "backward" THEN split_amounts(rules, K, Inclusive(taxable, rate), rate)
     ELSE [k \in K |-> charged[k] - charged[k - 1]]

\* What they charge together, and its parts; the first rule's method is everyone's.
compute_from_profiles(taxable, rules, K) ==
  LET on == Charging(rules, K)
      method == rules[Min(on)].method
      rate == CombinedRate(rules, on)
      amount == IF method = "backward" THEN Inclusive(taxable, rate)
                ELSE ChargeOnTop(taxable, rules, on, method)[Len(rules)]
      chunk == Chunks(taxable, rules, on, method)
      part == [k \in on |-> allocate_chunk(rules[k], chunk[k])]
  IN IF on = {} THEN NoTax
     ELSE [percent |-> rate, amount |-> amount,
           cgst |-> SumFunction([k \in on |-> part[k].cgst]),
           sgst |-> SumFunction([k \in on |-> part[k].sgst]),
           igst |-> SumFunction([k \in on |-> part[k].igst]),
           method |-> method, applied |-> amount > 0,
           added |-> IF method = "backward" THEN 0 ELSE amount]

merge_tax(left, right) ==
  IF ~ right.applied THEN left
  ELSE IF ~ left.applied THEN right
  ELSE [left EXCEPT !.percent = @ + right.percent, !.amount = @ + right.amount,
                    !.cgst = @ + right.cgst, !.sgst = @ + right.sgst, !.igst = @ + right.igst,
                    !.added = @ + right.added]

\* What a rule for dishes taxes: the lines of its dishes.
RuleBase(rule, lines) ==
  SumFunction([l \in {line \in lines : line.dish \in rule.dishes} |-> l.amount])

\* GST on the whole bill, then every other rule on its own dishes.
compute_for_bill(taxable, lines, rules, K) ==
  LET on == Charging(rules, K)
      ofDishes == {k \in on : rules[k].scheme # "gst" /\ rules[k].dishes # {}}
      tax[k \in 0 .. Len(rules)] ==
        IF k = 0 THEN compute_from_profiles(taxable, rules, {i \in on : rules[i].scheme = "gst"})
        ELSE IF k \notin ofDishes THEN tax[k - 1]
        ELSE merge_tax(tax[k - 1], compute_from_profiles(RuleBase(rules[k], lines), rules, {k}))
  IN tax[Len(rules)]

guest_pays(taxable, tax, tip) == taxable + tax.added + tip

-----------------------------------------------------------------------------
(* Discounts (compute_bill_totals, discount_policy.py) *)

\* What is taken off: a percentage wins over an amount, and neither exceeds
\* the subtotal.
DiscountOf(subtotal, amount, percent) ==
  LET asked == IF percent > 0 THEN money(subtotal * percent, Hundred) ELSE amount
  IN IF asked > subtotal THEN subtotal ELSE asked

\* Mutant of effective_discount_percent: an amount is no percentage.
PercentOnly(subtotal, amount, percent) == IF subtotal <= 0 THEN 0 ELSE percent

effective_discount_percent(subtotal, amount, percent) ==
  IF subtotal <= 0 THEN 0
  ELSE IF percent > 0 THEN percent
  ELSE IF amount <= 0 THEN 0
  ELSE money(amount * Hundred, subtotal)

\* The cap binds everyone; below it, workers need the manager above theirs.
assert_discount_allowed(policy, role, subtotal, amount, percent, managerAgrees) ==
  LET eff == effective_discount_percent(subtotal, amount, percent)
  IN \/ eff <= 0
     \/ /\ eff <= policy.max
        /\ role \in {"OWNER", "ADMIN"} \/ eff <= policy.worker \/ managerAgrees
=============================================================================
