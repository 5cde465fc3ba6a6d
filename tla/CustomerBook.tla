------------------------------ MODULE CustomerBook ------------------------------
(***************************************************************************)
(* The rows of the customer book of an outlet and what the services do to  *)
(* them in memory: app/services/owner/customer_service.py, the hooks of    *)
(* order_service.py that call it and app/services/owner/refund_service.py. *)
(* Every operator takes the rows d a session sees and returns the rows it  *)
(* is going to write; OutletBooks runs them as requests.                   *)
(*                                                                         *)
(* An order has one bill (BillSettlement is about several), so an order    *)
(* and its bill share a status. A mobile number is the digits of a         *)
(* subscriber, typed with or without the prefix of the country, or too few *)
(* digits. Names, addresses, tags and dates of visits are left out.        *)
(***************************************************************************)
EXTENDS Naturals, FiniteSets, Functions

CONSTANTS Order,      \* orders, each with its bill
          Customer,   \* identities of customer rows
          Phone,      \* subscribers' numbers, normalized
          Grand       \* Grand[o]: the grand total of the bill of o

ASSUME BookAssumption ==
  /\ IsFiniteSet(Order)
  /\ Grand \in [Order -> Nat \ {0}]
  /\ "none" \notin Phone /\ "few" \notin Phone
  /\ "nobody" \notin Customer

Typed == [digits : Phone, prefix : BOOLEAN]

NoNumber == [digits |-> "none", prefix |-> FALSE]

TooShort == [digits |-> "few", prefix |-> FALSE]

\* What the mobile column of an order or the field of a form may hold.
Mobile == Typed \cup {NoNumber, TooShort}

\* Mutant of normalize_phone: the prefix of the country stays.
KeepsPrefix(m) == IF m \in Typed THEN m ELSE NoNumber

\* Digits only, without +91 or 0; fewer than six digits are no number.
normalize_phone(m) == IF m \in Typed THEN [m EXCEPT !.prefix = FALSE] ELSE NoNumber

RowStatus == {"unused", "live", "deleted"}

Live(d) == {c \in Customer : d.rowStatus[c] = "live"}

Unused(d) == {c \in Customer : d.rowStatus[c] = "unused"}

\* _get_by_phone
Holders(d, p) == {c \in Live(d) : d.phone[c] = p}

-----------------------------------------------------------------------------
(* Statistics *)

SettledOrders(d, c) == {o \in Order : d.link[o] = c /\ d.status[o] = "SETTLED"}

Net(d, o) == Grand[o] - d.refunded[o]

Spend(d, c) == SumFunctionOnSet([o \in Order |-> Net(d, o)], SettledOrders(d, c))

\* The statistics of the customers in S, from the settled bills d shows.
refresh_stats(d, S) ==
  [d EXCEPT !.visits = [c \in Customer |-> IF c \in S \cap Live(d)
                                           THEN Cardinality(SettledOrders(d, c)) ELSE @[c]],
            !.spend = [c \in Customer |-> IF c \in S \cap Live(d)
                                          THEN Spend(d, c) ELSE @[c]]]

-----------------------------------------------------------------------------
(* Linking orders to customers *)

\* The numbers of the orders S that no customer has yet.
NewNumbers(d, S) ==
  {p \in {normalize_phone(d.mobile[o]) : o \in S} \ {NoNumber} : Holders(d, p) = {}}

\* new gives each of them a row of its own.
RowsFor(d, S, free) ==
  {new \in [NewNumbers(d, S) -> free] :
     \A p, q \in NewNumbers(d, S) : new[p] = new[q] => p = q}

\* The rows of new customers: no statistics yet.
Insert(d, new) ==
  [d EXCEPT !.rowStatus = [c \in Customer |-> IF \E p \in DOMAIN new : new[p] = c
                                              THEN "live" ELSE @[c]],
            !.phone = [c \in Customer |-> IF \E p \in DOMAIN new : new[p] = c
                                          THEN CHOOSE p \in DOMAIN new : new[p] = c
                                          ELSE @[c]]]

\* sync_order_customer for every order of S: an order with a number is linked
\* to the customer with that number, who is created when there is none; an
\* order without one keeps the link it has.
sync_order_customer(d, S, new) ==
  LET e == Insert(d, new)
      number(o) == normalize_phone(d.mobile[o])
      numbered == {o \in S : number(o) # NoNumber}
  IN [e EXCEPT !.mobile = [o \in Order |-> IF o \in numbered THEN number(o) ELSE @[o]],
               !.link = [o \in Order |-> IF o \in numbered
                                         THEN CHOOSE c \in Holders(e, number(o)) : TRUE
                                         ELSE @[o]]]

\* update_order, as far as the customer's fields go.
UpdateOrderCustomer(d, o, m, new) ==
  LET e == [d EXCEPT !.mobile[o] = m]
  IN IF m = NoNumber THEN [e EXCEPT !.link[o] = "nobody"]
     ELSE sync_order_customer(e, {o}, new)

\* The order whose settling may still have to be linked (_on_bill_settled).
ToLink(d, o) == IF d.link[o] = "nobody" /\ d.mobile[o] # NoNumber THEN {o} ELSE {}

\* Mutant of OnBillSettled: only orders linked just now are counted.
LinkOnly(d, o, new) ==
  IF ToLink(d, o) = {} THEN d
  ELSE LET e == sync_order_customer(d, ToLink(d, o), new) IN refresh_stats(e, {e.link[o]})

\* _on_bill_settled, after the bill and the order are marked as settled.
OnBillSettled(d, o, new) ==
  LET e == sync_order_customer(d, ToLink(d, o), new) IN refresh_stats(e, {e.link[o]})

-----------------------------------------------------------------------------
(* The customer pages *)

\* create_customer refuses a number another customer has.
MayCreate(d, m) ==
  LET p == normalize_phone(m) IN p = NoNumber \/ Holders(d, p) = {}

create_customer(d, m, c) ==
  [d EXCEPT !.rowStatus[c] = "live", !.phone[c] = normalize_phone(m)]

\* update_customer checks a number only when it changes.
MayRenumber(d, c, m) ==
  LET p == normalize_phone(m)
  IN p \in {d.phone[c], NoNumber} \/ Holders(d, p) = {}

update_customer(d, c, m) == [d EXCEPT !.phone[c] = normalize_phone(m)]

\* The foreign key of the orders is ON DELETE SET NULL.
Unlinked(d) ==
  [d EXCEPT !.link = [o \in Order |-> IF @[o] \in Live(d) THEN @[o] ELSE "nobody"]]

delete_customer(d, c) == Unlinked([d EXCEPT !.rowStatus[c] = "deleted"])

\* The orders backfill looks at: with a mobile, without a customer.
Unclaimed(d) == {o \in Order : d.link[o] = "nobody" /\ d.mobile[o] # NoNumber}

backfill(d, new) ==
  LET e == sync_order_customer(d, Unclaimed(d), new) IN refresh_stats(e, Live(e))

-----------------------------------------------------------------------------
(* Refunds *)

\* Mutant of MayRefund: the bill's total is the limit of every refund.
UpToGrand(d, o, amount) == d.status[o] = "SETTLED" /\ amount <= Grand[o]

MayRefund(d, o, amount) == d.status[o] = "SETTLED" /\ amount <= Net(d, o)

\* create_refund: the row, the bill's total and the customer's statistics.
create_refund(d, o, amount, id) ==
  LET e == [d EXCEPT !.refunded[o] = @ + amount,
                     !.refunds = @ \cup {[id |-> id, order |-> o, amount |-> amount]}]
  IN refresh_stats(e, {e.link[o]})
=============================================================================
