------------------------------- MODULE BusinessDay -------------------------------
(***************************************************************************)
(* The business days of an outlet and the cash they account for:           *)
(* app/services/owner/day_close_service.py. As in CustomerBook, the        *)
(* operators map the rows a session sees to the rows it writes.            *)
(***************************************************************************)
EXTENDS Integers, Functions

CONSTANT LastDay   \* days are 1 .. LastDay, in the outlet's time zone

ASSUME DayAssumption == LastDay \in Nat \ {0}

Day == 1 .. LastDay

\* "none": nobody has touched the day yet, so it has no row.
DayStatus == {"none", "open", "closed"}

HasRow(d, t) == d.day[t] # "none"

\* _get_or_create_day: a new row is open, with empty drawers.
GetOrCreateDay(d, t) == IF HasRow(d, t) THEN d ELSE [d EXCEPT !.day[t] = "open"]

Total(rows) == SumFunction([r \in rows |-> r.amount])

\* Money put into the drawer of day t, and money taken out of it.
Deposits(d, t) == {m \in d.movements : m.day = t /\ m.kind = "deposit"}

TakenOut(d, t) == {m \in d.movements : m.day = t /\ m.kind # "deposit"}

\* _refresh_cash_sales: cash taken on day t for bills that are settled by now.
CashSales(d, t) ==
  Total({p \in d.payments : p.method = "CASH" /\ p.day = t /\ d.status[p.order] = "SETTLED"})

Expected(d, t) ==
  d.opening[t] + d.sales[t] + Total(Deposits(d, t)) - Total(TakenOut(d, t))

\* A closed day may be opened again by those who may reopen days.
MayOpen(d, t, mayReopen) == d.day[t] = "closed" => mayReopen

open_day(d, t, cash) == [d EXCEPT !.day[t] = "open", !.opening[t] = cash]

\* Mutant of MayMove: cash still moves after the day was closed.
MayMoveAlways(d, t) == TRUE

MayMove(d, t) == d.day[t] # "closed"

add_movement(d, t, kind, amount, id) ==
  [GetOrCreateDay(d, t) EXCEPT
     !.movements = @ \cup {[id |-> id, day |-> t, kind |-> kind, amount |-> amount]}]

\* A day without a row cannot be closed: the movements of a row that was just
\* inserted are not loaded, and reading them raises before the commit.
MayClose(d, t) == d.day[t] = "open"

close_day(d, t) ==
  LET e == [d EXCEPT !.sales[t] = CashSales(d, t)]
  IN [e EXCEPT !.expected[t] = Expected(e, t), !.day[t] = "closed"]
=============================================================================
