----------------------------- MODULE KitchenStock -----------------------------
(***************************************************************************)
(* Kitchen tickets and stock: send_kot and the line handlers of            *)
(* app/services/owner/order_service.py with the stock they check, take and *)
(* give back, and the handlers of app/services/owner/inventory_service.py. *)
(*                                                                         *)
(* A handler reads its order and lines (Read), then the stock (Handle or   *)
(* CheckStock), and writes the columns it changed when it commits. Only    *)
(* send_kot locks anything: the ticket counter of the day, which it takes  *)
(* after the check and before it deducts (Deduct).                         *)
(* Quantities of stock are integers, in thousandths of the item's unit.    *)
(* Edits of items and recipes read no stock and are one step each.         *)
(* Spec lets the requests of several workers overlap, SerialSpec does not. *)
(***************************************************************************)
EXTENDS Integers, FiniteSets, Functions

CONSTANTS Order, Line, Dish, Item,   \* identities of rows
          NoOrder, NoDish,           \* NULL
          Worker,                    \* server tasks, one request at a time each
          Portions,                  \* quantities of an order line
          Amount,                    \* quantities that recipes and adjustments use
          Opening,                   \* quantities that stock is set to
          MaxStock,                  \* bound: nobody stocks more of an item, nor do
                                     \* transactions add up to more than that, or
                                     \* to less than its negative
          LastDay, LastToday         \* bounds: the last dates of a behaviour

ASSUME KitchenAssumption ==
  /\ NoOrder \notin Order /\ NoDish \notin Dish
  /\ Portions \subseteq Nat \ {0} /\ Amount \subseteq Nat \ {0} /\ Opening \subseteq 0..MaxStock
  /\ IsFiniteSet(Line)  \* as many as a behaviour has room for
  /\ MaxStock \in Nat /\ LastDay \in Nat \ {0} /\ LastToday \in Nat \ {0}

VARIABLES day,      \* the server's date, which numbers tickets
          today,    \* the outlet's date, which daily stock follows
          db,       \* the committed rows
          ledger,   \* what the inventory transactions add up to
          req       \* what each worker is doing

vars == <<day, today, db, ledger, req>>

Day == 1..LastDay

LineRow == [status : {"NONE", "PENDING_KOT", "IN_KOT", "CANCELLED", "REMOVED"},
            order : Order \cup {NoOrder}, dish : Dish \cup {NoDish},
            quantity : Portions \cup {0}]

NoLine == [status |-> "NONE", order |-> NoOrder, dish |-> NoDish, quantity |-> 0]

\* daily: tracks_daily; date: stock_date, 0 for NULL.
ItemRow == [status : {"NONE", "THERE", "DELETED"}, daily : BOOLEAN,
            date : 0..LastToday, stock : Int]

NoItem == [status |-> "NONE", daily |-> FALSE, date |-> 0, stock |-> 0]

NoRecipe == [i \in Item |-> 0]

\* recipe[d][i]: qty_per_serve of the link between d and i, 0 without a link.
Rows == [order : [Order -> {"OPEN", "CLOSED"}], line : [Line -> LineRow],
         item : [Item -> ItemRow], recipe : [Dish -> [Item -> Nat]]]

\* Of the inventory transactions: per item the sum since its daily stock was
\* last set; per line and item what tickets took, what was given back, and how
\* many tickets of a day took it.
Ledger == [sum : [Item -> Int],
           taken : [Line \X Item -> Nat], returned : [Line \X Item -> Nat],
           tickets : [Line \X Item \X Day -> Nat]]

\* The transactions a request will add: kot and void for lines, move for
\* others; restart names an item whose daily stock is set. day is the ticket
\* counter the request has locked, 0 for none.
Entries == [move : [Item -> Int], restart : SUBSET Item,
            kot : SUBSET (Line \X Item \X Nat), void : SUBSET (Line \X Item \X Nat),
            day : 0..LastDay]

NoEntries == [move |-> [i \in Item |-> 0], restart |-> {},
              kot |-> {}, void |-> {}, day |-> 0]

Idle == [pc |-> "idle"]
Seen == [order : [Order -> {"OPEN", "CLOSED"}], line : [Line -> LineRow]]
Reading == [pc : {"reading"}, seen : Seen]
Checked == [pc : {"checked"}, seen : Seen, sent : SUBSET Line]
Busy == [pc : {"busy"}, old : Rows, new : Rows, entries : Entries]

TypeOK ==
  /\ day \in Day /\ today \in 1..LastToday
  /\ db \in Rows
  /\ ledger \in Ledger
  /\ req \in [Worker -> {Idle} \cup Reading \cup Checked \cup Busy]

Init ==
  /\ day = 1 /\ today = 1
  /\ db = [order |-> [o \in Order |-> "OPEN"], line |-> [l \in Line |-> NoLine],
           item |-> [i \in Item |-> NoItem], recipe |-> [d \in Dish |-> NoRecipe]]
  /\ ledger = [sum |-> [i \in Item |-> 0],
               taken |-> [e \in Line \X Item |-> 0],
               returned |-> [e \in Line \X Item |-> 0],
               tickets |-> [e \in Line \X Item \X Day |-> 0]]
  /\ req = [w \in Worker |-> Idle]

-----------------------------------------------------------------------------
(* What is needed and what is there *)

\* money: to hundredths, half to even.
Money(x) ==
  LET h == x \div 10
      r == x % 10
  IN 10 * (IF r < 5 \/ (r = 5 /\ h % 2 = 0) THEN h ELSE h + 1)

LinkedItems(d) == IF d = NoDish THEN {} ELSE {i \in Item : db.recipe[d][i] > 0}

Need(l, i) == Money(db.recipe[l.dish][i] * l.quantity)

There(i) == db.item[i].status = "THERE"

\* _pending_need_for_inventory: what the pending lines of open orders will take.
PendingNeed(i) ==
  LET pending == {l \in Line : /\ db.line[l].status = "PENDING_KOT"
                               /\ db.order[db.line[l].order] = "OPEN"
                               /\ i \in LinkedItems(db.line[l].dish)}
  IN SumFunction([l \in pending |-> Need(db.line[l], i)])

\* Daily stock counts on the day it was set for.
InStock(i, need) ==
  /\ db.item[i].daily => db.item[i].date = today
  /\ Money(db.item[i].stock) >= need

\* check_stock_for_line: before quantity more of dish d goes on order o, whose
\* lines are as seen.
EnoughForLine(seen, o, d, quantity) ==
  LET same == {l \in Line : /\ seen.line[l].status = "PENDING_KOT"
                            /\ seen.line[l].order = o /\ seen.line[l].dish = d}
      onOrder == quantity + SumFunction([l \in same |-> seen.line[l].quantity])
  IN \A i \in LinkedItems(d) :
       LET this == Money(Money(db.recipe[d][i]) * onOrder)
           others == PendingNeed(i) - this
       IN InStock(i, this + (IF others < 0 THEN 0 ELSE others))

\* Mutant of EnoughForLines: each line by itself.
EnoughForEach(rows) == \A l \in rows : \A i \in LinkedItems(l.dish) : InStock(i, Need(l, i))

\* assert_stock_for_lines: all that is pending is there, of whatever the lines
\* to be sent need.
EnoughForLines(rows) ==
  \A i \in UNION {LinkedItems(l.dish) : l \in rows} : InStock(i, PendingNeed(i))

\* A kot transaction of the line exists.
Deducted(l) == \E i \in Item, d \in Day : ledger.tickets[<<l, i, d>>] > 0

-----------------------------------------------------------------------------
(* Requests *)

Read(w) ==
  /\ req[w].pc = "idle"
  /\ req' = [req EXCEPT ![w] = [pc |-> "reading",
                                seen |-> [order |-> db.order, line |-> db.line]]]
  /\ UNCHANGED <<day, today, db, ledger>>

\* What the session of worker w holds: its order as read, the stock as now.
Loaded(w) == [db EXCEPT !.order = req[w].seen.order, !.line = req[w].seen.line]

\* The rows that differ from the others; the rest is of no interest.
Differing(rows, others) ==
  [order |-> [o \in Order |-> IF rows.order[o] = others.order[o] THEN "OPEN"
                              ELSE rows.order[o]],
   line |-> [l \in Line |-> IF rows.line[l] = others.line[l] THEN NoLine ELSE rows.line[l]],
   item |-> [i \in Item |-> IF rows.item[i] = others.item[i] THEN NoItem ELSE rows.item[i]],
   recipe |-> [d \in Dish |-> IF rows.recipe[d] = others.recipe[d] THEN NoRecipe
                              ELSE rows.recipe[d]]]

\* The handler ends with rows new to be written and entries to be added.
Change(w, new, entries) ==
  /\ req' = [req EXCEPT ![w] = [pc |-> "busy",
                                old |-> Differing(Loaded(w), new),
                                new |-> Differing(new, Loaded(w)),
                                entries |-> entries]]
  /\ UNCHANGED <<day, today, db, ledger>>

\* Identities that no row has and no other request is about to insert.
NewLine(l) ==
  /\ db.line[l].status = "NONE"
  /\ \A v \in Worker : req[v].pc = "busy" => req[v].new.line[l].status = "NONE"
NewItem(i) ==
  /\ db.item[i].status = "NONE"
  /\ \A v \in Worker : req[v].pc = "busy" => req[v].new.item[i].status = "NONE"

InsertLine(w, o, l, d, quantity) ==
  /\ req[w].seen.order[o] = "OPEN"
  /\ NewLine(l) /\ req[w].seen.line[l].status = "NONE"
  /\ Change(w, [Loaded(w) EXCEPT !.line[l] =
                  [status |-> "PENDING_KOT", order |-> o, dish |-> d, quantity |-> quantity]],
            NoEntries)

AddLine(w) ==
  \E o \in Order, l \in Line, d \in Dish, quantity \in Portions :
    /\ EnoughForLine(req[w].seen, o, d, quantity)
    /\ InsertLine(w, o, l, d, quantity)

\* add_open_line does not look at the stock, even if the line names a dish.
AddOpenLine(w) ==
  \E o \in Order, l \in Line, d \in Dish \cup {NoDish}, quantity \in Portions :
    InsertLine(w, o, l, d, quantity)

\* Mutant of LinesOfOpenOrders: whatever became of the order.
LinesOfOrders(w, statuses) == {l \in Line : req[w].seen.line[l].status \in statuses}

\* Lines that handlers of open orders find in one of the given statuses.
LinesOfOpenOrders(w, statuses) ==
  {l \in Line : /\ req[w].seen.line[l].status \in statuses
                /\ req[w].seen.order[req[w].seen.line[l].order] = "OPEN"}

\* update_line: neither the ticket nor the stock follows a line already sent.
UpdateLine(w) ==
  \E l \in LinesOfOpenOrders(w, {"PENDING_KOT", "IN_KOT"}), quantity \in Portions :
    Change(w, [Loaded(w) EXCEPT !.line[l].quantity = quantity], NoEntries)

RemoveLine(w) ==
  \E l \in LinesOfOpenOrders(w, {"PENDING_KOT"}) :
    Change(w, [Loaded(w) EXCEPT !.line[l].status = "REMOVED"], NoEntries)

\* Mutant of ToRestore: what the recipe says now, not what was taken.
ToRestoreRecipe(l, i) ==
  IF i \in LinkedItems(db.line[l].dish) THEN Need(db.line[l], i) ELSE 0

\* The kot transactions of line l that took item i.
ToRestore(l, i) == ledger.taken[<<l, i>>]

\* cancel_line: restore_for_order_line gives back what tickets took of a line
\* that was sent, from items that still exist.
CancelLine(w) ==
  \E l \in LinesOfOpenOrders(w, {"PENDING_KOT", "IN_KOT"}) :
    LET sent == req[w].seen.line[l].status = "IN_KOT"
        back == {i \in Item : sent /\ There(i) /\ ToRestore(l, i) > 0}
        cancelled == [Loaded(w) EXCEPT !.line[l].status = "CANCELLED"]
    IN Change(w,
         [cancelled EXCEPT !.item = [i \in Item |->
            IF i \in back
            THEN [@[i] EXCEPT !.stock = Money(db.item[i].stock + ToRestore(l, i))]
            ELSE @[i]]],
         [NoEntries EXCEPT !.void = {<<l, i, ToRestore(l, i)>> : i \in back}])

\* cancel_order cancels every line and gives nothing back; a settled order
\* keeps its lines as they are.
CloseOrder(w) ==
  \E o \in Order, cancel \in BOOLEAN :
    /\ req[w].seen.order[o] = "OPEN"
    /\ Change(w, [Loaded(w) EXCEPT
                    !.order[o] = "CLOSED",
                    !.line = [l \in Line |->
                      IF cancel /\ @[l].order = o /\ @[l].status # "REMOVED"
                      THEN [@[l] EXCEPT !.status = "CANCELLED"] ELSE @[l]]],
              NoEntries)

\* send_kot up to the stock check.
CheckStock(w) ==
  /\ req[w].pc = "reading"
  /\ \E o \in Order :
       LET pending == {l \in LinesOfOpenOrders(w, {"PENDING_KOT"}) :
                         req[w].seen.line[l].order = o}
       IN \E sent \in SUBSET pending \ {{}} :
            /\ EnoughForLines({req[w].seen.line[l] : l \in sent})
            /\ req' = [req EXCEPT ![w] = [pc |-> "checked", seen |-> req[w].seen,
                                          sent |-> sent]]
  /\ UNCHANGED <<day, today, db, ledger>>

\* Mutant of TicketNumberFree: the number comes without a lock.
TicketNumberAnyway == TRUE

\* next_outlet_counter waits for another ticket of the day to commit.
TicketNumberFree ==
  \A v \in Worker : req[v].pc = "busy" => req[v].entries.day # day

\* deduct_for_order_lines rounds the stock after every line. Needs are whole
\* hundredths, so once first is taken off for the first line, no rounding changes
\* anything any more.
Left(stock, need, first) == Money(stock - first) - (need - first)

\* send_kot from the ticket number on: deduct_for_order_lines skips lines that
\* were deducted; the stock is read again, the check holds no object of it. The
\* lines come in some order, of which rank is the place.
Deduct(w) ==
  /\ req[w].pc = "checked"
  /\ TicketNumberFree
  /\ \E rank \in Injection(req[w].sent, 1 .. Cardinality(req[w].sent)) :
     LET row(l) == req[w].seen.line[l]
         places == {e \in req[w].sent \X Item :
                      ~ Deducted(e[1]) /\ e[2] \in LinkedItems(row(e[1]).dish)}
         kot == {<<e[1], e[2], Need(row(e[1]), e[2])>> : e \in places}
         need(i) == SumFunction([e \in {k \in kot : k[2] = i} |-> e[3]])
         used == {k[2] : k \in kot}
         takers(i) == {l \in req[w].sent : <<l, i>> \in places}
         first(i) == CHOOSE l \in takers(i) : \A m \in takers(i) : rank[l] <= rank[m]
     IN Change(w,
          [Loaded(w) EXCEPT
             !.line = [l \in Line |-> IF l \in req[w].sent
                                      THEN [@[l] EXCEPT !.status = "IN_KOT"] ELSE @[l]],
             !.item = [i \in Item |-> IF i \in used
                                      THEN [@[i] EXCEPT !.stock =
                                              Left(db.item[i].stock, need(i),
                                                   Need(row(first(i)), i))]
                                      ELSE @[i]]],
          [NoEntries EXCEPT !.kot = kot, !.day = day])

-----------------------------------------------------------------------------
(* Requests about the stock itself *)

\* set_daily_stock of the rows: the entry is the new stock, whatever was there.
SetDaily(rows, i, quantity) ==
  [rows EXCEPT !.item[i].stock = Money(quantity), !.item[i].date = today]

DailyOpening(i, quantity) ==
  [NoEntries EXCEPT !.restart = {i}, !.move[i] = Money(quantity)]

SetDailyStock(w) ==
  \E i \in Item, quantity \in Opening :
    /\ There(i)
    /\ Change(w, SetDaily(Loaded(w), i, quantity), DailyOpening(i, quantity))

\* track_menu_stock: a new daily item for a dish without a link, or the item of
\* its only link; on two links it raises.
TrackMenuStock(w) ==
  \E d \in Dish, i \in Item, perServe \in Amount, quantity \in Opening :
    LET linked == [Loaded(w) EXCEPT !.recipe[d][i] = perServe]
    IN \/ /\ LinkedItems(d) = {} /\ NewItem(i)
          /\ Change(w, SetDaily([linked EXCEPT !.item[i].status = "THERE",
                                               !.item[i].daily = TRUE], i, quantity),
                    DailyOpening(i, quantity))
       \/ /\ LinkedItems(d) = {i}
          /\ Change(w, SetDaily(linked, i, quantity), DailyOpening(i, quantity))

\* Mutant of AdjustStock: the entry is the new stock.
AdjustStockWhole(w) ==
  \E i \in Item :
    \E next \in Opening \cup {db.item[i].stock + a : a \in Amount} :
      /\ There(i)
      /\ next \in 0..MaxStock
      /\ Change(w, [Loaded(w) EXCEPT !.item[i].stock = next],
                [NoEntries EXCEPT !.move[i] = next])

\* adjust_stock: purchase, wastage or adjustment by a quantity, or opening,
\* which sets the stock.
AdjustStock(w) ==
  \E i \in Item :
    \E next \in Opening \cup {db.item[i].stock + a : a \in Amount}
                        \cup {db.item[i].stock - a : a \in Amount} :
      /\ There(i)
      /\ next \in 0..MaxStock
      /\ Change(w, [Loaded(w) EXCEPT !.item[i].stock = next],
                [NoEntries EXCEPT !.move[i] = next - db.item[i].stock])

Handle(w) ==
  /\ req[w].pc = "reading"
  /\ \/ AddLine(w) \/ AddOpenLine(w) \/ UpdateLine(w) \/ RemoveLine(w)
     \/ CancelLine(w) \/ CloseOrder(w)
     \/ SetDailyStock(w) \/ TrackMenuStock(w) \/ AdjustStock(w)

-----------------------------------------------------------------------------
(* Commit *)

\* The columns that changed are written over what the row holds by then.
Merged(current, old, new) ==
  [c \in DOMAIN current |-> IF new[c] = old[c] THEN current[c] ELSE new[c]]

\* No UPDATE misses its row.
Fits(r) ==
  /\ \A l \in Line :
       r.new.line[l] # r.old.line[l] /\ r.new.line[l].status # "REMOVED" =>
         db.line[l].status # "REMOVED"
  /\ \A i \in Item : r.new.item[i] # r.old.item[i] => db.item[i].status # "DELETED"

SumOf(entries, l, i) == SumFunction([e \in {k \in entries : k[1] \in l /\ k[2] = i} |-> e[3]])

Commit(w) ==
  LET r == req[w]
  IN /\ r.pc = "busy"
     /\ Fits(r)
     /\ db' = [order |-> Merged(db.order, r.old.order, r.new.order),
               line |-> [l \in Line |->
                           Merged(db.line[l], r.old.line[l], r.new.line[l])],
               item |-> [i \in Item |->
                           Merged(db.item[i], r.old.item[i], r.new.item[i])],
               recipe |-> [d \in Dish |->
                             Merged(db.recipe[d], r.old.recipe[d], r.new.recipe[d])]]
     /\ ledger' = [sum |-> [i \in Item |->
                      (IF i \in r.entries.restart THEN 0 ELSE ledger.sum[i])
                        + r.entries.move[i]
                        - SumOf(r.entries.kot, Line, i) + SumOf(r.entries.void, Line, i)],
                   taken |-> [e \in Line \X Item |->
                      ledger.taken[e] + SumOf(r.entries.kot, {e[1]}, e[2])],
                   returned |-> [e \in Line \X Item |->
                      ledger.returned[e] + SumOf(r.entries.void, {e[1]}, e[2])],
                   tickets |-> [e \in Line \X Item \X Day |->
                      ledger.tickets[e] +
                        Cardinality({k \in r.entries.kot : /\ k[1] = e[1] /\ k[2] = e[2]
                                                           /\ r.entries.day = e[3]})]]
     /\ \A i \in Item : ledger'.sum[i] \in -MaxStock..MaxStock
     /\ req' = [req EXCEPT ![w] = Idle]
     /\ UNCHANGED <<day, today>>

\* A check refuses the request, a statement fails or the process dies.
Abort(w) ==
  /\ req[w].pc # "idle"
  /\ req' = [req EXCEPT ![w] = Idle]
  /\ UNCHANGED <<day, today, db, ledger>>

-----------------------------------------------------------------------------
(* Edits of items and recipes, and the clocks *)

Edit(rows, log) ==
  /\ db' = rows
  /\ ledger' = log
  /\ UNCHANGED <<day, today, req>>

CreateItem(i, daily, opening) ==
  /\ NewItem(i)
  /\ Edit([db EXCEPT !.item[i] = [status |-> "THERE", daily |-> daily,
                                  date |-> 0, stock |-> opening]],
          [ledger EXCEPT !.sum[i] = opening])

\* update_item, as far as stock is concerned.
UpdateItem(i, daily) ==
  /\ There(i)
  /\ Edit([db EXCEPT !.item[i].daily = daily], ledger)

\* delete_item: links and transactions go with the item.
DeleteItem(i) ==
  /\ There(i)
  /\ Edit([db EXCEPT !.item[i] = [NoItem EXCEPT !.status = "DELETED"],
                     !.recipe = [d \in Dish |-> [@[d] EXCEPT ![i] = 0]]],
          [sum |-> [ledger.sum EXCEPT ![i] = 0],
           taken |-> [e \in Line \X Item |-> IF e[2] = i THEN 0 ELSE ledger.taken[e]],
           returned |-> [e \in Line \X Item |-> IF e[2] = i THEN 0 ELSE ledger.returned[e]],
           tickets |-> [e \in Line \X Item \X Day |-> IF e[2] = i THEN 0
                                                     ELSE ledger.tickets[e]]])

\* link_menu_item, and unlink_menu_item with perServe = 0.
LinkMenuItem(d, i, perServe) ==
  /\ There(i)
  /\ Edit([db EXCEPT !.recipe[d][i] = perServe], ledger)

\* replace_raw_bom: the links to raw materials, and only those, are replaced.
ReplaceRawBom(d, bom) ==
  LET raw == {i \in Item : There(i) /\ ~ db.item[i].daily}
  IN Edit([db EXCEPT !.recipe[d] = [i \in Item |-> IF i \in raw THEN bom[i] ELSE @[i]]],
          ledger)

Edits ==
  \/ \E i \in Item :
       \/ \E daily \in BOOLEAN : \/ UpdateItem(i, daily)
                                \/ \E opening \in Opening :
                                     CreateItem(i, daily, opening)
       \/ DeleteItem(i)
       \/ \E d \in Dish, perServe \in Amount \cup {0} : LinkMenuItem(d, i, perServe)
  \/ \E d \in Dish, bom \in [Item -> Amount \cup {0}] : ReplaceRawBom(d, bom)

\* The dates change, each by its own clock.
ServerMidnight ==
  /\ day < LastDay
  /\ day' = day + 1
  /\ UNCHANGED <<today, db, ledger, req>>

OutletMidnight ==
  /\ today < LastToday
  /\ today' = today + 1
  /\ UNCHANGED <<day, db, ledger, req>>

Work(w) == CheckStock(w) \/ Deduct(w) \/ Handle(w) \/ Commit(w) \/ Abort(w)

Next ==
  \/ \E w \in Worker : Read(w) \/ Work(w)
  \/ Edits
  \/ ServerMidnight
  \/ OutletMidnight

Spec == Init /\ [][Next]_vars

\* Nothing starts while a request is under way.
SerialNext ==
  \/ (\A v \in Worker : req[v].pc = "idle") /\ (Edits \/ \E w \in Worker : Read(w))
  \/ \E w \in Worker : Work(w)
  \/ ServerMidnight
  \/ OutletMidnight

SerialSpec == Init /\ [][SerialNext]_vars

-----------------------------------------------------------------------------
(* Properties *)

\* Every change of an item's stock has its transaction: the stock is what the
\* transactions since the last daily opening add up to.
StockIsLedger == \A i \in Item : There(i) => db.item[i].stock = ledger.sum[i]

\* Quantities in whole hundredths of a unit, which rounding keeps.
WholeHundredths == \A q \in Amount \cup Opening : q % 10 = 0

\* Tickets, wastage and adjustments never take what is not there. Of quantities
\* in thousandths a ticket of several lines may take one hundredth too much: the
\* check rounds the stock once, deduct_for_order_lines after every line.
StockNotNegative ==
  \A i \in Item : There(i) => db.item[i].stock >= IF WholeHundredths THEN 0 ELSE -10

\* A cancelled line gives back exactly what it took, once, although its
\* quantity and the recipe may have changed; a line in the kitchen nothing.
ReturnedOnce ==
  \A l \in Line, i \in Item :
    /\ ledger.returned[<<l, i>>] \in {0, ledger.taken[<<l, i>>]}
    /\ db.line[l].status = "IN_KOT" => ledger.returned[<<l, i>>] = 0

\* Once an order is closed, no ticket and no cancellation of its lines moves
\* stock any more.
ClosedOrdersTakeNothing ==
  [][\A l \in Line, i \in Item :
       db.line[l].status # "NONE" /\ db.order[db.line[l].order] = "CLOSED" =>
         ledger'.taken[<<l, i>>] \in {ledger.taken[<<l, i>>], 0}
           /\ ledger'.returned[<<l, i>>] \in {ledger.returned[<<l, i>>], 0}]_vars

\* However tickets and cancellations overlap, two tickets of one day never both
\* deduct a line: the second waits for the counter, then finds the first's
\* transaction.
OneDeductionPerDay ==
  \A e \in Line \X Item \X Day : ledger.tickets[e] <= 1

\* add_line refuses what is "out of inventory": what it lets through fits into
\* the stock together with all "units already on open orders".
AddedLineFits ==
  \A w \in Worker, o \in Order, d \in Dish, quantity \in Portions :
    req[w].pc = "reading" /\ EnoughForLine(req[w].seen, o, d, quantity) =>
      \A i \in LinkedItems(d) :
        PendingNeed(i) + Money(db.recipe[d][i] * quantity) <= db.item[i].stock
=============================================================================
