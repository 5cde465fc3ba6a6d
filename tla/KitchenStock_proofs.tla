------------------------- MODULE KitchenStock_proofs -------------------------
(***************************************************************************)
(* For any orders, lines, items and workers.                               *)
(*                                                                         *)
(* However requests overlap, two tickets of one day never both take stock  *)
(* for the same line: the counter of the day is held by one request at a   *)
(* time (OneTicket), and what its holder is about to take, nobody took on  *)
(* that day (NotYetTaken).                                                 *)
(*                                                                         *)
(* One request at a time, the stock and its transactions stay consistent   *)
(* (Booked), now and after the commit of the request under way.            *)
(***************************************************************************)
EXTENDS KitchenStock, Sums, TLAPS

Spot == Line \X Item \X Day

TicketsTyped == day \in Day /\ DOMAIN req = Worker /\ ledger.tickets \in [Spot -> Nat]

\* One request holds the counter of a day.
OneTicket ==
  \A v, w \in Worker :
    /\ req[v].pc = "busy" /\ req[w].pc = "busy"
    /\ req[v].entries.day # 0 /\ req[v].entries.day = req[w].entries.day
    => v = w

\* Entries whose transactions the log of tickets does not have yet.
Fresh(entries, tickets) ==
  \A k \in entries.kot :
    /\ \A c \in Item : <<k[1], c, entries.day>> \in Spot => tickets[<<k[1], c, entries.day>>] = 0
    /\ entries.day # 0
    /\ \A m \in entries.kot : m[1] = k[1] /\ m[2] = k[2] => m = k

\* What the holder of a counter will take, no ticket of that day took.
NotYetTaken ==
  \A w \in Worker : req[w].pc = "busy" => Fresh(req[w].entries, ledger.tickets)

IInv == TicketsTyped /\ OneTicket /\ NotYetTaken /\ OneDeductionPerDay

\* Requests that take nothing from the kitchen.
NoTicket(entries) == entries.day = 0 /\ entries.kot = {}

\* How many transactions of entries fall on e.
Taking(entries, e) ==
  {k \in entries.kot : k[1] = e[1] /\ k[2] = e[2] /\ entries.day = e[3]}

-----------------------------------------------------------------------------
(* Steps of one request *)

\* A request that drops out, or goes on without touching the kitchen, disturbs
\* nothing.
LEMMA OtherStep ==
  ASSUME IInv, NEW w \in Worker, NEW r, req' = [req EXCEPT ![w] = r],
         r.pc = "busy" => NoTicket(r.entries), UNCHANGED <<day, ledger>>
  PROVE  IInv'
<1>1. TicketsTyped' /\ OneDeductionPerDay'
  BY DEF IInv, TicketsTyped, OneDeductionPerDay
<1>2. \A v \in Worker : req'[v] = IF v = w THEN r ELSE req[v]
  BY DEF IInv, TicketsTyped
<1>3. OneTicket'
  BY <1>2 DEF IInv, OneTicket, NoTicket
<1>4. NotYetTaken'
  BY <1>2 DEF IInv, NotYetTaken, Fresh, NoTicket
<1> QED
  BY <1>1, <1>3, <1>4 DEF IInv

LEMMA QuietChange ==
  ASSUME IInv, NEW w \in Worker, NEW new, NEW entries,
         NoTicket(entries), Change(w, new, entries)
  PROVE  IInv'
<1> DEFINE r == [pc |-> "busy", old |-> Differing(Loaded(w), new),
                 new |-> Differing(new, Loaded(w)), entries |-> entries]
<1>1. r.entries = entries
  OBVIOUS
<1> HIDE DEF r
<1>2. req' = [req EXCEPT ![w] = r] /\ UNCHANGED <<day, ledger>>
  BY DEF Change, r
<1> QED
  BY <1>1, <1>2, OtherStep

\* The entries of the handlers that hold no counter.
LEMMA QuietEntries ==
  /\ NoTicket(NoEntries)
  /\ \A v : NoTicket([NoEntries EXCEPT !.void = v])
  /\ \A i \in Item : \A n : NoTicket([NoEntries EXCEPT !.move[i] = n])
  /\ \A i \in Item : \A q : NoTicket(DailyOpening(i, q))
BY DEF NoTicket, NoEntries, DailyOpening

\* The handlers of lines, orders and stock hold no counter.
LEMMA HandleStep ==
  ASSUME IInv, NEW w \in Worker, Handle(w)
  PROVE  IInv'
<1>1. CASE AddLine(w)
  BY <1>1, QuietEntries, QuietChange DEF AddLine, InsertLine
<1>2. CASE AddOpenLine(w)
  BY <1>2, QuietEntries, QuietChange DEF AddOpenLine, InsertLine
<1>3. CASE UpdateLine(w)
  BY <1>3, QuietEntries, QuietChange DEF UpdateLine
<1>4. CASE RemoveLine(w)
  BY <1>4, QuietEntries, QuietChange DEF RemoveLine
<1>5. CASE CancelLine(w)
  BY <1>5, QuietEntries, QuietChange DEF CancelLine
<1>6. CASE CloseOrder(w)
  BY <1>6, QuietEntries, QuietChange DEF CloseOrder
<1>7. CASE SetDailyStock(w)
  BY <1>7, QuietEntries, QuietChange DEF SetDailyStock
<1>8. CASE TrackMenuStock(w)
  BY <1>8, QuietEntries, QuietChange DEF TrackMenuStock
<1>9. CASE AdjustStock(w)
  BY <1>9, QuietEntries, QuietChange DEF AdjustStock
<1> QED
  BY <1>1, <1>2, <1>3, <1>4, <1>5, <1>6, <1>7, <1>8, <1>9 DEF Handle

\* send_kot takes the counter when nobody has it, and skips the lines that a
\* ticket took before.
LEMMA DeductStep ==
  ASSUME IInv, NEW w \in Worker, Deduct(w)
  PROVE  IInv'
<1> DEFINE row(l) == req[w].seen.line[l]
           places == {e \in req[w].sent \X Item :
                        ~ Deducted(e[1]) /\ e[2] \in LinkedItems(row(e[1]).dish)}
           kot == {<<e[1], e[2], Need(row(e[1]), e[2])>> : e \in places}
           entries == [NoEntries EXCEPT !.kot = kot, !.day = day]
<1>1. PICK new : Change(w, new, entries)
  BY DEF Deduct
<1>2. entries.kot = kot /\ entries.day = day
  BY DEF NoEntries
<1>3. \A k \in kot : \E l \in req[w].sent, i \in Item :
        k = <<l, i, Need(row(l), i)>> /\ ~ Deducted(l)
  OBVIOUS
<1>4. Fresh(entries, ledger.tickets)
  <2> SUFFICES ASSUME NEW k \in kot
               PROVE  /\ \A c \in Item : <<k[1], c, day>> \in Spot =>
                                          ledger.tickets[<<k[1], c, day>>] = 0
                      /\ day # 0
                      /\ \A m \in kot : m[1] = k[1] /\ m[2] = k[2] => m = k
    BY <1>2 DEF Fresh
  <2>1. PICK l \in req[w].sent, i \in Item :
          k = <<l, i, Need(row(l), i)>> /\ ~ Deducted(l)
    BY <1>3
  <2>2. day \in Day /\ day # 0
    BY KitchenAssumption DEF IInv, TicketsTyped, Day
  <2>3. ASSUME NEW c \in Item, <<k[1], c, day>> \in Spot
        PROVE  ledger.tickets[<<k[1], c, day>>] = 0
    <3>1. ~ (ledger.tickets[<<l, c, day>>] > 0) /\ k[1] = l
      BY <2>1, <2>2 DEF Deducted
    <3>2. ledger.tickets[<<l, c, day>>] \in Nat
      BY <2>3, <3>1 DEF IInv, TicketsTyped
    <3> QED
      BY <3>1, <3>2
  <2>4. ASSUME NEW m \in kot, m[1] = k[1], m[2] = k[2]
        PROVE  m = k
    <3>1. PICK h \in req[w].sent, j \in Item : m = <<h, j, Need(row(h), j)>>
      BY <1>3, <2>4
    <3> QED
      BY <2>1, <2>4, <3>1
  <2> QED
    BY <2>2, <2>3, <2>4
<1> DEFINE r == [pc |-> "busy", old |-> Differing(Loaded(w), new),
                 new |-> Differing(new, Loaded(w)), entries |-> entries]
<1>5. r.entries = entries /\ r.pc = "busy"
  OBVIOUS
<1>6. req' = [req EXCEPT ![w] = r] /\ UNCHANGED <<day, ledger>>
  BY <1>1 DEF Change
<1> HIDE DEF r, entries, kot
<1>7. \A v \in Worker : req'[v] = IF v = w THEN r ELSE req[v]
  BY <1>6 DEF IInv, TicketsTyped
<1>8. TicketsTyped' /\ OneDeductionPerDay'
  BY <1>6 DEF IInv, TicketsTyped, OneDeductionPerDay
<1>9. \A v \in Worker : req[v].pc = "busy" => req[v].entries.day # day
  BY DEF Deduct, TicketNumberFree
<1>10. OneTicket'
  BY <1>2, <1>5, <1>7, <1>9 DEF IInv, OneTicket
<1>11. NotYetTaken'
  BY <1>4, <1>5, <1>6, <1>7 DEF IInv, NotYetTaken
<1> QED
  BY <1>8, <1>10, <1>11 DEF IInv

\* On a place of the log, a request that commits has one transaction at most,
\* and only where there was none.
LEMMA AtMostOneTaking ==
  ASSUME NEW entries, NEW tickets, Fresh(entries, tickets), NEW e \in Spot
  PROVE  /\ Cardinality(Taking(entries, e)) \in 0..1
         /\ Cardinality(Taking(entries, e)) # 0 => tickets[e] = 0 /\ entries.day = e[3]
<1>1. CASE Taking(entries, e) = {}
  BY <1>1, FS_EmptySet
<1>2. CASE Taking(entries, e) # {}
  <2>1. PICK k \in Taking(entries, e) : TRUE
    BY <1>2
  <2>2. \A m \in Taking(entries, e) : m = k
    BY <2>1 DEF Taking, Fresh
  <2>3. Taking(entries, e) = {k}
    BY <2>1, <2>2
  <2>4. Cardinality(Taking(entries, e)) = 1
    BY <2>3, FS_Singleton
  <2>5. e = <<k[1], e[2], entries.day>> /\ e[2] \in Item /\ entries.day = e[3]
    BY <2>1 DEF Taking, Spot
  <2>6. tickets[e] = 0
    BY <2>1, <2>5 DEF Fresh, Taking
  <2> QED
    BY <2>4, <2>5, <2>6
<1> QED
  BY <1>1, <1>2

LEMMA CommitStep ==
  ASSUME IInv, NEW w \in Worker, Commit(w)
  PROVE  IInv'
<1> DEFINE taking(e) == Cardinality(Taking(req[w].entries, e))
<1>1. Fresh(req[w].entries, ledger.tickets) /\ req[w].pc = "busy"
  BY DEF Commit, IInv, NotYetTaken
<1>2. \A e \in Spot : /\ taking(e) \in 0..1
                      /\ taking(e) # 0 => ledger.tickets[e] = 0 /\ req[w].entries.day = e[3]
  BY <1>1, AtMostOneTaking
<1>3. ledger'.tickets = [e \in Spot |-> ledger.tickets[e] + taking(e)]
  BY DEF Commit, Spot, Taking
<1>4. UNCHANGED day /\ req' = [req EXCEPT ![w] = Idle]
  BY DEF Commit
<1>5. \A v \in Worker : req'[v] = IF v = w THEN Idle ELSE req[v]
  BY <1>4 DEF IInv, TicketsTyped
<1>6. Idle.pc # "busy"
  BY DEF Idle
<1> HIDE DEF taking
<1>7. TicketsTyped'
  BY <1>2, <1>3, <1>4 DEF IInv, TicketsTyped
<1>8. OneDeductionPerDay'
  <2> SUFFICES ASSUME NEW e \in Spot PROVE ledger'.tickets[e] <= 1
    BY DEF OneDeductionPerDay, Spot
  <2>1. ledger.tickets[e] \in Nat /\ ledger.tickets[e] <= 1
    BY DEF IInv, TicketsTyped, OneDeductionPerDay, Spot
  <2> QED
    BY <1>2, <1>3, <2>1
<1>9. OneTicket'
  BY <1>5, <1>6 DEF IInv, OneTicket
<1>10. NotYetTaken'
  <2> SUFFICES ASSUME NEW v \in Worker, req'[v].pc = "busy"
               PROVE  Fresh(req'[v].entries, ledger'.tickets)
    BY DEF NotYetTaken
  <2>1. v # w /\ req'[v] = req[v] /\ Fresh(req[v].entries, ledger.tickets)
    BY <1>5, <1>6 DEF IInv, NotYetTaken
  <2> SUFFICES ASSUME NEW k \in req[v].entries.kot, NEW c \in Item,
                      <<k[1], c, req[v].entries.day>> \in Spot
               PROVE  ledger'.tickets[<<k[1], c, req[v].entries.day>>] = 0
    BY <2>1 DEF Fresh
  <2> DEFINE e == <<k[1], c, req[v].entries.day>>
  <2>2. e \in Spot /\ e[3] = req[v].entries.day /\ ledger.tickets[e] = 0 /\ e[3] # 0
    BY <2>1 DEF Fresh
  <2>3. req[w].entries.day # e[3]
    BY <1>1, <2>1, <2>2 DEF IInv, OneTicket
  <2>4. taking(e) = 0
    BY <1>2, <2>2, <2>3
  <2> QED
    BY <1>3, <2>2, <2>4
<1> QED
  BY <1>7, <1>8, <1>9, <1>10 DEF IInv

-----------------------------------------------------------------------------
(* Edits and clocks *)

\* Requests go on as they were, and the log of tickets only loses transactions.
LEMMA LogShrinks ==
  ASSUME IInv, UNCHANGED <<day, req>>, NEW gone,
         ledger'.tickets = [e \in Spot |-> IF e[2] \in gone THEN 0 ELSE ledger.tickets[e]]
  PROVE  IInv'
<1>1. \A e \in Spot : ledger'.tickets[e] \in {0, ledger.tickets[e]}
  OBVIOUS
<1>2. TicketsTyped'
  BY DEF IInv, TicketsTyped
<1>3. OneDeductionPerDay'
  BY <1>1 DEF IInv, OneDeductionPerDay, Spot
<1>4. OneTicket'
  BY DEF IInv, OneTicket
<1>5. NotYetTaken'
  BY <1>1 DEF IInv, NotYetTaken, Fresh
<1> QED
  BY <1>2, <1>3, <1>4, <1>5 DEF IInv

\* The same with a log that stays, and a day that may pass.
LEMMA LogStays ==
  ASSUME IInv, UNCHANGED req, ledger'.tickets = ledger.tickets, day' \in Day
  PROVE  IInv'
BY DEF IInv, TicketsTyped, OneTicket, NotYetTaken, OneDeductionPerDay

LEMMA EditsStep ==
  ASSUME IInv, Edits
  PROVE  IInv'
<1>0. UNCHANGED <<day, req>> /\ day \in Day
  BY DEF Edits, UpdateItem, CreateItem, DeleteItem, LinkMenuItem, ReplaceRawBom, Edit,
         IInv, TicketsTyped
<1>1. ASSUME NEW i \in Item, NEW daily, UpdateItem(i, daily) PROVE IInv'
  BY <1>0, <1>1, LogStays DEF UpdateItem, Edit
<1>2. ASSUME NEW i \in Item, NEW daily, NEW opening, CreateItem(i, daily, opening)
      PROVE  IInv'
  BY <1>0, <1>2, LogStays DEF CreateItem, Edit
<1>3. ASSUME NEW i \in Item, DeleteItem(i) PROVE IInv'
  <2>1. ledger'.tickets = [e \in Spot |-> IF e[2] \in {i} THEN 0 ELSE ledger.tickets[e]]
    BY <1>3 DEF DeleteItem, Edit, Spot
  <2> QED
    BY <1>0, <2>1, LogShrinks
<1>4. ASSUME NEW i \in Item, NEW d, NEW perServe, LinkMenuItem(d, i, perServe) PROVE IInv'
  BY <1>0, <1>4, LogStays DEF LinkMenuItem, Edit
<1>5. ASSUME NEW d, NEW bom, ReplaceRawBom(d, bom) PROVE IInv'
  BY <1>0, <1>5, LogStays DEF ReplaceRawBom, Edit
<1> QED
  BY <1>1, <1>2, <1>3, <1>4, <1>5 DEF Edits

-----------------------------------------------------------------------------
(* The theorem *)

LEMMA InitTickets == Init => IInv
<1> SUFFICES ASSUME Init PROVE IInv
  OBVIOUS
<1>1. \A w \in Worker : req[w].pc # "busy"
  BY DEF Init, Idle
<1>2. TicketsTyped /\ \A e \in Spot : ledger.tickets[e] = 0
  BY KitchenAssumption DEF Init, TicketsTyped, Spot, Day
<1> QED
  BY <1>1, <1>2 DEF IInv, OneTicket, NotYetTaken, OneDeductionPerDay, Spot

LEMMA NextTickets == IInv /\ [Next]_vars => IInv'
<1> SUFFICES ASSUME IInv, [Next]_vars PROVE IInv'
  OBVIOUS
<1>0. day \in Day
  BY DEF IInv, TicketsTyped
<1>1. ASSUME NEW w \in Worker, Read(w) PROVE IInv'
  <2>1. PICK r : r.pc = "reading" /\ req' = [req EXCEPT ![w] = r] /\ UNCHANGED <<day, ledger>>
    BY <1>1 DEF Read
  <2> QED
    BY <2>1, OtherStep
<1>2. ASSUME NEW w \in Worker, CheckStock(w) PROVE IInv'
  <2>1. PICK r : r.pc = "checked" /\ req' = [req EXCEPT ![w] = r] /\ UNCHANGED <<day, ledger>>
    BY <1>2 DEF CheckStock
  <2> QED
    BY <2>1, OtherStep
<1>3. ASSUME NEW w \in Worker, Abort(w) PROVE IInv'
  <2>1. Idle.pc # "busy" /\ req' = [req EXCEPT ![w] = Idle] /\ UNCHANGED <<day, ledger>>
    BY <1>3 DEF Abort, Idle
  <2> QED
    BY <2>1, OtherStep
<1>4. CASE ServerMidnight
  BY <1>0, <1>4, LogStays, KitchenAssumption DEF ServerMidnight, Day
<1>5. CASE OutletMidnight
  BY <1>0, <1>5, LogStays DEF OutletMidnight
<1>6. CASE UNCHANGED vars
  BY <1>0, <1>6, LogStays DEF vars
<1> QED
  BY <1>1, <1>2, <1>3, <1>4, <1>5, <1>6, HandleStep, DeductStep, CommitStep, EditsStep
     DEF Next, Work

\* However tickets and cancellations overlap, a line is deducted by one ticket
\* of a day at most (deduct_for_order_lines under next_outlet_counter's lock).
THEOREM DeductedOncePerDay == Spec => []OneDeductionPerDay
<1>1. IInv => OneDeductionPerDay
  BY DEF IInv
<1> QED
  BY <1>1, InitTickets, NextTickets, PTL DEF Spec

-----------------------------------------------------------------------------
(* One request at a time: the books                                        *)

\* The rows d once request r has committed, and a log with its entries.
After(d, r) ==
  [order |-> Merged(d.order, r.old.order, r.new.order),
   line |-> [l \in Line |-> Merged(d.line[l], r.old.line[l], r.new.line[l])],
   item |-> [i \in Item |-> Merged(d.item[i], r.old.item[i], r.new.item[i])],
   recipe |-> [c \in Dish |-> Merged(d.recipe[c], r.old.recipe[c], r.new.recipe[c])]]

Logged(log, entries) ==
  [sum |-> [i \in Item |-> (IF i \in entries.restart THEN 0 ELSE log.sum[i])
                             + entries.move[i]
                             - SumOf(entries.kot, Line, i) + SumOf(entries.void, Line, i)],
   taken |-> [e \in Line \X Item |-> log.taken[e] + SumOf(entries.kot, {e[1]}, e[2])],
   returned |-> [e \in Line \X Item |-> log.returned[e] + SumOf(entries.void, {e[1]}, e[2])]]

Log == [sum |-> ledger.sum, taken |-> ledger.taken, returned |-> ledger.returned]

Logs == [sum : [Item -> Int], taken : [Line \X Item -> Nat], returned : [Line \X Item -> Nat]]

\* What a ticket took stands with the line until the line is cancelled, when
\* all of it is given back or none.
LineBooked(d, log, l, i) ==
  /\ log.returned[<<l, i>>] \in {0, log.taken[<<l, i>>]}
  /\ d.line[l].status # "CANCELLED" => log.returned[<<l, i>>] = 0
  /\ d.line[l].status \notin {"IN_KOT", "CANCELLED"} => log.taken[<<l, i>>] = 0

Least == IF WholeHundredths THEN 0 ELSE -10

NoneMissing(d) == \A i \in Item : d.item[i].status = "THERE" => d.item[i].stock >= Least

Balanced(d, log) ==
  WholeHundredths =>
    /\ \A i \in Item : d.item[i].stock % 10 = 0
    /\ \A e \in Line \X Item : log.taken[e] % 10 = 0
    /\ \A i \in Item : d.item[i].status = "THERE" => d.item[i].stock = log.sum[i]

Booked(d, log) ==
  /\ d \in Rows /\ log \in Logs
  /\ \A l \in Line, i \in Item : LineBooked(d, log, l, i)
  /\ NoneMissing(d)
  /\ Balanced(d, log)

\* Lines are taken for and given back while their order is open.
OnOpenOrders(d, entries) ==
  \A k \in entries.kot \cup entries.void : d.order[d.line[k[1]].order] = "OPEN"

\* Lines that a ticket may be sent with.
Sendable(sent) ==
  \A l \in sent : /\ l \in Line /\ db.line[l].status = "PENDING_KOT"
                  /\ db.order[db.line[l].order] = "OPEN"
                  /\ \A i \in LinkedItems(db.line[l].dish) :
                       Money(db.item[i].stock) >= PendingNeed(i)

\* What the worker read is what the rows are, and what it is about to write
\* keeps the books.
Holds(r) ==
  /\ r.pc \in {"reading", "checked"} => r.seen = [order |-> db.order, line |-> db.line]
  /\ r.pc = "checked" => Sendable(r.sent)
  /\ r.pc = "busy" => /\ Booked(After(db, r), Logged(Log, r.entries))
                      /\ OnOpenOrders(db, r.entries)

Alone ==
  /\ DOMAIN req = Worker
  /\ \A v, w \in Worker : req[v].pc # "idle" /\ req[w].pc # "idle" => v = w

SerialInv ==
  /\ today \in 1..LastToday /\ Alone
  /\ Booked(db, Log)
  /\ \A w \in Worker : Holds(req[w])

-----------------------------------------------------------------------------
\* Columns written back over the rows they were read from give the new rows.
LEMMA AfterChange ==
  ASSUME NEW d \in Rows, NEW new \in Rows, NEW r,
         r.old = Differing(d, new), r.new = Differing(new, d)
  PROVE  After(d, r) = new
<1>1. After(d, r).order = new.order
  BY DEF After, Merged, Differing, Rows
<1>2. After(d, r).line = new.line
  <2>1. \A l \in Line : Merged(d.line[l], r.old.line[l], r.new.line[l]) = new.line[l]
    BY DEF Merged, Differing, Rows, LineRow, NoLine
  <2> QED BY <2>1 DEF After, Rows
<1>3. After(d, r).item = new.item
  <2>1. \A i \in Item : Merged(d.item[i], r.old.item[i], r.new.item[i]) = new.item[i]
    BY DEF Merged, Differing, Rows, ItemRow, NoItem
  <2> QED BY <2>1 DEF After, Rows
<1>4. After(d, r).recipe = new.recipe
  <2>1. \A c \in Dish : Merged(d.recipe[c], r.old.recipe[c], r.new.recipe[c]) = new.recipe[c]
    BY DEF Merged, Differing, Rows, NoRecipe
  <2> QED BY <2>1 DEF After, Rows
<1> QED BY <1>1, <1>2, <1>3, <1>4 DEF After, Rows

\* Nothing adds up to nothing.
LEMMA SumOfNone ==
  ASSUME NEW ls, NEW i
  PROVE  SumOf({}, ls, i) = 0
<1>1. {k \in {} : k[1] \in ls /\ k[2] = i} = {}
  OBVIOUS
<1>2. SumFunctionOnSet([e \in {} |-> e[3]], {}) = 0
  BY SumEmpty
<1> QED BY <1>1, <1>2 DEF SumOf, SumFunction

\* A step that leaves rows and log alone, and in which one worker turns to r.
LEMMA OneTurns ==
  ASSUME SerialInv, NEW w \in Worker, NEW r, req' = [req EXCEPT ![w] = r],
         r.pc = "idle" \/ (\A v \in Worker \ {w} : req[v].pc = "idle"),
         UNCHANGED <<today, db, ledger>>, Holds(r)
  PROVE  SerialInv'
<1>1. \A v \in Worker : req'[v] = IF v = w THEN r ELSE req[v]
  BY DEF SerialInv, Alone
<1>2. Alone'
  BY <1>1 DEF SerialInv, Alone
<1>3. UNCHANGED Log
  BY DEF Log
<1>4. Booked(db, Log)'
  BY <1>3 DEF SerialInv
<1>5. ASSUME NEW v \in Worker PROVE Holds(req[v])'
  <2>1. \A q : Holds(q) => /\ q.pc \in {"reading", "checked"} => q.seen = [order |-> db'.order, line |-> db'.line]
                           /\ q.pc = "busy" => /\ Booked(After(db', q), Logged(Log', q.entries))
                                               /\ OnOpenOrders(db', q.entries)
    BY <1>3 DEF Holds
  <2>2. Holds(req'[v])
    BY <1>1 DEF SerialInv
  <2>3. req'[v].pc = "checked" => Sendable(req[v].sent)'
    BY <2>2 DEF Holds, Sendable, PendingNeed, LinkedItems, Need
  <2> QED BY <2>1, <2>2, <2>3 DEF Holds
<1> QED BY <1>2, <1>4, <1>5 DEF SerialInv

\* The session of a worker that read holds the rows as they are.
LEMMA LoadedIsDb ==
  ASSUME SerialInv, NEW w \in Worker, req[w].pc \in {"reading", "checked"}
  PROVE  Loaded(w) = db /\ req[w].seen = [order |-> db.order, line |-> db.line]
<1>1. req[w].seen = [order |-> db.order, line |-> db.line]
  BY DEF SerialInv, Holds
<1>2. req[w].seen.order = db.order /\ req[w].seen.line = db.line
  BY <1>1
<1>3. db \in Rows
  BY DEF SerialInv, Booked
<1>4. [db EXCEPT !.order = db.order, !.line = db.line] = db
  BY <1>3 DEF Rows
<1> QED BY <1>1, <1>2, <1>4 DEF Loaded

\* A handler, which ends with new rows and entries, keeps the invariant if they
\* keep the books.
LEMMA BooksChange ==
  ASSUME SerialInv, NEW w \in Worker, req[w].pc \in {"reading", "checked"},
         NEW new, NEW entries, Change(w, new, entries),
         Booked(new, Logged(Log, entries)), OnOpenOrders(db, entries)
  PROVE  SerialInv'
<1> DEFINE r == [pc |-> "busy", old |-> Differing(Loaded(w), new),
                 new |-> Differing(new, Loaded(w)), entries |-> entries]
<1>1. r.pc = "busy" /\ r.old = Differing(Loaded(w), new)
        /\ r.new = Differing(new, Loaded(w)) /\ r.entries = entries
  OBVIOUS
<1>2. req' = [req EXCEPT ![w] = r] /\ UNCHANGED <<today, db, ledger>>
  BY DEF Change
<1> HIDE DEF r
<1>3. Loaded(w) = db
  BY LoadedIsDb
<1>4. After(db, r) = new
  BY <1>1, <1>3, AfterChange DEF SerialInv, Booked
<1>5. Holds(r)
  BY <1>1, <1>4 DEF Holds
<1>6. \A v \in Worker \ {w} : req[v].pc = "idle"
  BY DEF SerialInv, Alone
<1> QED BY <1>2, <1>5, <1>6, OneTurns

LEMMA NothingLogged ==
  ASSUME NEW log \in Logs
  PROVE  Logged(log, NoEntries) = log
<1>1. \A ls, i : SumOf({}, ls, i) = 0
  BY SumOfNone
<1>2. NoEntries.kot = {} /\ NoEntries.void = {} /\ NoEntries.restart = {}
        /\ NoEntries.move = [i \in Item |-> 0]
  BY DEF NoEntries
<1>3. Logged(log, NoEntries).sum = log.sum
  BY <1>1, <1>2 DEF Logged, Logs
<1>4. Logged(log, NoEntries).taken = log.taken
  BY <1>1, <1>2 DEF Logged, Logs
<1>5. Logged(log, NoEntries).returned = log.returned
  BY <1>1, <1>2 DEF Logged, Logs
<1> QED BY <1>3, <1>4, <1>5 DEF Logged, Logs

\* Rows that differ in orders and in lines not sent, or in lines cancelled.
LEMMA LinesOnly ==
  ASSUME Booked(db, Log), NEW new \in Rows, new.item = db.item,
         \A l \in Line : \/ new.line[l].status = db.line[l].status
                         \/ new.line[l].status = "CANCELLED"
                         \/ db.line[l].status \in {"NONE", "PENDING_KOT"}
  PROVE  Booked(new, Logged(Log, NoEntries)) /\ OnOpenOrders(db, NoEntries)
<1>1. Logged(Log, NoEntries) = Log
  BY NothingLogged DEF Booked
<1>2. ASSUME NEW l \in Line, NEW i \in Item PROVE LineBooked(new, Log, l, i)
  BY DEF Booked, LineBooked
<1>3. NoneMissing(new) /\ Balanced(new, Log)
  BY DEF Booked, NoneMissing, Balanced
<1>4. OnOpenOrders(db, NoEntries)
  BY DEF OnOpenOrders, NoEntries
<1> QED BY <1>1, <1>2, <1>3, <1>4 DEF Booked

\* The handlers of orders and lines that leave the stock alone.
LEMMA LinesStep ==
  ASSUME SerialInv, NEW w \in Worker, req[w].pc = "reading",
         AddLine(w) \/ AddOpenLine(w) \/ UpdateLine(w) \/ RemoveLine(w) \/ CloseOrder(w)
  PROVE  SerialInv'
<1>1. Loaded(w) = db /\ req[w].seen.order = db.order /\ req[w].seen.line = db.line
  BY LoadedIsDb
<1>2. db \in Rows /\ Booked(db, Log)
  BY DEF SerialInv, Booked
<1>3. \A new \in Rows :
        /\ new.item = db.item
        /\ \A l \in Line : \/ new.line[l].status = db.line[l].status
                           \/ new.line[l].status = "CANCELLED"
                           \/ db.line[l].status \in {"NONE", "PENDING_KOT"}
        /\ Change(w, new, NoEntries)
        => SerialInv'
  BY <1>2, LinesOnly, BooksChange
<1>4. ASSUME NEW o \in Order, NEW l \in Line, NEW d \in Dish \cup {NoDish}, NEW quantity \in Portions,
             InsertLine(w, o, l, d, quantity)
      PROVE  SerialInv'
  <2> DEFINE row == [status |-> "PENDING_KOT", order |-> o, dish |-> d, quantity |-> quantity]
             new == [db EXCEPT !.line[l] = row]
  <2>1. row \in LineRow
    BY DEF LineRow
  <2> HIDE DEF row
  <2>2. new \in Rows /\ new.item = db.item /\ \A k \in Line \ {l} : new.line[k] = db.line[k]
    BY <1>2, <2>1 DEF Rows
  <2>3. Change(w, new, NoEntries) /\ db.line[l].status = "NONE"
    BY <1>1, <1>4 DEF InsertLine, NewLine, row
  <2> HIDE DEF new
  <2> QED BY <1>3, <2>2, <2>3
<1>5. CASE UpdateLine(w)
  <2>1. PICK l \in Line, quantity \in Portions :
               Change(w, [db EXCEPT !.line[l].quantity = quantity], NoEntries)
    BY <1>1, <1>5 DEF UpdateLine, LinesOfOpenOrders
  <2> DEFINE new == [db EXCEPT !.line[l].quantity = quantity]
  <2>2. new.line = [db.line EXCEPT ![l] = [db.line[l] EXCEPT !.quantity = quantity]]
          /\ new.order = db.order /\ new.item = db.item /\ new.recipe = db.recipe
          /\ new = [order |-> new.order, line |-> new.line, item |-> new.item,
                    recipe |-> new.recipe]
    BY <1>2 DEF Rows
  <2>3. [db.line[l] EXCEPT !.quantity = quantity] \in LineRow
          /\ [db.line[l] EXCEPT !.quantity = quantity].status = db.line[l].status
    BY <1>2 DEF Rows, LineRow
  <2> HIDE DEF new
  <2>4. new \in Rows /\ \A k \in Line : new.line[k].status = db.line[k].status
    BY <1>2, <2>2, <2>3 DEF Rows
  <2> QED BY <1>3, <2>1, <2>2, <2>4 DEF new
<1>6. CASE RemoveLine(w)
  <2>1. PICK l \in Line : /\ db.line[l].status = "PENDING_KOT"
                          /\ Change(w, [db EXCEPT !.line[l].status = "REMOVED"], NoEntries)
    BY <1>1, <1>6 DEF RemoveLine, LinesOfOpenOrders
  <2> DEFINE new == [db EXCEPT !.line[l].status = "REMOVED"]
  <2>2. new.line = [db.line EXCEPT ![l] = [db.line[l] EXCEPT !.status = "REMOVED"]]
          /\ new.order = db.order /\ new.item = db.item /\ new.recipe = db.recipe
          /\ new = [order |-> new.order, line |-> new.line, item |-> new.item,
                    recipe |-> new.recipe]
    BY <1>2 DEF Rows
  <2>3. [db.line[l] EXCEPT !.status = "REMOVED"] \in LineRow
    BY <1>2 DEF Rows, LineRow
  <2> HIDE DEF new
  <2>4. new \in Rows /\ \A k \in Line : \/ new.line[k].status = db.line[k].status
                                        \/ db.line[k].status = "PENDING_KOT"
    BY <1>2, <2>1, <2>2, <2>3 DEF Rows
  <2> QED BY <1>3, <2>1, <2>2, <2>4 DEF new
<1>7. CASE CloseOrder(w)
  <2>1. PICK o \in Order, cancel \in BOOLEAN :
               Change(w, [db EXCEPT
                    !.order[o] = "CLOSED",
                    !.line = [l \in Line |->
                      IF cancel /\ @[l].order = o /\ @[l].status # "REMOVED"
                      THEN [@[l] EXCEPT !.status = "CANCELLED"] ELSE @[l]]],
              NoEntries)
    BY <1>1, <1>7 DEF CloseOrder
  <2> DEFINE row(l) == IF cancel /\ db.line[l].order = o /\ db.line[l].status # "REMOVED"
                       THEN [db.line[l] EXCEPT !.status = "CANCELLED"] ELSE db.line[l]
             new == [db EXCEPT
                    !.order[o] = "CLOSED",
                    !.line = [l \in Line |->
                      IF cancel /\ @[l].order = o /\ @[l].status # "REMOVED"
                      THEN [@[l] EXCEPT !.status = "CANCELLED"] ELSE @[l]]]
  <2>2. new.line = [l \in Line |-> row(l)]
          /\ new.order = [db.order EXCEPT ![o] = "CLOSED"]
          /\ new.item = db.item /\ new.recipe = db.recipe
          /\ new = [order |-> new.order, line |-> new.line, item |-> new.item,
                    recipe |-> new.recipe]
    <3>1. new = [db EXCEPT !.order[o] = "CLOSED", !.line = [l \in Line |-> row(l)]]
      OBVIOUS
    <3> HIDE DEF new, row
    <3> QED BY <1>2, <3>1 DEF Rows
  <2>3. \A l \in Line : /\ row(l) \in LineRow
                        /\ row(l).status \in {db.line[l].status, "CANCELLED"}
    BY <1>2 DEF Rows, LineRow
  <2> HIDE DEF new, row
  <2>4. new \in Rows /\ \A k \in Line : new.line[k].status \in {db.line[k].status, "CANCELLED"}
    BY <1>2, <2>2, <2>3 DEF Rows
  <2> QED BY <1>3, <2>1, <2>2, <2>4 DEF new
<1> QED BY <1>4, <1>5, <1>6, <1>7 DEF AddLine, AddOpenLine

\* Rounding to hundredths: it keeps them, keeps the sign, and takes nothing
\* from what a need in hundredths leaves.
LEMMA MoneyFacts ==
  ASSUME NEW x \in Int
  PROVE  /\ Money(x) \in Int /\ Money(x) % 10 = 0
         /\ x % 10 = 0 => Money(x) = x
         /\ x >= 0 => Money(x) >= 0
         /\ x >= Least => Money(x) >= Least
<1> DEFINE h == x \div 10
           r == x % 10
<1>1. h \in Int /\ r \in 0..9 /\ x = 10 * h + r
  OBVIOUS
<1>2. Money(x) = 10 * (IF r < 5 \/ (r = 5 /\ h % 2 = 0) THEN h ELSE h + 1)
  BY DEF Money
<1>3. Money(x) = 10 * h \/ Money(x) = 10 * (h + 1)
  BY <1>2
<1>4. Money(x) = 10 * (h + 1) => r >= 5
  BY <1>1, <1>2
<1>5. ASSUME NEW y \in Int, y >= -5 PROVE Money(y) >= 0
  <2>1. y \div 10 \in Int /\ y % 10 \in 0..9 /\ y = 10 * (y \div 10) + (y % 10)
    OBVIOUS
  <2>2. y \div 10 >= 0 \/ ((y \div 10) + 1 = 0 /\ y % 10 >= 5)
    BY <1>5, <2>1
  <2>3. \A k \in Int : k + 1 = 0 => k % 2 = 1
    OBVIOUS
  <2>4. CASE y \div 10 >= 0
    BY <2>1, <2>4 DEF Money
  <2>5. CASE (y \div 10) + 1 = 0 /\ y % 10 >= 5
    BY <2>1, <2>3, <2>5 DEF Money
  <2> QED BY <2>2, <2>4, <2>5
<1>6. Money(x) \in Int /\ Money(x) % 10 = 0 /\ x >= Money(x) - 5
  BY <1>1, <1>3, <1>4
<1>7. x % 10 = 0 => Money(x) = x
  BY <1>1, <1>2
<1> HIDE DEF h, r
<1>8. x >= 0 => Money(x) >= 0
  BY <1>5
<1>9. x >= -10 => Money(x) >= -10
  BY <1>1, <1>3, <1>4 DEF h, r
<1> QED BY <1>6, <1>7, <1>8, <1>9 DEF Least

\* Line by line, a ticket leaves what is there less what its lines need, to
\* hundredths, if what is there rounds to no less than that.
LEMMA LeftFacts ==
  ASSUME NEW x \in Int, NEW need \in Int, NEW first \in Int,
         need % 10 = 0, first % 10 = 0, first <= need
  PROVE  /\ Left(x, need, first) \in Int
         /\ x % 10 = 0 => Left(x, need, first) = x - need /\ (x - need) % 10 = 0
         /\ Money(x) >= need => Left(x, need, first) >= -10
<1>1. Left(x, need, first) = Money(x - first) - (need - first) /\ x - first \in Int
  BY DEF Left
<1>2. /\ Money(x - first) \in Int /\ Money(x) \in Int
      /\ (x - first) % 10 = 0 => Money(x - first) = x - first
  BY <1>1, MoneyFacts
<1>3. ASSUME NEW y \in Int
      PROVE  y - 5 <= Money(y) /\ Money(y) <= y + 5
  <2>1. y \div 10 \in Int /\ y % 10 \in 0..9 /\ y = 10 * (y \div 10) + (y % 10)
    OBVIOUS
  <2> QED BY <2>1 DEF Money
<1>4. x % 10 = 0 => (x - first) % 10 = 0 /\ (x - need) % 10 = 0
  OBVIOUS
<1>5. Money(x) >= need => Money(x - first) - (need - first) >= -10
  <2>1. Money(x) <= x + 5 /\ x - first - 5 <= Money(x - first)
    BY <1>1, <1>3
  <2> QED BY <1>2, <2>1
<1> QED BY <1>1, <1>2, <1>4, <1>5

\* One item's stock is set, and its entry makes up for it.
LEMMA StockOnly ==
  ASSUME Booked(db, Log), NEW new \in Rows, new.line = db.line, NEW i \in Item,
         \A j \in Item \ {i} : new.item[j] = db.item[j],
         NEW move \in [Item -> Int], \A j \in Item \ {i} : move[j] = 0,
         NEW restart \in SUBSET {i}, NEW entries,
         entries.kot = {}, entries.void = {}, entries.move = move, entries.restart = restart,
         new.item[i].stock >= 0,
         WholeHundredths => new.item[i].stock % 10 = 0,
         WholeHundredths /\ new.item[i].status = "THERE" =>
           new.item[i].stock = (IF i \in restart THEN 0 ELSE Log.sum[i]) + move[i]
  PROVE  Booked(new, Logged(Log, entries)) /\ OnOpenOrders(db, entries)
<1> DEFINE log == Logged(Log, entries)
<1>1. \A ls, j : SumOf({}, ls, j) = 0
  BY SumOfNone
<1>2. Log \in Logs
  BY DEF Booked
<1>3. log.taken = Log.taken /\ log.returned = Log.returned
  BY <1>1, <1>2 DEF Logged, Logs
<1>4. log.sum = [j \in Item |-> (IF j \in restart THEN 0 ELSE Log.sum[j]) + move[j]]
  <2>1. \A j \in Item : Log.sum[j] \in Int /\ move[j] \in Int
    BY <1>2 DEF Logs
  <2> QED BY <1>1, <2>1 DEF Logged
<1>5. log = [sum |-> log.sum, taken |-> log.taken, returned |-> log.returned]
  BY DEF Logged
<1> HIDE DEF log
<1>6. log \in Logs
  BY <1>2, <1>3, <1>4, <1>5 DEF Logs
<1>7. ASSUME NEW l \in Line, NEW j \in Item PROVE LineBooked(new, log, l, j)
  BY <1>3 DEF Booked, LineBooked
<1>8. NoneMissing(new)
  <2>1. Least \in {0, -10} /\ new.item[i].stock \in Int
    BY DEF Least, Rows, ItemRow
  <2>2. new.item[i].stock >= Least
    BY <2>1
  <2> QED BY <2>2 DEF Booked, NoneMissing
<1>9. Balanced(new, log)
  <2> SUFFICES ASSUME WholeHundredths
               PROVE  /\ \A j \in Item : new.item[j].stock % 10 = 0
                      /\ \A e \in Line \X Item : log.taken[e] % 10 = 0
                      /\ \A j \in Item : new.item[j].status = "THERE" =>
                                           new.item[j].stock = log.sum[j]
    BY DEF Balanced
  <2>1. \A j \in Item : new.item[j].stock % 10 = 0
    BY DEF Booked, Balanced
  <2>2. \A e \in Line \X Item : log.taken[e] % 10 = 0
    BY <1>3 DEF Booked, Balanced
  <2>3. ASSUME NEW j \in Item \ {i}, new.item[j].status = "THERE"
        PROVE  new.item[j].stock = log.sum[j]
    <3>1. log.sum[j] = Log.sum[j] + 0 /\ Log.sum[j] \in Int
      BY <1>2, <1>4 DEF Logs
    <3>2. new.item[j] = db.item[j]
      OBVIOUS
    <3>3. db.item[j].stock = Log.sum[j]
      BY <2>3, <3>2 DEF Booked, Balanced
    <3> QED BY <3>1, <3>2, <3>3
  <2>4. new.item[i].status = "THERE" => new.item[i].stock = log.sum[i]
    BY <1>4
  <2> QED BY <2>1, <2>2, <2>3, <2>4
<1>10. OnOpenOrders(db, entries)
  BY DEF OnOpenOrders
<1> QED BY <1>6, <1>7, <1>8, <1>9, <1>10 DEF Booked, log

\* set_daily_stock: the stock is the new opening, from which the log restarts.
LEMMA DailyBooked ==
  ASSUME Booked(db, Log), NEW rows \in Rows, rows.line = db.line, NEW i \in Item,
         \A j \in Item \ {i} : rows.item[j] = db.item[j],
         NEW quantity \in Opening, today \in 1..LastToday
  PROVE  /\ Booked(SetDaily(rows, i, quantity), Logged(Log, DailyOpening(i, quantity)))
         /\ OnOpenOrders(db, DailyOpening(i, quantity))
<1> DEFINE entries == DailyOpening(i, quantity)
           new == SetDaily(rows, i, quantity)
           row == [rows.item[i] EXCEPT !.stock = Money(quantity), !.date = today]
           move == [[j \in Item |-> 0] EXCEPT ![i] = Money(quantity)]
<1>1. quantity \in Nat
  BY KitchenAssumption
<1>2. Money(quantity) \in Int /\ Money(quantity) % 10 = 0 /\ Money(quantity) >= 0
  BY <1>1, MoneyFacts
<1>3. new = [order |-> rows.order, line |-> rows.line,
             item |-> [rows.item EXCEPT ![i] = row], recipe |-> rows.recipe]
  <2>1. new = [rows EXCEPT !.item = [rows.item EXCEPT ![i] = row]]
    BY DEF SetDaily, Rows
  <2> HIDE DEF new, row
  <2> QED BY <2>1 DEF Rows
<1>4. row \in ItemRow /\ row.stock = Money(quantity)
  <2>1. rows.item[i] \in ItemRow /\ today \in 0..LastToday
    BY KitchenAssumption DEF Rows
  <2> QED BY <1>2, <2>1 DEF ItemRow
<1>5. entries.kot = {} /\ entries.void = {} /\ entries.move = move /\ entries.restart = {i}
  BY DEF DailyOpening, NoEntries
<1>6. move \in [Item -> Int] /\ move[i] = Money(quantity) /\ \A j \in Item \ {i} : move[j] = 0
  BY <1>2
<1> HIDE DEF new, row, move, entries
<1>7. new \in Rows /\ new.item[i] = row /\ \A j \in Item \ {i} : new.item[j] = db.item[j]
  BY <1>3, <1>4 DEF Rows
<1>8. new.item[i].stock = Money(quantity) /\ new.line = db.line
  BY <1>3, <1>4, <1>7
<1>9. new.item[i].stock = (IF i \in {i} THEN 0 ELSE Log.sum[i]) + move[i]
  BY <1>2, <1>6, <1>8
<1>10. Booked(new, Logged(Log, entries)) /\ OnOpenOrders(db, entries)
  BY <1>2, <1>5, <1>6, <1>7, <1>8, <1>9, StockOnly
<1> QED BY <1>10 DEF new, entries

\* The handlers that set or adjust stock.
LEMMA StockStep ==
  ASSUME SerialInv, NEW w \in Worker, req[w].pc = "reading",
         SetDailyStock(w) \/ TrackMenuStock(w) \/ AdjustStock(w)
  PROVE  SerialInv'
<1>1. Loaded(w) = db
  BY LoadedIsDb
<1>2. db \in Rows /\ Booked(db, Log) /\ today \in 1..LastToday
  BY DEF SerialInv, Booked
<1>3. CASE SetDailyStock(w)
  <2>1. PICK i \in Item, quantity \in Opening :
               Change(w, SetDaily(db, i, quantity), DailyOpening(i, quantity))
    BY <1>1, <1>3 DEF SetDailyStock
  <2> QED BY <1>2, <2>1, DailyBooked, BooksChange
<1>4. CASE TrackMenuStock(w)
  <2> DEFINE linked(d, i, p) == [db EXCEPT !.recipe[d][i] = p]
             tracked(d, i, p) == [linked(d, i, p) EXCEPT !.item[i].status = "THERE",
                                                         !.item[i].daily = TRUE]
  <2>1. PICK d \in Dish, i \in Item, p \in Amount, quantity \in Opening :
          \E rows \in {linked(d, i, p), tracked(d, i, p)} :
            Change(w, SetDaily(rows, i, quantity), DailyOpening(i, quantity))
    <3>1. PICK d \in Dish, i \in Item, p \in Amount, quantity \in Opening :
            \/ Change(w, SetDaily([[Loaded(w) EXCEPT !.recipe[d][i] = p] EXCEPT
                                     !.item[i].status = "THERE", !.item[i].daily = TRUE],
                                  i, quantity), DailyOpening(i, quantity))
            \/ Change(w, SetDaily([Loaded(w) EXCEPT !.recipe[d][i] = p], i, quantity),
                      DailyOpening(i, quantity))
      <4>1. PICK d \in Dish, i \in Item, p \in Amount, quantity \in Opening :
              LET l == [Loaded(w) EXCEPT !.recipe[d][i] = p]
              IN \/ /\ LinkedItems(d) = {} /\ NewItem(i)
                    /\ Change(w, SetDaily([l EXCEPT !.item[i].status = "THERE",
                                                    !.item[i].daily = TRUE], i, quantity),
                              DailyOpening(i, quantity))
                 \/ /\ LinkedItems(d) = {i}
                    /\ Change(w, SetDaily(l, i, quantity), DailyOpening(i, quantity))
        BY <1>4 DEF TrackMenuStock
      <4> QED BY <4>1
    <3>2. CASE Change(w, SetDaily(tracked(d, i, p), i, quantity), DailyOpening(i, quantity))
      BY <3>2
    <3>3. CASE Change(w, SetDaily(linked(d, i, p), i, quantity), DailyOpening(i, quantity))
      BY <3>3
    <3> QED BY <1>1, <3>1, <3>2, <3>3
  <2>2. p \in Nat
    BY KitchenAssumption
  <2> DEFINE recipe == [db.recipe EXCEPT ![d] = [db.recipe[d] EXCEPT ![i] = p]]
             item == [db.item EXCEPT ![i] = [db.item[i] EXCEPT !.status = "THERE",
                                                               !.daily = TRUE]]
  <2>3. recipe \in [Dish -> [Item -> Nat]]
    BY <1>2, <2>2 DEF Rows
  <2>4. [db.item[i] EXCEPT !.status = "THERE", !.daily = TRUE] \in ItemRow
    BY <1>2 DEF Rows, ItemRow
  <2>5. item \in [Item -> ItemRow] /\ \A j \in Item \ {i} : item[j] = db.item[j]
    BY <1>2, <2>4 DEF Rows
  <2>6. linked(d, i, p) = [order |-> db.order, line |-> db.line, item |-> db.item,
                           recipe |-> recipe]
    <3>1. linked(d, i, p) = [db EXCEPT !.recipe = recipe]
      BY <1>2 DEF Rows
    <3> HIDE DEF linked, recipe
    <3> QED BY <1>2, <3>1 DEF Rows
  <2>7. tracked(d, i, p) = [order |-> db.order, line |-> db.line, item |-> item,
                            recipe |-> recipe]
    <3> DEFINE before == linked(d, i, p)
    <3>1. before \in Rows /\ before.item = db.item
      <4> HIDE DEF before, linked, recipe
      <4>1. before = [order |-> db.order, line |-> db.line, item |-> db.item, recipe |-> recipe]
        BY <2>6 DEF before
      <4> QED BY <1>2, <2>3, <4>1 DEF Rows
    <3>2. tracked(d, i, p) = [before EXCEPT !.item[i].status = "THERE", !.item[i].daily = TRUE]
      OBVIOUS
    <3>3. before = [order |-> db.order, line |-> db.line, item |-> db.item, recipe |-> recipe]
      BY <2>6
    <3> HIDE DEF before, linked, tracked, recipe
    <3>4. tracked(d, i, p) = [before EXCEPT !.item = [before.item EXCEPT ![i] =
                               [before.item[i] EXCEPT !.status = "THERE", !.daily = TRUE]]]
      BY <3>1, <3>2 DEF Rows
    <3>5. tracked(d, i, p) = [before EXCEPT !.item = item]
      BY <3>1, <3>4
    <3> HIDE DEF item
    <3> QED BY <3>3, <3>5
  <2> HIDE DEF recipe, item, linked, tracked
  <2>8. PICK rows \in {linked(d, i, p), tracked(d, i, p)} :
          Change(w, SetDaily(rows, i, quantity), DailyOpening(i, quantity))
    BY <2>1
  <2>9. rows \in Rows /\ rows.line = db.line /\ \A j \in Item \ {i} : rows.item[j] = db.item[j]
    BY <1>2, <2>3, <2>5, <2>6, <2>7, <2>8 DEF Rows
  <2> QED BY <1>2, <2>8, <2>9, DailyBooked, BooksChange
<1>5. CASE AdjustStock(w)
  <2>a. PICK i \in Item :
          \E next \in Opening \cup {db.item[i].stock + a : a \in Amount}
                              \cup {db.item[i].stock - a : a \in Amount} :
            /\ There(i) /\ next \in 0..MaxStock
            /\ Change(w, [db EXCEPT !.item[i].stock = next],
                      [NoEntries EXCEPT !.move[i] = next - db.item[i].stock])
    BY <1>1, <1>5 DEF AdjustStock
  <2>1. PICK next :
          /\ next \in Opening \cup {db.item[i].stock + a : a \in Amount}
                              \cup {db.item[i].stock - a : a \in Amount}
          /\ There(i) /\ next \in 0..MaxStock
          /\ Change(w, [db EXCEPT !.item[i].stock = next],
                    [NoEntries EXCEPT !.move[i] = next - db.item[i].stock])
    BY <2>a
  <2> DEFINE row == [db.item[i] EXCEPT !.stock = next]
             new == [db EXCEPT !.item[i].stock = next]
             entries == [NoEntries EXCEPT !.move[i] = next - db.item[i].stock]
             move == [[j \in Item |-> 0] EXCEPT ![i] = next - db.item[i].stock]
  <2>2. db.item[i].stock \in Int /\ next \in Int /\ next >= 0
    BY <1>2, <2>1, KitchenAssumption DEF Rows, ItemRow
  <2>3. row \in ItemRow /\ row.stock = next /\ row.status = "THERE"
    BY <1>2, <2>1, <2>2 DEF Rows, ItemRow, There
  <2>4. new.item = [db.item EXCEPT ![i] = row]
          /\ new = [order |-> db.order, line |-> db.line, item |-> new.item,
                    recipe |-> db.recipe]
    BY <1>2 DEF Rows
  <2>5. entries.kot = {} /\ entries.void = {} /\ entries.move = move /\ entries.restart = {}
    BY DEF NoEntries
  <2>6. move \in [Item -> Int] /\ move[i] = next - db.item[i].stock
          /\ \A j \in Item \ {i} : move[j] = 0
    BY <2>2
  <2> HIDE DEF row, new, entries, move
  <2>7. new \in Rows /\ new.item[i] = row /\ new.line = db.line
          /\ \A j \in Item \ {i} : new.item[j] = db.item[j]
    BY <1>2, <2>3, <2>4 DEF Rows
  <2>8. WholeHundredths => next % 10 = 0
    <3> SUFFICES ASSUME WholeHundredths PROVE next % 10 = 0
      OBVIOUS
    <3>1. db.item[i].stock % 10 = 0
      BY <1>2 DEF Booked, Balanced
    <3>2. \A a \in Amount : a \in Int /\ a % 10 = 0
      BY KitchenAssumption DEF WholeHundredths
    <3>3. \A a \in Opening : a % 10 = 0
      BY DEF WholeHundredths
    <3>4. CASE next \in Opening
      BY <3>3, <3>4
    <3>5. CASE next \in {db.item[i].stock + a : a \in Amount}
      <4>1. PICK a \in Amount : next = db.item[i].stock + a
        BY <3>5
      <4>2. db.item[i].stock \in Int /\ a \in Int /\ a % 10 = 0
        BY <2>2, <3>2
      <4> QED BY <3>1, <4>1, <4>2
    <3>6. CASE next \in {db.item[i].stock - a : a \in Amount}
      <4>1. PICK a \in Amount : next = db.item[i].stock - a
        BY <3>6
      <4>2. db.item[i].stock \in Int /\ a \in Int /\ a % 10 = 0
        BY <2>2, <3>2
      <4> QED BY <3>1, <4>1, <4>2
    <3> QED BY <2>1, <3>4, <3>5, <3>6
  <2>9. WholeHundredths => next = (IF i \in {} THEN 0 ELSE Log.sum[i]) + move[i]
    <3> SUFFICES ASSUME WholeHundredths PROVE next = Log.sum[i] + move[i]
      OBVIOUS
    <3>1. Log.sum[i] = db.item[i].stock
      BY <1>2, <2>1 DEF Booked, Balanced, There
    <3> QED BY <2>2, <2>6, <3>1
  <2>10. Booked(new, Logged(Log, entries)) /\ OnOpenOrders(db, entries)
    BY <1>2, <2>2, <2>3, <2>5, <2>6, <2>7, <2>8, <2>9, StockOnly
  <2>11. Change(w, new, entries)
    BY <2>1 DEF new, entries
  <2> QED BY <2>10, <2>11, BooksChange
<1> QED BY <1>3, <1>4, <1>5

\* cancel_line: what is given back is what the ticket took, once.
LEMMA CancelStep ==
  ASSUME SerialInv, NEW w \in Worker, req[w].pc = "reading", CancelLine(w)
  PROVE  SerialInv'
<1>1. Loaded(w) = db /\ req[w].seen.order = db.order /\ req[w].seen.line = db.line
  BY LoadedIsDb
<1>2. db \in Rows /\ Booked(db, Log) /\ Log \in Logs
  BY DEF SerialInv, Booked
<1>3. PICK l \in LinesOfOpenOrders(w, {"PENDING_KOT", "IN_KOT"}) :
        LET sent == req[w].seen.line[l].status = "IN_KOT"
            back == {i \in Item : sent /\ There(i) /\ ToRestore(l, i) > 0}
            cancelled == [Loaded(w) EXCEPT !.line[l].status = "CANCELLED"]
        IN Change(w,
             [cancelled EXCEPT !.item = [i \in Item |->
                IF i \in back
                THEN [@[i] EXCEPT !.stock = Money(db.item[i].stock + ToRestore(l, i))]
                ELSE @[i]]],
             [NoEntries EXCEPT !.void = {<<l, i, ToRestore(l, i)>> : i \in back}])
  BY DEF CancelLine
<1>4. l \in Line /\ db.line[l].status \in {"PENDING_KOT", "IN_KOT"}
        /\ db.order[db.line[l].order] = "OPEN"
  BY <1>1 DEF LinesOfOpenOrders
<1> DEFINE T(i) == ToRestore(l, i)
           back == {i \in Item : /\ req[w].seen.line[l].status = "IN_KOT"
                                 /\ There(i) /\ T(i) > 0}
           line == [db.line EXCEPT ![l] = [db.line[l] EXCEPT !.status = "CANCELLED"]]
           row(i) == [db.item[i] EXCEPT !.stock = Money(db.item[i].stock + T(i))]
           item == [i \in Item |-> IF i \in back THEN row(i) ELSE db.item[i]]
           void == {<<l, i, T(i)>> : i \in back}
           new == [order |-> db.order, line |-> line, item |-> item, recipe |-> db.recipe]
           entries == [NoEntries EXCEPT !.void = void]
           log == Logged(Log, entries)
<1>5. Change(w, new, entries)
  <2> DEFINE cancelled == [db EXCEPT !.line[l].status = "CANCELLED"]
  <2>2. cancelled = [order |-> db.order, line |-> line, item |-> db.item,
                     recipe |-> db.recipe]
    <3>1. cancelled = [db EXCEPT !.line = line]
      BY <1>2 DEF Rows
    <3> HIDE DEF cancelled, line
    <3> QED BY <1>2, <3>1 DEF Rows
  <2>3. Change(w, [cancelled EXCEPT !.item = [i \in Item |->
                     IF i \in back THEN [cancelled.item[i] EXCEPT
                                           !.stock = Money(db.item[i].stock + T(i))]
                     ELSE cancelled.item[i]]], entries)
    BY <1>1, <1>3
  <2>4. [cancelled EXCEPT !.item = item] = new
    <3> HIDE DEF cancelled, line, item
    <3> QED BY <2>2
  <2>5. cancelled.item = db.item
    <3> HIDE DEF cancelled, line
    <3> QED BY <2>2
  <2> HIDE DEF cancelled, new, entries, back
  <2> QED BY <2>3, <2>4, <2>5
<1>19. \A i \in Item : T(i) = Log.taken[<<l, i>>]
  BY DEF ToRestore, Log
<1>6. \A i \in Item : T(i) \in Nat /\ db.item[i].stock \in Int
  <2>1. \A i \in Item : Log.taken[<<l, i>>] \in Nat
    BY <1>2, <1>4 DEF Logs
  <2>2. \A i \in Item : db.item[i].stock \in Int
    BY <1>2 DEF Rows, ItemRow
  <2> QED BY <1>19, <2>1, <2>2
<1>20. /\ back \subseteq Item
       /\ \A i \in back : There(i) /\ db.line[l].status = "IN_KOT"
  BY <1>1
<1>21. /\ \A k \in void : \E i \in back : k = <<l, i, T(i)>>
       /\ \A i \in back : <<l, i, T(i)>> \in void
  OBVIOUS
<1> HIDE DEF T, back, void
<1>7. \A i \in Item : Money(db.item[i].stock + T(i)) \in Int
  <2> TAKE i \in Item
  <2>1. db.item[i].stock + T(i) \in Int
    BY <1>6
  <2> QED BY <2>1, MoneyFacts
<1>8. ASSUME NEW ls, NEW i \in Item
      PROVE  SumOf(void, ls, i) = IF l \in ls /\ i \in back THEN T(i) ELSE 0
  <2> DEFINE K == {k \in void : k[1] \in ls /\ k[2] = i}
             f == [e \in K |-> e[3]]
  <2>1. SumOf(void, ls, i) = SumFunctionOnSet(f, K)
    BY DEF SumOf, SumFunction
  <2>2. CASE l \in ls /\ i \in back
    <3>1. K = {<<l, i, T(i)>>}
      <4>1. <<l, i, T(i)>> \in K
        BY <1>21, <2>2
      <4>2. \A k \in K : k = <<l, i, T(i)>>
        BY <1>21
      <4> QED BY <4>1, <4>2
    <3>2. f[<<l, i, T(i)>>] = T(i)
      BY <3>1
    <3> HIDE DEF f, K
    <3> DEFINE k == <<l, i, T(i)>>
    <3>3. SumFunctionOnSet(f, {k}) = f[k]
      <4>1. f[k] \in Int
        BY <1>6, <3>2
      <4> HIDE DEF f, k
      <4> QED BY <4>1, SumSingleton
    <3> QED BY <2>1, <2>2, <3>1, <3>2, <3>3
  <2>3. CASE ~ (l \in ls /\ i \in back)
    <3>1. K = {}
      BY <1>21, <2>3
    <3> HIDE DEF f, K
    <3> QED BY <2>1, <2>3, <3>1, SumEmpty
  <2> QED BY <2>2, <2>3
<1>9. new \in Rows
  <2>1. [db.line[l] EXCEPT !.status = "CANCELLED"] \in LineRow
    BY <1>2, <1>4 DEF Rows, LineRow
  <2>2. \A i \in Item : row(i) \in ItemRow
    BY <1>2, <1>7 DEF Rows, ItemRow
  <2> HIDE DEF row
  <2> QED BY <1>2, <2>1, <2>2 DEF Rows
<1>10. entries.kot = {} /\ entries.void = void /\ entries.restart = {}
         /\ entries.move = [i \in Item |-> 0]
  BY DEF NoEntries
<1>11. log = [sum |-> [i \in Item |-> Log.sum[i] + (IF i \in back THEN T(i) ELSE 0)],
              taken |-> Log.taken,
              returned |-> [e \in Line \X Item |->
                 Log.returned[e] + (IF e[1] = l /\ e[2] \in back THEN T(e[2]) ELSE 0)]]
  <2>1. \A ls, i : SumOf({}, ls, i) = 0
    BY SumOfNone
  <2>2. log.sum = [i \in Item |-> Log.sum[i] + (IF i \in back THEN T(i) ELSE 0)]
    <3>1. ASSUME NEW i \in Item
          PROVE  (IF i \in {} THEN 0 ELSE Log.sum[i]) + 0 - 0 + SumOf(void, Line, i)
                   = Log.sum[i] + (IF i \in back THEN T(i) ELSE 0)
      <4>1. SumOf(void, Line, i) = IF i \in back THEN T(i) ELSE 0
        BY <1>4, <1>8
      <4>2. Log.sum[i] \in Int
        BY <1>2 DEF Logs
      <4> QED BY <1>6, <4>1, <4>2
    <3> HIDE DEF entries
    <3> QED BY <1>10, <2>1, <3>1 DEF Logged
  <2>3. log.taken = Log.taken
    <3>1. \A e \in Line \X Item : Log.taken[e] + SumOf(entries.kot, {e[1]}, e[2]) = Log.taken[e]
      <4> HIDE DEF entries
      <4> QED BY <1>2, <1>10, <2>1 DEF Logs
    <3> HIDE DEF entries
    <3> QED BY <1>2, <3>1 DEF Logged, Logs
  <2>4. log.returned = [e \in Line \X Item |->
           Log.returned[e] + (IF e[1] = l /\ e[2] \in back THEN T(e[2]) ELSE 0)]
    <3>1. \A e \in Line \X Item : SumOf(entries.void, {e[1]}, e[2])
                = (IF e[1] = l /\ e[2] \in back THEN T(e[2]) ELSE 0)
      <4> HIDE DEF entries
      <4> QED BY <1>8, <1>10
    <3> HIDE DEF entries
    <3> QED BY <3>1 DEF Logged
  <2> HIDE DEF entries
  <2> QED BY <2>2, <2>3, <2>4 DEF Logged
<1> DEFINE plus(i) == IF i \in back THEN T(i) ELSE 0
<1>12. \A i \in Item : plus(i) \in Nat
  BY <1>6
<1>13. log \in Logs
  <2> HIDE DEF log
  <2> QED BY <1>2, <1>11, <1>12 DEF Logs
<1>14. ASSUME NEW k \in Line, NEW i \in Item PROVE LineBooked(new, log, k, i)
  <2>1. LineBooked(db, Log, k, i) /\ Log.returned[<<k, i>>] \in Nat
    BY <1>2 DEF Booked, Logs
  <2>2. log.taken[<<k, i>>] = Log.taken[<<k, i>>]
    BY <1>11
  <2>3. log.returned[<<k, i>>] = Log.returned[<<k, i>>] + (IF k = l /\ i \in back THEN T(i) ELSE 0)
    <3> HIDE DEF log
    <3> QED BY <1>11
  <2>4. new.line[k].status = IF k = l THEN "CANCELLED" ELSE db.line[k].status
    BY <1>2, <1>4 DEF Rows, LineRow
  <2> HIDE DEF log, new
  <2> QED BY <1>4, <1>6, <1>19, <1>20, <2>1, <2>2, <2>3, <2>4 DEF LineBooked
<1>15. ASSUME NEW i \in Item
       PROVE  /\ new.item[i].status = db.item[i].status
              /\ i \notin back => new.item[i].stock = db.item[i].stock
              /\ i \in back => new.item[i].stock = Money(db.item[i].stock + T(i))
                               /\ db.item[i].status = "THERE"
  BY <1>2, <1>20 DEF Rows, ItemRow, There
<1>16. NoneMissing(new)
  <2> HIDE DEF new
  <2> SUFFICES ASSUME NEW i \in Item, new.item[i].status = "THERE"
               PROVE  new.item[i].stock >= Least
    BY DEF NoneMissing
  <2>1. db.item[i].stock >= Least /\ Least \in Int
    BY <1>2, <1>15 DEF Booked, NoneMissing, Least
  <2>2. Money(db.item[i].stock + T(i)) >= Least
    BY <1>6, <2>1, MoneyFacts
  <2> QED BY <1>15, <2>1, <2>2
<1>17. Balanced(new, log)
  <2> HIDE DEF new, log
  <2> SUFFICES ASSUME WholeHundredths
               PROVE  /\ \A i \in Item : new.item[i].stock % 10 = 0
                      /\ \A e \in Line \X Item : log.taken[e] % 10 = 0
                      /\ \A i \in Item : new.item[i].status = "THERE" =>
                                           new.item[i].stock = log.sum[i]
    BY DEF Balanced
  <2>1. \A e \in Line \X Item : log.taken[e] % 10 = 0
    BY <1>2, <1>11 DEF Booked, Balanced
  <2>2. ASSUME NEW i \in Item
        PROVE  new.item[i].stock = db.item[i].stock + plus(i) /\ plus(i) % 10 = 0
                 /\ db.item[i].stock % 10 = 0
    <3>1. db.item[i].stock % 10 = 0 /\ T(i) % 10 = 0
      BY <1>2, <1>4, <1>19 DEF Booked, Balanced
    <3>2. (db.item[i].stock + T(i)) % 10 = 0
      BY <1>6, <3>1
    <3>3. Money(db.item[i].stock + T(i)) = db.item[i].stock + T(i)
      BY <1>6, <3>2, MoneyFacts
    <3> QED BY <1>6, <1>15, <3>1, <3>3
  <2>3. ASSUME NEW i \in Item PROVE new.item[i].stock % 10 = 0
    BY <1>6, <1>12, <2>2
  <2>4. ASSUME NEW i \in Item, new.item[i].status = "THERE"
        PROVE  new.item[i].stock = log.sum[i]
    <3>1. log.sum[i] = Log.sum[i] + plus(i)
      BY <1>11
    <3>2. db.item[i].stock = Log.sum[i]
      BY <1>2, <1>15, <2>4 DEF Booked, Balanced
    <3> QED BY <2>2, <3>1, <3>2
  <2> QED BY <2>1, <2>3, <2>4
<1>18. OnOpenOrders(db, entries)
  <2>1. \A k \in void : k[1] = l
    BY <1>21
  <2> HIDE DEF entries
  <2> QED BY <1>4, <1>10, <2>1 DEF OnOpenOrders
<1> HIDE DEF new, entries, log
<1> QED BY <1>5, <1>9, <1>13, <1>14, <1>16, <1>17, <1>18, BooksChange DEF Booked, log

\* Sums of hundredths are hundredths.
LEMMA SumTens ==
  ASSUME NEW f, NEW S, IsFiniteSet(S), \A x \in S : f[x] \in Int /\ f[x] % 10 = 0
  PROVE  SumFunctionOnSet(f, S) % 10 = 0
<1> DEFINE B == {s \in SUBSET S : SumFunctionOnSet(f, s) % 10 # 0}
<1>1. SUFFICES ASSUME B # {} PROVE FALSE
  OBVIOUS
<1>2. PICK s \in B : \A t \in B : t \subseteq s => t = s
  <2>1. B \in SUBSET SUBSET S
    OBVIOUS
  <2> HIDE DEF B
  <2> QED BY <1>1, <2>1, SmallestSubset
<1>3. s \in SUBSET S /\ SumFunctionOnSet(f, s) % 10 # 0
  OBVIOUS
<1>4. IsFiniteSet(s) /\ s # {}
  <2>1. SumFunctionOnSet(f, {}) % 10 = 0
    BY SumEmpty
  <2> QED BY <1>3, <2>1, FS_Subset
<1>5. PICK x \in s : TRUE
  BY <1>4
<1>6. SumFunctionOnSet(f, s \ {x}) % 10 = 0
  BY <1>2
<1>7. SumFunctionOnSet(f, s) = f[x] + SumFunctionOnSet(f, s \ {x})
  BY <1>3, <1>4, SumTakeOut
<1>8. SumFunctionOnSet(f, s \ {x}) \in Int
  <2>1. IsFiniteSet(s \ {x})
    BY <1>4, FS_Subset
  <2> QED BY <1>3, <2>1, SumInt
<1>9. f[x] \in Int /\ f[x] % 10 = 0
  BY <1>3
<1> HIDE DEF B
<1> QED BY <1>3, <1>6, <1>7, <1>8, <1>9

\* What a ticket takes for a line is in hundredths.
LEMMA NeedFacts ==
  ASSUME db \in Rows, NEW l \in Line, NEW i \in LinkedItems(db.line[l].dish)
  PROVE  /\ i \in Item /\ Need(db.line[l], i) \in Nat /\ Need(db.line[l], i) % 10 = 0
<1>1. i \in Item /\ db.line[l].dish \in Dish
  BY DEF LinkedItems, Rows, LineRow
<1>2. db.recipe[db.line[l].dish][i] \in Nat
  BY <1>1 DEF Rows
<1>3. db.line[l].quantity \in Nat
  <2>1. db.line[l].quantity \in Portions \/ db.line[l].quantity = 0
    BY DEF Rows, LineRow
  <2>2. \A p \in Portions : p \in Nat
    BY KitchenAssumption
  <2> QED BY <2>1, <2>2
<1>4. db.recipe[db.line[l].dish][i] * db.line[l].quantity \in Nat
  BY <1>2, <1>3
<1> QED BY <1>1, <1>4, MoneyFacts DEF Need

\* Entries for the places of some lines, item by item.
LEMMA KotSum ==
  ASSUME db \in Rows, NEW places, \A e \in places : e \in Line \X Item
                                    /\ e[2] \in LinkedItems(db.line[e[1]].dish),
         NEW ls, NEW i \in Item
  PROVE  LET kot == {<<e[1], e[2], Need(db.line[e[1]], e[2])>> : e \in places}
             lines == {l \in Line \cap ls : <<l, i>> \in places}
         IN /\ SumOf(kot, ls, i) = SumFunctionOnSet([l \in lines |-> Need(db.line[l], i)], lines)
            /\ SumOf(kot, ls, i) \in Nat /\ SumOf(kot, ls, i) % 10 = 0
<1> DEFINE kot == {<<e[1], e[2], Need(db.line[e[1]], e[2])>> : e \in places}
           lines == {l \in Line \cap ls : <<l, i>> \in places}
           K == {k \in kot : k[1] \in ls /\ k[2] = i}
           g == [e \in K |-> e[3]]
           f == [l \in lines |-> Need(db.line[l], i)]
           h == [l \in lines |-> <<l, i, Need(db.line[l], i)>>]
<1>1. IsFiniteSet(lines)
  BY KitchenAssumption, FS_Subset
<1>2. \A l \in lines : f[l] \in Nat /\ f[l] % 10 = 0
  BY NeedFacts
<1>3. K = {h[l] : l \in lines}
  <2>1. ASSUME NEW k \in K PROVE k \in {h[l] : l \in lines}
    <3>1. PICK e \in places : k = <<e[1], e[2], Need(db.line[e[1]], e[2])>>
      OBVIOUS
    <3>2. e \in Line \X Item /\ e[1] \in ls /\ e[2] = i
      BY <3>1
    <3>3. e = <<e[1], i>> /\ e[1] \in lines
      BY <3>2
    <3>4. k = h[e[1]]
      BY <3>1, <3>3
    <3> QED BY <3>3, <3>4
  <2>2. ASSUME NEW l \in lines PROVE h[l] \in K
    <3>1. h[l] = <<l, i, Need(db.line[l], i)>>
      OBVIOUS
    <3>2. h[l] \in kot
      BY <3>1
    <3> QED BY <3>1, <3>2
  <2> QED BY <2>1, <2>2
<1>4. \A l \in lines : h[l] \in K /\ g[h[l]] = f[l]
  <2>1. \A l \in lines : h[l] \in K /\ h[l][3] = f[l]
    BY <1>3
  <2> QED BY <2>1
<1>5. \A l, m \in lines : h[l] = h[m] => l = m
  OBVIOUS
<1>6. SumOf(kot, ls, i) = SumFunctionOnSet(g, K)
  BY DEF SumOf, SumFunction
<1> HIDE DEF kot, K, lines, f, g, h
<1>7. SumFunctionOnSet(g, K) = SumFunctionOnSet(f, lines)
  BY <1>1, <1>2, <1>3, <1>4, <1>5, SumReindex
<1>8. SumFunctionOnSet(f, lines) \in Nat /\ SumFunctionOnSet(f, lines) % 10 = 0
  BY <1>1, <1>2, SumNat, SumTens
<1>9. /\ SumOf(kot, ls, i) = SumFunctionOnSet(f, lines)
      /\ SumOf(kot, ls, i) \in Nat /\ SumOf(kot, ls, i) % 10 = 0
  BY <1>6, <1>7, <1>8
<1> QED BY <1>9 DEF kot, lines, f

\* A part of the pending lines needs no more than all of them.
LEMMA PendingCovers ==
  ASSUME db \in Rows, NEW i \in Item, NEW lines \in SUBSET Line,
         \A l \in lines : /\ db.line[l].status = "PENDING_KOT"
                          /\ db.order[db.line[l].order] = "OPEN"
                          /\ i \in LinkedItems(db.line[l].dish)
  PROVE  SumFunctionOnSet([l \in lines |-> Need(db.line[l], i)], lines) <= PendingNeed(i)
<1> DEFINE pending == {l \in Line : /\ db.line[l].status = "PENDING_KOT"
                                    /\ db.order[db.line[l].order] = "OPEN"
                                    /\ i \in LinkedItems(db.line[l].dish)}
           f == [l \in pending |-> Need(db.line[l], i)]
           g == [l \in lines |-> Need(db.line[l], i)]
<1>1. PendingNeed(i) = SumFunctionOnSet(f, pending)
  BY DEF PendingNeed, SumFunction
<1>2. \A l \in pending : f[l] \in Nat
  BY NeedFacts
<1>3. lines \in SUBSET pending /\ IsFiniteSet(pending) /\ IsFiniteSet(lines)
  BY KitchenAssumption, FS_Subset
<1>4. \A l \in lines : g[l] = f[l]
  OBVIOUS
<1> HIDE DEF pending, f, g
<1>5. SumFunctionOnSet(g, lines) = SumFunctionOnSet(f, lines)
  BY <1>3, <1>4, SumSame
<1>6. SumFunctionOnSet(f, lines) <= SumFunctionOnSet(f, pending)
  BY <1>2, <1>3, SumSubset
<1>7. SumFunctionOnSet(g, lines) <= PendingNeed(i)
  BY <1>1, <1>5, <1>6
<1> QED BY <1>7 DEF g

\* Rows with new lines and new stock.
LEMMA TwoColumns ==
  ASSUME NEW d \in Rows, NEW a, NEW b
  PROVE  [d EXCEPT !.line = a, !.item = b]
           = [order |-> d.order, line |-> a, item |-> b, recipe |-> d.recipe]
<1>1. d = [order |-> d.order, line |-> d.line, item |-> d.item, recipe |-> d.recipe]
  BY DEF Rows
<1> DEFINE e == [d EXCEPT !.line = a]
<1>2. e = [order |-> d.order, line |-> a, item |-> d.item, recipe |-> d.recipe]
  BY <1>1
<1>3. [d EXCEPT !.line = a, !.item = b] = [e EXCEPT !.item = b]
  BY <1>1
<1> HIDE DEF e
<1> QED BY <1>2, <1>3

\* Of the lines that take an item one is the first.
LEMMA FirstLine ==
  ASSUME NEW lines, IsFiniteSet(lines), lines # {}, NEW rank, \A l \in lines : rank[l] \in Int
  PROVE  (CHOOSE l \in lines : \A m \in lines : rank[l] <= rank[m]) \in lines
<1> DEFINE ranks == {rank[l] : l \in lines}
<1>1. IsFiniteSet(ranks)
  <2> DEFINE f == [l \in lines |-> rank[l]]
  <2>1. ranks = {f[l] : l \in lines}
    OBVIOUS
  <2> HIDE DEF f, ranks
  <2> QED BY <2>1, ImageFinite
<1>2. ranks # {} /\ ranks \subseteq Int
  OBVIOUS
<1>3. PICK x \in ranks : \A y \in ranks : x <= y
  <2> HIDE DEF ranks
  <2> QED BY <1>1, <1>2, Extremes
<1>4. \E l \in lines : \A m \in lines : rank[l] <= rank[m]
  BY <1>3
<1> QED BY <1>4

\* send_kot: what it takes was checked to be there, pending lines included.
LEMMA DeductBooked ==
  ASSUME SerialInv, NEW w \in Worker, Deduct(w)
  PROVE  SerialInv'
<1>a. PICK rank \in Injection(req[w].sent, 1 .. Cardinality(req[w].sent)) :
        LET row(l) == req[w].seen.line[l]
            places == {e \in req[w].sent \X Item :
                         ~ Deducted(e[1]) /\ e[2] \in LinkedItems(row(e[1]).dish)}
            kot == {<<e[1], e[2], Need(row(e[1]), e[2])>> : e \in places}
            need(i) == SumFunction([e \in {k \in kot : k[2] = i} |-> e[3]])
            used == {k[2] : k \in kot}
            takers(i) == {l \in req[w].sent : <<l, i>> \in places}
            first(i) == CHOOSE l \in takers(i) : \A m \in takers(i) : rank[l] <= rank[m]
        IN Change(w,
             [Loaded(w) EXCEPT
                !.line = [l \in Line |-> IF l \in req[w].sent
                                         THEN [@[l] EXCEPT !.status = "IN_KOT"] ELSE @[l]],
                !.item = [i \in Item |-> IF i \in used
                                         THEN [@[i] EXCEPT !.stock =
                                                 Left(db.item[i].stock, need(i),
                                                      Need(row(first(i)), i))]
                                         ELSE @[i]]],
             [NoEntries EXCEPT !.kot = kot, !.day = day])
  BY DEF Deduct
<1> DEFINE sent == req[w].sent
           places == {e \in req[w].sent \X Item :
                        /\ ~ Deducted(e[1])
                        /\ e[2] \in LinkedItems(req[w].seen.line[e[1]].dish)}
           kot == {<<e[1], e[2], Need(req[w].seen.line[e[1]], e[2])>> : e \in places}
           need(i) == SumFunction([e \in {k \in kot : k[2] = i} |-> e[3]])
           used == {k[2] : k \in kot}
           takers(i) == {l \in req[w].sent : <<l, i>> \in places}
           first(i) == CHOOSE l \in takers(i) : \A m \in takers(i) : rank[l] <= rank[m]
           left(i) == Left(db.item[i].stock, need(i), Need(req[w].seen.line[first(i)], i))
           entries == [NoEntries EXCEPT !.kot = kot, !.day = day]
           line == [l \in Line |-> IF l \in sent THEN [db.line[l] EXCEPT !.status = "IN_KOT"]
                                   ELSE db.line[l]]
           item == [i \in Item |-> IF i \in used
                                   THEN [db.item[i] EXCEPT !.stock = left(i)]
                                   ELSE db.item[i]]
           new == [order |-> db.order, line |-> line, item |-> item, recipe |-> db.recipe]
           log == Logged(Log, entries)
<1>1. req[w].pc = "checked" /\ Sendable(sent)
  BY DEF Deduct, SerialInv, Holds
<1>2. Loaded(w) = db /\ req[w].seen.order = db.order /\ req[w].seen.line = db.line
  BY <1>1, LoadedIsDb
<1>3. db \in Rows /\ Booked(db, Log) /\ Log \in Logs
  BY DEF SerialInv, Booked
<1>4. Change(w, new, entries)
  <2>1. Change(w, [Loaded(w) EXCEPT
             !.line = [l \in Line |-> IF l \in req[w].sent
                                      THEN [@[l] EXCEPT !.status = "IN_KOT"] ELSE @[l]],
             !.item = [i \in Item |-> IF i \in used
                                      THEN [@[i] EXCEPT !.stock = left(i)]
                                      ELSE @[i]]], entries)
    BY <1>a
  <2>2. [db EXCEPT !.line = line, !.item = item] = new
    <3>1. \A a, b : [db EXCEPT !.line = a, !.item = b]
                      = [order |-> db.order, line |-> a, item |-> b, recipe |-> db.recipe]
      BY <1>3, TwoColumns
    <3> HIDE DEF line, item
    <3> QED BY <3>1
  <2> HIDE DEF left
  <2>3. Change(w, [db EXCEPT !.line = line, !.item = item], entries)
    BY <1>2, <2>1
  <2> HIDE DEF line, item, entries, new
  <2> QED BY <2>2, <2>3
<1>5. /\ \A l \in sent : /\ l \in Line /\ db.line[l].status = "PENDING_KOT"
                         /\ db.order[db.line[l].order] = "OPEN"
                         /\ \A i \in LinkedItems(db.line[l].dish) :
                              Money(db.item[i].stock) >= PendingNeed(i)
  BY <1>1 DEF Sendable
<1>6. \A e \in places : /\ e[1] \in sent /\ e \in Line \X Item
                        /\ e[2] \in LinkedItems(db.line[e[1]].dish)
  BY <1>2, <1>5
<1>7. kot = {<<e[1], e[2], Need(db.line[e[1]], e[2])>> : e \in places}
  BY <1>2
<1> DEFINE lines(ls, i) == {l \in Line \cap ls : <<l, i>> \in places}
<1>8. \A k \in kot : k[1] \in sent /\ \E e \in places : k[1] = e[1] /\ k[2] = e[2]
  BY <1>6
<1> HIDE DEF places, kot
<1>9. ASSUME NEW ls, NEW i \in Item
      PROVE  /\ SumOf(kot, ls, i) = SumFunctionOnSet([l \in lines(ls, i) |-> Need(db.line[l], i)],
                                                     lines(ls, i))
             /\ SumOf(kot, ls, i) \in Nat /\ SumOf(kot, ls, i) % 10 = 0
  BY <1>3, <1>6, <1>7, KotSum
<1>10. ASSUME NEW i \in Item
       PROVE  /\ need(i) = SumOf(kot, Line, i)
              /\ i \notin used => need(i) = 0
              /\ i \in used => need(i) <= Money(db.item[i].stock)
              /\ need(i) \in Nat /\ need(i) % 10 = 0
  <2>1. {k \in kot : k[2] = i} = {k \in kot : k[1] \in Line /\ k[2] = i}
    BY <1>5, <1>8
  <2>2. need(i) = SumOf(kot, Line, i)
    BY <2>1 DEF SumOf
  <2>3. ASSUME i \notin used PROVE need(i) = 0
    <3> DEFINE K == {k \in kot : k[2] = i}
               f == [e \in K |-> e[3]]
    <3>1. K = {}
      BY <2>3
    <3>2. need(i) = SumFunctionOnSet(f, K)
      BY DEF SumFunction
    <3> HIDE DEF K, f, need
    <3> QED BY <3>1, <3>2, SumEmpty
  <2>4. ASSUME i \in used PROVE need(i) <= Money(db.item[i].stock)
    <3>1. \A l \in lines(Line, i) : /\ l \in sent /\ i \in LinkedItems(db.line[l].dish)
      BY <1>6
    <3>2. lines(Line, i) \in SUBSET Line
      OBVIOUS
    <3>3. PICK e \in places : e[2] = i
      BY <1>8, <2>4
    <3>4. Money(db.item[i].stock) >= PendingNeed(i)
      BY <1>5, <1>6, <3>3
    <3>5. SumFunctionOnSet([l \in lines(Line, i) |-> Need(db.line[l], i)], lines(Line, i))
            <= PendingNeed(i)
      <4> HIDE DEF lines
      <4> QED BY <1>3, <1>5, <3>1, <3>2, PendingCovers
    <3>6. need(i) <= PendingNeed(i) /\ need(i) \in Int
      <4> HIDE DEF lines, need
      <4> QED BY <1>9, <2>2, <3>5
    <3>7. PendingNeed(i) \in Int
      <4> DEFINE pending == {l \in Line : /\ db.line[l].status = "PENDING_KOT"
                                          /\ db.order[db.line[l].order] = "OPEN"
                                          /\ i \in LinkedItems(db.line[l].dish)}
                 f == [l \in pending |-> Need(db.line[l], i)]
      <4>1. PendingNeed(i) = SumFunctionOnSet(f, pending)
        BY DEF PendingNeed, SumFunction
      <4>2. \A l \in pending : f[l] \in Int
        BY <1>3, NeedFacts
      <4>3. IsFiniteSet(pending)
        BY KitchenAssumption, FS_Subset
      <4> HIDE DEF pending, f
      <4> QED BY <4>1, <4>2, <4>3, SumInt
    <3>8. Money(db.item[i].stock) \in Int
      BY <1>3, MoneyFacts DEF Rows, ItemRow
    <3> HIDE DEF need
    <3> QED BY <3>4, <3>6, <3>7, <3>8
  <2> HIDE DEF need, used, lines
  <2> QED BY <1>9, <2>2, <2>3, <2>4
<1>b. ASSUME NEW i \in Item, i \in used
      PROVE  LET n == Need(req[w].seen.line[first(i)], i)
             IN n \in Int /\ n % 10 = 0 /\ n <= need(i)
  <2>1. takers(i) = lines(Line, i) /\ takers(i) # {} /\ takers(i) \subseteq Line
    <3>1. \A l \in takers(i) : l \in Line
      BY <1>5
    <3>2. \A l \in lines(Line, i) : l \in sent
      BY <1>6
    <3>3. PICK e \in places : e[2] = i
      BY <1>8, <1>b
    <3>4. e = <<e[1], i>> /\ e[1] \in sent
      BY <1>6, <3>3
    <3> QED BY <3>1, <3>2, <3>3, <3>4
  <2>2. IsFiniteSet(takers(i)) /\ \A l \in takers(i) : rank[l] \in Int
    <3>1. \A l \in req[w].sent : rank[l] \in 1 .. Cardinality(req[w].sent)
      BY DEF Injection
    <3>2. \A l \in takers(i) : l \in req[w].sent
      OBVIOUS
    <3> HIDE DEF takers
    <3>3. IsFiniteSet(takers(i))
      BY <2>1, KitchenAssumption, FS_Subset
    <3>4. \A x \in 1 .. Cardinality(req[w].sent) : x \in Int
      OBVIOUS
    <3> QED BY <3>1, <3>2, <3>3, <3>4
  <2>3. first(i) \in takers(i)
    <3> HIDE DEF takers
    <3> QED BY <2>1, <2>2, FirstLine
  <2>4. \A l \in takers(i) : i \in LinkedItems(db.line[l].dish) /\ l \in Line
    BY <1>6, <2>1
  <2> DEFINE f == [l \in lines(Line, i) |-> Need(db.line[l], i)]
  <2>5. need(i) = SumFunctionOnSet(f, takers(i))
    BY <1>9, <1>10, <2>1
  <2>6. \A l \in takers(i) : f[l] = Need(db.line[l], i) /\ f[l] \in Nat /\ f[l] % 10 = 0
    BY <1>3, <2>1, <2>4, NeedFacts
  <2> HIDE DEF f, takers, need, first, lines, used
  <2> DEFINE l == first(i)
  <2>7. f[l] = SumFunctionOnSet(f, {l}) /\ f[l] \in Nat /\ f[l] % 10 = 0
    <3>1. f[l] \in Nat /\ f[l] % 10 = 0 /\ f[l] \in Int
      BY <2>3, <2>6
    <3> HIDE DEF l
    <3> QED BY <3>1, SumSingleton
  <2>8. SumFunctionOnSet(f, {l}) <= SumFunctionOnSet(f, takers(i))
    <3>1. {l} \in SUBSET takers(i)
      BY <2>3
    <3> HIDE DEF l
    <3> QED BY <2>2, <2>6, <3>1, SumSubset
  <2> QED BY <1>2, <2>3, <2>5, <2>6, <2>7, <2>8
<1> HIDE DEF need, used, lines, sent, takers, first
<1>11. \A i \in Item : /\ db.item[i].stock \in Int
                      /\ i \in used => left(i) \in Int
  <2> TAKE i \in Item
  <2>1. db.item[i].stock \in Int /\ need(i) \in Int /\ need(i) % 10 = 0
    BY <1>3, <1>10 DEF Rows, ItemRow
  <2> QED BY <1>b, <2>1, LeftFacts
<1>c. ASSUME NEW i \in Item, i \in used
      PROVE  /\ db.item[i].stock % 10 = 0 =>
                  left(i) = db.item[i].stock - need(i) /\ (db.item[i].stock - need(i)) % 10 = 0
             /\ left(i) >= -10
  <2>1. db.item[i].stock \in Int /\ need(i) \in Int /\ need(i) % 10 = 0
    BY <1>3, <1>10 DEF Rows, ItemRow
  <2>2. Money(db.item[i].stock) >= need(i)
    <3>1. Money(db.item[i].stock) \in Int
      BY <2>1, MoneyFacts
    <3> QED BY <1>10, <1>c, <2>1, <3>1
  <2> QED BY <1>b, <1>c, <2>1, <2>2, LeftFacts
<1> HIDE DEF left
<1>12. new \in Rows
  <2>1. \A l \in Line : [db.line[l] EXCEPT !.status = "IN_KOT"] \in LineRow /\ db.line[l] \in LineRow
    BY <1>3 DEF Rows, LineRow
  <2>2. \A i \in Item : /\ db.item[i] \in ItemRow
                        /\ i \in used => [db.item[i] EXCEPT !.stock = left(i)] \in ItemRow
    BY <1>3, <1>11 DEF Rows, ItemRow
  <2>3. line \in [Line -> LineRow] /\ item \in [Item -> ItemRow]
    BY <2>1, <2>2
  <2> HIDE DEF line, item
  <2> QED BY <1>3, <2>3 DEF Rows
<1>13. entries.kot = kot /\ entries.void = {} /\ entries.restart = {}
         /\ entries.move = [i \in Item |-> 0]
  BY DEF NoEntries
<1>14. \A ls, i : SumOf({}, ls, i) = 0
  BY SumOfNone
<1>15. log = [sum |-> [i \in Item |-> Log.sum[i] - need(i)],
              taken |-> [e \in Line \X Item |-> Log.taken[e] + SumOf(kot, {e[1]}, e[2])],
              returned |-> Log.returned]
  <2> HIDE DEF entries
  <2>1. log.sum = [i \in Item |-> Log.sum[i] - need(i)]
    <3>1. \A i \in Item : Log.sum[i] \in Int
      BY <1>3 DEF Logs
    <3>2. \A i \in Item : (IF i \in {} THEN 0 ELSE Log.sum[i]) + 0 - SumOf(kot, Line, i) + 0
                            = Log.sum[i] - need(i)
      BY <1>10, <3>1
    <3> QED BY <1>13, <1>14, <3>2 DEF Logged
  <2>2. log.taken = [e \in Line \X Item |-> Log.taken[e] + SumOf(kot, {e[1]}, e[2])]
    BY <1>13 DEF Logged
  <2>3. log.returned = Log.returned
    <3>1. \A e \in Line \X Item : Log.returned[e] + SumOf(entries.void, {e[1]}, e[2])
                                    = Log.returned[e]
      BY <1>3, <1>13, <1>14 DEF Logs
    <3> QED BY <1>3, <3>1 DEF Logged, Logs
  <2> QED BY <2>1, <2>2, <2>3 DEF Logged
<1> HIDE DEF log
<1>16. ASSUME NEW l \in Line, NEW i \in Item
       PROVE  /\ SumOf(kot, {l}, i) \in Nat /\ SumOf(kot, {l}, i) % 10 = 0
              /\ l \notin sent => SumOf(kot, {l}, i) = 0
  <2>1. ASSUME l \notin sent PROVE lines({l}, i) = {}
    BY <1>6, <2>1 DEF lines
  <2>2. SumFunctionOnSet([m \in {} |-> Need(db.line[m], i)], {}) = 0
    BY SumEmpty
  <2> QED BY <1>9, <2>1, <2>2
<1>17. log \in Logs
  <2>1. \A i \in Item : Log.sum[i] - need(i) \in Int
    BY <1>3, <1>10 DEF Logs
  <2>2. \A e \in Line \X Item : Log.taken[e] + SumOf(kot, {e[1]}, e[2]) \in Nat
    <3> TAKE e \in Line \X Item
    <3>1. Log.taken[e] \in Nat
      BY <1>3 DEF Logs
    <3>2. SumOf(kot, {e[1]}, e[2]) \in Nat
      BY <1>16
    <3> DEFINE m == SumOf(kot, {e[1]}, e[2])
               n == Log.taken[e]
    <3>3. m \in Nat /\ n \in Nat
      BY <3>1, <3>2
    <3> HIDE DEF m, n
    <3>4. n + m \in Nat
      BY <3>3
    <3> QED BY <3>4 DEF m, n
  <2> QED BY <1>3, <1>15, <2>1, <2>2 DEF Logs
<1>18. ASSUME NEW l \in Line, NEW i \in Item PROVE LineBooked(new, log, l, i)
  <2>1. LineBooked(db, Log, l, i) /\ Log.taken[<<l, i>>] \in Nat
    BY <1>3 DEF Booked, Logs
  <2>2. log.taken[<<l, i>>] = Log.taken[<<l, i>>] + SumOf(kot, {l}, i)
          /\ log.returned[<<l, i>>] = Log.returned[<<l, i>>]
    BY <1>15
  <2>3. new.line[l].status = IF l \in sent THEN "IN_KOT" ELSE db.line[l].status
    BY <1>3 DEF Rows, LineRow
  <2> HIDE DEF new
  <2>4. CASE l \in sent
    BY <1>5, <2>1, <2>2, <2>3, <2>4 DEF LineBooked
  <2>5. CASE l \notin sent
    <3>1. log.taken[<<l, i>>] = Log.taken[<<l, i>>]
      BY <1>16, <2>1, <2>2, <2>5
    <3> QED BY <2>1, <2>2, <2>3, <2>5, <3>1 DEF LineBooked
  <2> QED BY <2>4, <2>5
<1>19. ASSUME NEW i \in Item
       PROVE  /\ new.item[i].status = db.item[i].status
              /\ new.item[i].stock = IF i \in used THEN left(i) ELSE db.item[i].stock
  BY <1>3 DEF Rows, ItemRow
<1> HIDE DEF new
<1>20. NoneMissing(new)
  <2> SUFFICES ASSUME NEW i \in Item, new.item[i].status = "THERE"
               PROVE  new.item[i].stock >= Least
    BY DEF NoneMissing
  <2>1. db.item[i].stock >= Least
    BY <1>3, <1>19 DEF Booked, NoneMissing
  <2>2. ASSUME i \in used PROVE left(i) >= Least
    <3>1. CASE WholeHundredths
      <4>1. db.item[i].stock % 10 = 0
        BY <1>3, <3>1 DEF Booked, Balanced
      <4>4. need(i) \in Int /\ db.item[i].stock \in Int
        <5>1. need(i) \in Nat
          BY <1>10
        <5>2. db.item[i].stock \in Int
          BY <1>3 DEF Rows, ItemRow
        <5> QED BY <5>1, <5>2
      <4>2. Money(db.item[i].stock) = db.item[i].stock
        BY <4>1, <4>4, MoneyFacts
      <4>3. left(i) = db.item[i].stock - need(i) /\ need(i) <= db.item[i].stock
        BY <1>10, <1>c, <2>2, <4>1, <4>2
      <4> QED BY <3>1, <4>3, <4>4 DEF Least
    <3>2. CASE ~ WholeHundredths
      BY <1>c, <2>2, <3>2 DEF Least
    <3> QED BY <3>1, <3>2
  <2> QED BY <1>19, <2>1, <2>2
<1>21. Balanced(new, log)
  <2> SUFFICES ASSUME WholeHundredths
               PROVE  /\ \A i \in Item : new.item[i].stock % 10 = 0
                      /\ \A e \in Line \X Item : log.taken[e] % 10 = 0
                      /\ \A i \in Item : new.item[i].status = "THERE" =>
                                           new.item[i].stock = log.sum[i]
    BY DEF Balanced
  <2>1. ASSUME NEW e \in Line \X Item PROVE log.taken[e] % 10 = 0
    <3>1. Log.taken[e] % 10 = 0 /\ Log.taken[e] \in Nat
      BY <1>3 DEF Booked, Balanced, Logs
    <3>2. SumOf(kot, {e[1]}, e[2]) \in Nat /\ SumOf(kot, {e[1]}, e[2]) % 10 = 0
      BY <1>16
    <3>3. log.taken[e] = Log.taken[e] + SumOf(kot, {e[1]}, e[2])
      BY <1>15
    <3> QED BY <3>1, <3>2, <3>3
  <2>2. ASSUME NEW i \in Item
        PROVE  new.item[i].stock = db.item[i].stock - need(i) /\ new.item[i].stock % 10 = 0
    <3>1. db.item[i].stock % 10 = 0
      BY <1>3 DEF Booked, Balanced
    <3>2. i \in used => left(i) = db.item[i].stock - need(i)
                          /\ (db.item[i].stock - need(i)) % 10 = 0
      BY <1>c, <3>1
    <3>3. i \notin used => db.item[i].stock - need(i) = db.item[i].stock
      <4>1. db.item[i].stock \in Int
        BY <1>3 DEF Rows, ItemRow
      <4>2. i \notin used => need(i) = 0
        BY <1>10
      <4> QED BY <4>1, <4>2
    <3> QED BY <1>19, <3>1, <3>2, <3>3
  <2>3. ASSUME NEW i \in Item, new.item[i].status = "THERE"
        PROVE  new.item[i].stock = log.sum[i]
    <3>1. db.item[i].stock = Log.sum[i]
      BY <1>3, <1>19, <2>3 DEF Booked, Balanced
    <3> QED BY <1>15, <2>2, <3>1
  <2> QED BY <2>1, <2>2, <2>3
<1>22. OnOpenOrders(db, entries)
  <2> HIDE DEF entries
  <2> QED BY <1>5, <1>8, <1>13 DEF OnOpenOrders
<1> HIDE DEF entries
<1> QED BY <1>1, <1>4, <1>12, <1>17, <1>18, <1>20, <1>21, <1>22, BooksChange DEF Booked, log

-----------------------------------------------------------------------------
\* What has been written keeps the books: a request that commits.
LEMMA CommitBooked ==
  ASSUME SerialInv, NEW w \in Worker, Commit(w)
  PROVE  SerialInv'
<1>1. Holds(req[w]) /\ req[w].pc = "busy"
  BY DEF Commit, SerialInv
<1>2. db' = After(db, req[w])
  BY DEF Commit, After
<1>3. Log' = Logged(Log, req[w].entries)
  BY DEF Commit, Log, Logged
<1>4. Booked(db', Log')
  BY <1>1, <1>2, <1>3 DEF Holds
<1>5. \A v \in Worker : req'[v].pc = "idle"
  BY <1>1 DEF Commit, SerialInv, Alone, Idle
<1>6. UNCHANGED today /\ DOMAIN req' = Worker
  BY DEF Commit, SerialInv, Alone
<1>7. \A v \in Worker : Holds(req[v])'
  BY <1>5 DEF Holds
<1> QED BY <1>4, <1>5, <1>6, <1>7 DEF SerialInv, Alone

\* Edits, which happen while nobody reads or writes.
LEMMA EditsBooked ==
  ASSUME SerialInv, \A v \in Worker : req[v].pc = "idle", Edits
  PROVE  SerialInv'
<1>1. UNCHANGED <<today, req>>
  BY DEF Edits, UpdateItem, CreateItem, DeleteItem, LinkMenuItem, ReplaceRawBom, Edit
<1>2. Alone' /\ \A v \in Worker : Holds(req[v])'
  BY <1>1 DEF SerialInv, Alone, Holds
<1>3. SUFFICES Booked(db', Log')
  BY <1>1, <1>2, <1>3 DEF SerialInv
<1>4. db \in Rows /\ Booked(db, Log) /\ Log \in Logs
  BY DEF SerialInv, Booked
\* The parts of Booked, when orders and lines stay.
<1>5. ASSUME db' \in Rows, Log' \in Logs, db'.line = db.line,
             \A l \in Line, i \in Item :
               \/ Log'.taken[<<l, i>>] = 0 /\ Log'.returned[<<l, i>>] = 0
               \/ Log'.taken[<<l, i>>] = Log.taken[<<l, i>>]
                  /\ Log'.returned[<<l, i>>] = Log.returned[<<l, i>>],
             \A i \in Item :
               \/ /\ db'.item[i].stock = db.item[i].stock
                  /\ db'.item[i].status = db.item[i].status
                  /\ Log'.sum[i] = Log.sum[i]
               \/ db'.item[i].status = "DELETED" /\ db'.item[i].stock = 0
               \/ /\ db'.item[i].stock \in Opening
                  /\ Log'.sum[i] = db'.item[i].stock
      PROVE  Booked(db', Log')
  <2>1. ASSUME NEW l \in Line, NEW i \in Item PROVE LineBooked(db', Log', l, i)
    BY <1>4, <1>5 DEF Booked, LineBooked
  <2>2. \A q \in Opening : q \in Nat
    BY KitchenAssumption
  <2>3. NoneMissing(db')
    BY <1>4, <1>5, <2>2 DEF Booked, NoneMissing, Least
  <2>4. Balanced(db', Log')
    <3> SUFFICES ASSUME WholeHundredths
                 PROVE  /\ \A i \in Item : db'.item[i].stock % 10 = 0
                        /\ \A e \in Line \X Item : Log'.taken[e] % 10 = 0
                        /\ \A i \in Item : db'.item[i].status = "THERE" =>
                                             db'.item[i].stock = Log'.sum[i]
      BY DEF Balanced
    <3>1. \A i \in Item : db'.item[i].stock % 10 = 0
      BY <1>4, <1>5 DEF Booked, Balanced, WholeHundredths
    <3>2. ASSUME NEW l \in Line, NEW i \in Item PROVE Log'.taken[<<l, i>>] % 10 = 0
      BY <1>4, <1>5 DEF Booked, Balanced
    <3>3. ASSUME NEW i \in Item, db'.item[i].status = "THERE"
          PROVE  db'.item[i].stock = Log'.sum[i]
      BY <1>4, <1>5, <3>3 DEF Booked, Balanced
    <3> QED BY <3>1, <3>2, <3>3
  <2> QED BY <1>5, <2>1, <2>3, <2>4 DEF Booked
<1>6. ASSUME NEW i \in Item, NEW daily \in BOOLEAN, UpdateItem(i, daily) PROVE Booked(db', Log')
  <2> DEFINE row == [db.item[i] EXCEPT !.daily = daily]
  <2>1. row \in ItemRow /\ row.stock = db.item[i].stock /\ row.status = db.item[i].status
    BY <1>4 DEF Rows, ItemRow
  <2>2. db' = [db EXCEPT !.item = [db.item EXCEPT ![i] = row]] /\ Log' = Log
    BY <1>4, <1>6 DEF UpdateItem, Edit, Log, Rows
  <2> HIDE DEF row
  <2>3. db' \in Rows /\ db'.line = db.line /\ db'.item = [db.item EXCEPT ![i] = row]
    BY <1>4, <2>1, <2>2 DEF Rows
  <2> QED BY <1>4, <1>5, <2>1, <2>2, <2>3 DEF Rows
<1>7. ASSUME NEW i \in Item, NEW daily \in BOOLEAN, NEW opening \in Opening,
             CreateItem(i, daily, opening)
      PROVE  Booked(db', Log')
  <2> DEFINE row == [status |-> "THERE", daily |-> daily, date |-> 0, stock |-> opening]
  <2>1. row \in ItemRow /\ row.stock = opening /\ opening \in Int
    BY KitchenAssumption DEF ItemRow
  <2>2. db' = [db EXCEPT !.item = [db.item EXCEPT ![i] = row]]
    BY <1>4, <1>7 DEF CreateItem, Edit, Rows
  <2> HIDE DEF row
  <2>3. db' \in Rows /\ db'.line = db.line /\ db'.item = [db.item EXCEPT ![i] = row]
    BY <1>4, <2>1, <2>2 DEF Rows
  <2>4. Log' = [Log EXCEPT !.sum = [Log.sum EXCEPT ![i] = opening]]
    BY <1>7 DEF CreateItem, Edit, Log
  <2>5. Log' \in Logs /\ Log'.taken = Log.taken /\ Log'.returned = Log.returned
          /\ Log'.sum = [Log.sum EXCEPT ![i] = opening]
    BY <1>4, <2>1, <2>4 DEF Logs
  <2>6. \A j \in Item : \/ db'.item[j] = db.item[j] /\ Log'.sum[j] = Log.sum[j]
                        \/ db'.item[j].stock = opening /\ Log'.sum[j] = opening
    BY <1>4, <2>1, <2>3, <2>5 DEF Rows, Logs
  <2> QED BY <1>5, <2>3, <2>5, <2>6
<1>8. ASSUME NEW i \in Item, DeleteItem(i) PROVE Booked(db', Log')
  <2> DEFINE row == [NoItem EXCEPT !.status = "DELETED"]
             recipe == [d \in Dish |-> [db.recipe[d] EXCEPT ![i] = 0]]
  <2>1. row \in ItemRow /\ row.stock = 0 /\ row.status = "DELETED"
    <3>1. 0 \in 0..LastToday
      BY KitchenAssumption
    <3>2. NoItem \in ItemRow /\ NoItem.stock = 0
      BY <3>1 DEF NoItem, ItemRow
    <3> QED BY <3>2 DEF ItemRow
  <2>2. recipe \in [Dish -> [Item -> Nat]]
    BY <1>4 DEF Rows
  <2>3. db' = [db EXCEPT !.item = [db.item EXCEPT ![i] = row], !.recipe = recipe]
    BY <1>4, <1>8 DEF DeleteItem, Edit, Rows
  <2> HIDE DEF row, recipe
  <2>4. db' \in Rows /\ db'.line = db.line /\ db'.item = [db.item EXCEPT ![i] = row]
    BY <1>4, <2>1, <2>2, <2>3 DEF Rows
  <2>5. Log' = [sum |-> [Log.sum EXCEPT ![i] = 0],
                taken |-> [e \in Line \X Item |-> IF e[2] = i THEN 0 ELSE Log.taken[e]],
                returned |-> [e \in Line \X Item |-> IF e[2] = i THEN 0 ELSE Log.returned[e]]]
    BY <1>8 DEF DeleteItem, Edit, Log
  <2>6. Log' \in Logs
    BY <1>4, <2>5 DEF Logs
  <2>7. \A l \in Line, j \in Item :
               \/ Log'.taken[<<l, j>>] = 0 /\ Log'.returned[<<l, j>>] = 0
               \/ Log'.taken[<<l, j>>] = Log.taken[<<l, j>>]
                  /\ Log'.returned[<<l, j>>] = Log.returned[<<l, j>>]
    BY <2>5
  <2>8. \A j \in Item : \/ db'.item[j] = db.item[j] /\ Log'.sum[j] = Log.sum[j]
                        \/ db'.item[j] = row
    BY <1>4, <2>4, <2>5 DEF Rows, Logs
  <2> QED BY <1>5, <2>1, <2>4, <2>6, <2>7, <2>8
<1>9. ASSUME NEW recipe \in [Dish -> [Item -> Nat]], db' = [db EXCEPT !.recipe = recipe],
             ledger' = ledger
      PROVE  Booked(db', Log')
  <2>1. db' \in Rows /\ db'.line = db.line /\ db'.item = db.item /\ Log' = Log
    BY <1>4, <1>9 DEF Rows, Log
  <2> QED BY <1>4, <1>5, <2>1
<1>10. \A p \in Amount \cup {0} : p \in Nat
  BY KitchenAssumption
<1>11. ASSUME NEW i \in Item, NEW d \in Dish, NEW perServe \in Amount \cup {0},
              LinkMenuItem(d, i, perServe)
       PROVE  Booked(db', Log')
  <2> DEFINE recipe == [db.recipe EXCEPT ![d] = [db.recipe[d] EXCEPT ![i] = perServe]]
  <2>1. recipe \in [Dish -> [Item -> Nat]]
    BY <1>4, <1>10 DEF Rows
  <2>2. db' = [db EXCEPT !.recipe = recipe] /\ ledger' = ledger
    BY <1>4, <1>11 DEF LinkMenuItem, Edit, Rows
  <2> HIDE DEF recipe
  <2> QED BY <1>9, <2>1, <2>2
<1>12. ASSUME NEW d \in Dish, NEW bom \in [Item -> Amount \cup {0}], ReplaceRawBom(d, bom)
       PROVE  Booked(db', Log')
  <2> DEFINE raw == {i \in Item : There(i) /\ ~ db.item[i].daily}
             row == [i \in Item |-> IF i \in raw THEN bom[i] ELSE db.recipe[d][i]]
             recipe == [db.recipe EXCEPT ![d] = row]
  <2>1. row \in [Item -> Nat]
    BY <1>4, <1>10 DEF Rows
  <2>2. db' = [db EXCEPT !.recipe = recipe] /\ ledger' = ledger
    BY <1>4, <1>12 DEF ReplaceRawBom, Edit, Rows
  <2> HIDE DEF row
  <2>3. recipe \in [Dish -> [Item -> Nat]]
    BY <1>4, <2>1 DEF Rows
  <2> HIDE DEF recipe
  <2> QED BY <1>9, <2>2, <2>3
<1> QED BY <1>6, <1>7, <1>8, <1>11, <1>12 DEF Edits

\* Steps that leave rows, log and requests alone, but for the clocks.
LEMMA ClocksBooked ==
  ASSUME SerialInv, UNCHANGED <<db, ledger, req>>, today' \in 1..LastToday
  PROVE  SerialInv'
<1>1. UNCHANGED Log
  BY DEF Log
<1>2. Booked(db', Log')
  BY <1>1 DEF SerialInv
<1>3. ASSUME NEW w \in Worker PROVE Holds(req[w])'
  <2>1. \A q : /\ After(db', q) = After(db, q)
               /\ Logged(Log', q.entries) = Logged(Log, q.entries)
    BY <1>1
  <2>2. \A q : Sendable(q.sent) => Sendable(q.sent)'
    BY DEF Sendable, PendingNeed, LinkedItems, Need
  <2>3. Holds(req[w])
    BY DEF SerialInv
  <2> QED BY <2>1, <2>2, <2>3 DEF Holds
<1> QED BY <1>2, <1>3 DEF SerialInv, Alone

LEMMA InitBooked == Init => SerialInv
<1> SUFFICES ASSUME Init PROVE SerialInv
  OBVIOUS
<1>1. today \in 1..LastToday
  BY KitchenAssumption DEF Init
<1>2. Alone /\ \A w \in Worker : Holds(req[w])
  BY DEF Init, Alone, Holds, Idle
<1>3. NoLine \in LineRow /\ NoLine.status = "NONE"
  BY DEF LineRow, NoLine
<1>4. NoItem \in ItemRow /\ NoItem.status = "NONE" /\ NoItem.stock = 0
  <2>1. 0 \in 0..LastToday
    BY KitchenAssumption
  <2> QED BY <2>1 DEF ItemRow, NoItem
<1>5. NoRecipe \in [Item -> Nat]
  BY DEF NoRecipe
<1>6. db \in Rows /\ \A l \in Line : db.line[l] = NoLine
  BY <1>3, <1>4, <1>5 DEF Init, Rows
<1>7. Log = [sum |-> [i \in Item |-> 0], taken |-> [e \in Line \X Item |-> 0],
             returned |-> [e \in Line \X Item |-> 0]]
  BY DEF Init, Log
<1>8. \A i \in Item : db.item[i] = NoItem
  BY DEF Init
<1>9. Log \in Logs
  BY <1>7 DEF Logs
<1>10. ASSUME NEW l \in Line, NEW i \in Item PROVE LineBooked(db, Log, l, i)
  BY <1>3, <1>6, <1>7 DEF LineBooked
<1>11. NoneMissing(db) /\ Balanced(db, Log)
  BY <1>4, <1>7, <1>8 DEF NoneMissing, Balanced, Least
<1> QED BY <1>1, <1>2, <1>6, <1>9, <1>10, <1>11 DEF SerialInv, Booked

LEMMA NextBooked == SerialInv /\ [SerialNext]_vars => SerialInv'
<1> SUFFICES ASSUME SerialInv, [SerialNext]_vars PROVE SerialInv'
  OBVIOUS
<1>0. today \in 1..LastToday
  BY DEF SerialInv
<1>1. ASSUME NEW w \in Worker, Read(w), \A v \in Worker : req[v].pc = "idle" PROVE SerialInv'
  <2> DEFINE r == [pc |-> "reading", seen |-> [order |-> db.order, line |-> db.line]]
  <2>1. Holds(r)
    BY DEF Holds
  <2>2. req' = [req EXCEPT ![w] = r] /\ UNCHANGED <<today, db, ledger>>
    BY <1>1 DEF Read
  <2> HIDE DEF r
  <2> QED BY <1>1, <2>1, <2>2, OneTurns
<1>2. ASSUME NEW w \in Worker, CheckStock(w) PROVE SerialInv'
  <2>1. req[w].pc = "reading"
    BY <1>2 DEF CheckStock
  <2>2. req[w].seen = [order |-> db.order, line |-> db.line]
          /\ req[w].seen.order = db.order /\ req[w].seen.line = db.line
    BY <2>1, LoadedIsDb
  <2>3. PICK sent :
          /\ \A l \in sent : /\ l \in Line /\ db.line[l].status = "PENDING_KOT"
                             /\ db.order[db.line[l].order] = "OPEN"
          /\ EnoughForLines({db.line[l] : l \in sent})
          /\ req' = [req EXCEPT ![w] = [pc |-> "checked", seen |-> req[w].seen, sent |-> sent]]
          /\ UNCHANGED <<today, db, ledger>>
    <3>a. PICK o \in Order :
            \E lines \in SUBSET {l \in LinesOfOpenOrders(w, {"PENDING_KOT"}) :
                                   req[w].seen.line[l].order = o} :
              /\ EnoughForLines({req[w].seen.line[l] : l \in lines})
              /\ req' = [req EXCEPT ![w] = [pc |-> "checked", seen |-> req[w].seen, sent |-> lines]]
              /\ UNCHANGED <<today, db, ledger>>
      BY <1>2 DEF CheckStock
    <3>1. PICK sent :
            /\ sent \in SUBSET {l \in LinesOfOpenOrders(w, {"PENDING_KOT"}) :
                                  req[w].seen.line[l].order = o}
            /\ EnoughForLines({req[w].seen.line[l] : l \in sent})
            /\ req' = [req EXCEPT ![w] = [pc |-> "checked", seen |-> req[w].seen, sent |-> sent]]
            /\ UNCHANGED <<today, db, ledger>>
      BY <3>a
    <3>2. \A l \in sent : /\ l \in Line /\ db.line[l].status = "PENDING_KOT"
                          /\ db.order[db.line[l].order] = "OPEN"
      BY <2>2, <3>1 DEF LinesOfOpenOrders
    <3> QED BY <2>2, <3>1, <3>2
  <2> DEFINE r == [pc |-> "checked", seen |-> req[w].seen, sent |-> sent]
  <2>4. ASSUME NEW l \in sent, NEW i \in LinkedItems(db.line[l].dish)
        PROVE  Money(db.item[i].stock) >= PendingNeed(i)
    BY <2>3 DEF EnoughForLines, InStock
  <2>5. Sendable(sent)
    BY <2>3, <2>4 DEF Sendable
  <2>6. Holds(r)
    BY <2>2, <2>5 DEF Holds
  <2>7. req' = [req EXCEPT ![w] = r] /\ UNCHANGED <<today, db, ledger>>
    BY <2>3
  <2>8. \A v \in Worker \ {w} : req[v].pc = "idle"
    BY <2>1 DEF SerialInv, Alone
  <2> HIDE DEF r
  <2> QED BY <2>6, <2>7, <2>8, OneTurns
<1>3. ASSUME NEW w \in Worker, Handle(w) PROVE SerialInv'
  <2>1. req[w].pc = "reading"
    BY <1>3 DEF Handle
  <2> QED BY <1>3, <2>1, LinesStep, StockStep, CancelStep DEF Handle
<1>4. ASSUME NEW w \in Worker, Abort(w) PROVE SerialInv'
  <2>1. Holds(Idle) /\ Idle.pc = "idle"
    BY DEF Holds, Idle
  <2>2. req' = [req EXCEPT ![w] = Idle] /\ UNCHANGED <<today, db, ledger>>
    BY <1>4 DEF Abort
  <2> QED BY <2>1, <2>2, OneTurns
<1>5. CASE ServerMidnight
  BY <1>0, <1>5, ClocksBooked DEF ServerMidnight
<1>6. CASE OutletMidnight
  <2>1. today' \in 1..LastToday
    BY <1>0, <1>6, KitchenAssumption DEF OutletMidnight
  <2> QED BY <1>6, <2>1, ClocksBooked DEF OutletMidnight
<1>7. CASE UNCHANGED vars
  BY <1>0, <1>7, ClocksBooked DEF vars
<1> QED
  BY <1>1, <1>2, <1>3, <1>4, <1>5, <1>6, <1>7, DeductBooked, CommitBooked, EditsBooked
     DEF SerialNext, Work

LEMMA SerialInvHolds == SerialSpec => []SerialInv
BY InitBooked, NextBooked, PTL DEF SerialSpec

-----------------------------------------------------------------------------
\* One request at a time, a cancelled line gives back exactly what it took,
\* once, and a line in the kitchen nothing (restore_for_order_line).
THEOREM CancelledGivesBackOnce == SerialSpec => []ReturnedOnce
<1>1. SerialInv => ReturnedOnce
  <2> SUFFICES ASSUME SerialInv, NEW l \in Line, NEW i \in Item
               PROVE  /\ ledger.returned[<<l, i>>] \in {0, ledger.taken[<<l, i>>]}
                      /\ db.line[l].status = "IN_KOT" => ledger.returned[<<l, i>>] = 0
    BY DEF ReturnedOnce
  <2>1. LineBooked(db, Log, l, i)
    BY DEF SerialInv, Booked
  <2> QED BY <2>1 DEF LineBooked, Log
<1> QED BY <1>1, SerialInvHolds, PTL

\* One request at a time, no ticket, wastage or adjustment takes what is not
\* there, if quantities are kept in hundredths. In thousandths, of which
\* deduct_for_order_lines rounds the stock for every line of a ticket and
\* assert_stock_for_lines once, one hundredth at most.
THEOREM StockNeverNegative == SerialSpec => []StockNotNegative
<1>1. SerialInv => StockNotNegative
  BY DEF SerialInv, Booked, NoneMissing, Least, StockNotNegative, There
<1> QED BY <1>1, SerialInvHolds, PTL

\* One request at a time and in hundredths of a unit, which the rounding of
\* deduct_for_order_lines and restore_for_order_line keeps, the stock of an item
\* is what its transactions since the last daily opening add up to.
THEOREM StockMatchesLedger == SerialSpec => [](WholeHundredths => StockIsLedger)
<1>1. SerialInv => (WholeHundredths => StockIsLedger)
  BY DEF SerialInv, Booked, Balanced, StockIsLedger, There, Log
<1> QED BY <1>1, SerialInvHolds, PTL

\* One request at a time, no ticket and no cancellation moves stock for the
\* lines of an order that is closed.
THEOREM ClosedOrdersAtRest == SerialSpec => ClosedOrdersTakeNothing
<1> DEFINE Rest == \A l \in Line, i \in Item :
       db.line[l].status # "NONE" /\ db.order[db.line[l].order] = "CLOSED" =>
         ledger'.taken[<<l, i>>] \in {ledger.taken[<<l, i>>], 0}
           /\ ledger'.returned[<<l, i>>] \in {ledger.returned[<<l, i>>], 0}
<1>1. SerialInv /\ [SerialNext]_vars => Rest
  <2> SUFFICES ASSUME SerialInv, [SerialNext]_vars, NEW l \in Line, NEW i \in Item,
                      db.order[db.line[l].order] = "CLOSED"
               PROVE  ledger'.taken[<<l, i>>] \in {ledger.taken[<<l, i>>], 0}
                        /\ ledger'.returned[<<l, i>>] \in {ledger.returned[<<l, i>>], 0}
    OBVIOUS
  <2>1. ASSUME NEW w \in Worker, Commit(w)
        PROVE  ledger'.taken[<<l, i>>] = ledger.taken[<<l, i>>]
                 /\ ledger'.returned[<<l, i>>] = ledger.returned[<<l, i>>]
    <3>1. OnOpenOrders(db, req[w].entries)
      BY <2>1 DEF SerialInv, Holds, Commit
    <3>2. \A k \in req[w].entries.kot \cup req[w].entries.void : k[1] # l
      BY <3>1 DEF OnOpenOrders
    <3>3. \A K : (\A k \in K : k[1] # l) => SumOf(K, {l}, i) = 0
      <4> SUFFICES ASSUME NEW K, \A k \in K : k[1] # l PROVE SumOf(K, {l}, i) = 0
        OBVIOUS
      <4>1. {k \in K : k[1] \in {l} /\ k[2] = i} = {}
        OBVIOUS
      <4>2. SumFunctionOnSet([e \in {} |-> e[3]], {}) = 0
        BY SumEmpty
      <4> QED BY <4>1, <4>2 DEF SumOf, SumFunction
    <3>4. SumOf(req[w].entries.kot, {l}, i) = 0 /\ SumOf(req[w].entries.void, {l}, i) = 0
      BY <3>2, <3>3
    <3>5. ledger.taken[<<l, i>>] \in Nat /\ ledger.returned[<<l, i>>] \in Nat
      BY DEF SerialInv, Booked, Log, Logs
    <3>6. /\ ledger'.taken[<<l, i>>] = ledger.taken[<<l, i>>] + SumOf(req[w].entries.kot, {l}, i)
          /\ ledger'.returned[<<l, i>>]
               = ledger.returned[<<l, i>>] + SumOf(req[w].entries.void, {l}, i)
      BY <2>1 DEF Commit
    <3> QED BY <3>4, <3>5, <3>6
  <2>2. CASE Edits
    <3>1. ASSUME NEW j \in Item, DeleteItem(j)
          PROVE  /\ ledger'.taken = [e \in Line \X Item |-> IF e[2] = j THEN 0 ELSE ledger.taken[e]]
                 /\ ledger'.returned
                      = [e \in Line \X Item |-> IF e[2] = j THEN 0 ELSE ledger.returned[e]]
      BY <3>1 DEF DeleteItem, Edit
    <3>2. ASSUME NEW j \in Item, NEW opening, ledger' = [ledger EXCEPT !.sum[j] = opening]
          PROVE  ledger'.taken = ledger.taken /\ ledger'.returned = ledger.returned
      <4>1. Log' = [Log EXCEPT !.sum = [Log.sum EXCEPT ![j] = opening]]
        BY <3>2 DEF Log
      <4>2. Log'.taken = Log.taken /\ Log'.returned = Log.returned
        BY <4>1 DEF Log
      <4> QED BY <4>2 DEF Log
    <3>3. \/ \E j \in Item : DeleteItem(j)
          \/ ledger' = ledger
          \/ \E j \in Item, opening \in Opening : ledger' = [ledger EXCEPT !.sum[j] = opening]
      BY <2>2 DEF Edits, UpdateItem, CreateItem, LinkMenuItem, ReplaceRawBom, Edit
    <3> QED BY <3>1, <3>2, <3>3
  <2>3. CASE UNCHANGED ledger
    BY <2>3
  <2>4. ASSUME NEW w \in Worker, Read(w) \/ CheckStock(w) \/ Deduct(w) \/ Handle(w) \/ Abort(w)
        PROVE  UNCHANGED ledger
    <3>1. \A new, entries : Change(w, new, entries) => UNCHANGED ledger
      BY DEF Change
    <3>2. Deduct(w) => UNCHANGED ledger
      BY <3>1 DEF Deduct
    <3>3. Handle(w) => UNCHANGED ledger
      <4>1. AddLine(w) \/ AddOpenLine(w) => UNCHANGED ledger
        BY <3>1 DEF AddLine, AddOpenLine, InsertLine
      <4>2. UpdateLine(w) \/ RemoveLine(w) => UNCHANGED ledger
        BY <3>1 DEF UpdateLine, RemoveLine
      <4>3. CancelLine(w) => UNCHANGED ledger
        BY <3>1 DEF CancelLine
      <4>4. CloseOrder(w) => UNCHANGED ledger
        BY <3>1 DEF CloseOrder
      <4>5. SetDailyStock(w) \/ AdjustStock(w) => UNCHANGED ledger
        BY <3>1 DEF SetDailyStock, AdjustStock
      <4>6. TrackMenuStock(w) => UNCHANGED ledger
        <5> SUFFICES ASSUME TrackMenuStock(w) PROVE UNCHANGED ledger
          OBVIOUS
        <5>1. PICK d \in Dish, i2 \in Item, p \in Amount, quantity \in Opening :
                LET k == [Loaded(w) EXCEPT !.recipe[d][i2] = p]
                IN \/ /\ LinkedItems(d) = {} /\ NewItem(i2)
                      /\ Change(w, SetDaily([k EXCEPT !.item[i2].status = "THERE",
                                                      !.item[i2].daily = TRUE], i2, quantity),
                                DailyOpening(i2, quantity))
                   \/ /\ LinkedItems(d) = {i2}
                      /\ Change(w, SetDaily(k, i2, quantity), DailyOpening(i2, quantity))
          BY DEF TrackMenuStock
        <5> QED BY <3>1, <5>1
      <4> QED BY <4>1, <4>2, <4>3, <4>4, <4>5, <4>6 DEF Handle
    <3> QED BY <2>4, <3>2, <3>3 DEF Read, CheckStock, Abort
  <2> QED BY <2>1, <2>2, <2>3, <2>4 DEF SerialNext, Work, ServerMidnight, OutletMidnight, vars
<1> QED BY <1>1, SerialInvHolds, PTL DEF SerialSpec, ClosedOrdersTakeNothing
=============================================================================
