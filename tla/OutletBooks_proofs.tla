--------------------------- MODULE OutletBooks_proofs ---------------------------
(***************************************************************************)
(* Theorems about OutletBooks, for any orders, customers, amounts, days    *)
(* and number of requests: first what holds however requests overlap, then *)
(* what the sums in the books are as long as requests run one at a time.   *)
(***************************************************************************)
EXTENDS OutletBooks, Sums, TLAPS

Columns == {"status", "mobile", "link", "refunded", "payments", "refunds", "rowStatus", "phone",
            "visits", "spend", "day", "opening", "sales", "expected", "movements"}

\* The numbers customers may have: without the prefix.
Stored == {m \in Mobile : m.prefix = FALSE}

\* Rows as every request leaves them: numbers are normalized and no bill has
\* more refunded than it charged.
InOrder(d) ==
  /\ d = [f \in Columns |-> d[f]]
  /\ d.phone \in [Customer -> Stored]
  /\ d.refunded \in [Order -> Nat] /\ \A o \in Order : d.refunded[o] <= Grand[o]

\* The unique constraint on the number of a customer.
Distinct(d) ==
  \A c, b \in Live(d) : c # b /\ d.phone[c] = d.phone[b] => d.phone[c] = NoNumber

BooksInv ==
  /\ InOrder(db) /\ Distinct(db)
  /\ req = [w \in Worker |-> req[w]]
  /\ \A w \in Worker : req[w] = Idle \/ (InOrder(req[w].loaded) /\ InOrder(req[w].new))

-----------------------------------------------------------------------------
(* What the operators of the books leave in order *)

\* Other columns may change as they like.
LEMMA OtherColumns ==
  ASSUME NEW d, NEW e, InOrder(d), e = [f \in Columns |-> e[f]],
         e.phone = d.phone, e.refunded = d.refunded
  PROVE  InOrder(e)
BY DEF InOrder

LEMMA NormalizedStored == \A m : normalize_phone(m) \in Stored
BY DEF normalize_phone, Stored, Mobile, Typed, NoNumber

LEMMA StatsKept ==
  ASSUME NEW d, InOrder(d), NEW S
  PROVE  InOrder(refresh_stats(d, S))
<1> DEFINE e == refresh_stats(d, S)
<1>1. e = [f \in Columns |-> e[f]] /\ e.phone = d.phone /\ e.refunded = d.refunded
  BY DEF refresh_stats, InOrder, Columns
<1> QED
  BY <1>1, OtherColumns

LEMMA InsertKept ==
  ASSUME NEW d, InOrder(d), NEW new, \A p \in DOMAIN new : p \in Stored
  PROVE  InOrder(Insert(d, new))
<1> DEFINE e == Insert(d, new)
           phone == [c \in Customer |-> IF \E p \in DOMAIN new : new[p] = c
                                        THEN CHOOSE p \in DOMAIN new : new[p] = c
                                        ELSE d.phone[c]]
<1>1. e = [f \in Columns |-> e[f]] /\ e.phone = phone /\ e.refunded = d.refunded
  BY DEF Insert, InOrder, Columns
<1>2. phone \in [Customer -> Stored]
  <2>1. ASSUME NEW c \in Customer
        PROVE  (IF \E p \in DOMAIN new : new[p] = c THEN CHOOSE p \in DOMAIN new : new[p] = c
                ELSE d.phone[c]) \in Stored
    BY DEF InOrder
  <2> QED
    BY <2>1
<1> HIDE DEF e, phone
<1> QED
  BY <1>1, <1>2 DEF InOrder, e

LEMMA SyncKept ==
  ASSUME NEW d, InOrder(d), NEW S, NEW new, \A p \in DOMAIN new : p \in Stored
  PROVE  InOrder(sync_order_customer(d, S, new))
<1> DEFINE e == Insert(d, new)
           g == sync_order_customer(d, S, new)
<1>1. InOrder(e)
  BY InsertKept
<1>2. g = [f \in Columns |-> g[f]] /\ g.phone = e.phone /\ g.refunded = e.refunded
  <2> HIDE DEF e
  <2> QED
    BY <1>1 DEF sync_order_customer, InOrder, Columns, e
<1> HIDE DEF e, g
<1>3. InOrder(g)
  BY <1>1, <1>2, OtherColumns
<1> QED
  BY <1>3 DEF g

LEMMA NewNumbersStored ==
  ASSUME NEW d, NEW S, NEW free, NEW new \in RowsFor(d, S, free)
  PROVE  \A p \in DOMAIN new : p \in Stored
<1>1. DOMAIN new = NewNumbers(d, S)
  BY DEF RowsFor
<1> QED
  BY <1>1, NormalizedStored DEF NewNumbers

\* The foreign key of a link moves no other column.
LEMMA UnlinkKept ==
  ASSUME NEW d, InOrder(d)
  PROVE  /\ InOrder(Unlinked(d)) /\ Unlinked(d).phone = d.phone
         /\ Unlinked(d).rowStatus = d.rowStatus
<1> DEFINE e == Unlinked(d)
<1>1. /\ e = [f \in Columns |-> e[f]] /\ e.phone = d.phone /\ e.refunded = d.refunded
      /\ e.rowStatus = d.rowStatus
  BY DEF Unlinked, InOrder, Columns
<1> QED
  BY <1>1, OtherColumns

\* A refund that was checked against the total it adds to.
LEMMA RefundRowKept ==
  ASSUME NEW d, InOrder(d), NEW o \in Order, NEW a \in Nat, MayRefund(d, o, a), NEW row
  PROVE  InOrder([d EXCEPT !.refunded[o] = @ + a, !.refunds = @ \cup {row}])
<1> DEFINE e == [d EXCEPT !.refunded[o] = @ + a, !.refunds = @ \cup {row}]
<1>1. /\ e = [f \in Columns |-> e[f]] /\ e.phone = d.phone
      /\ e.refunded = [d.refunded EXCEPT ![o] = d.refunded[o] + a]
  BY DEF InOrder, Columns
<1>2. d.refunded[o] \in Nat /\ Grand[o] \in Nat /\ a <= Grand[o] - d.refunded[o]
  BY BookAssumption DEF MayRefund, Net, InOrder
<1>3. d.refunded[o] + a \in Nat /\ d.refunded[o] + a <= Grand[o]
  BY <1>2
<1> HIDE DEF e
<1>4. InOrder(e)
  BY <1>1, <1>3 DEF InOrder
<1> QED
  BY <1>4 DEF e

LEMMA RefundKept ==
  ASSUME NEW d, InOrder(d), NEW o \in Order, NEW a \in Nat, MayRefund(d, o, a), NEW id
  PROVE  InOrder(create_refund(d, o, a, id))
<1> DEFINE e == [d EXCEPT !.refunded[o] = @ + a,
                          !.refunds = @ \cup {[id |-> id, order |-> o, amount |-> a]}]
<1>1. InOrder(e)
  BY RefundRowKept
<1> HIDE DEF e
<1>2. InOrder(refresh_stats(e, {e.link[o]}))
  BY <1>1, StatsKept
<1> QED
  BY <1>2 DEF create_refund, e

-----------------------------------------------------------------------------
(* Requests *)

LEMMA Prepared ==
  ASSUME BooksInv, NEW w \in Worker, NEW new, InOrder(new), Prepare(w, new)
  PROVE  BooksInv'
<1> DEFINE r == [busy |-> TRUE, loaded |-> db, new |-> new]
<1>1. req' = [req EXCEPT ![w] = r] /\ db' = db /\ r.loaded = db /\ r.new = new
  BY DEF Prepare
<1>2. req'[w] = r /\ \A v \in Worker : v # w => req'[v] = req[v]
  BY <1>1 DEF BooksInv
<1>3. req' = [v \in Worker |-> req'[v]]
  BY <1>1 DEF BooksInv
<1> HIDE DEF r
<1>4. \A v \in Worker : req'[v] = Idle \/ (InOrder(req'[v].loaded) /\ InOrder(req'[v].new))
  BY <1>1, <1>2 DEF BooksInv
<1> QED
  BY <1>1, <1>3, <1>4 DEF BooksInv

LEMMA CustomerStep ==
  ASSUME BooksInv, NEW w \in Worker, CustomerRequest(w)
  PROVE  BooksInv'
<1>1. InOrder(db)
  BY DEF BooksInv
<1>2. ASSUME NEW o \in Order, NEW m \in Mobile, update_order(w, o, m)
      PROVE  BooksInv'
  <2> DEFINE d == [db EXCEPT !.mobile[o] = m]
             g == [d EXCEPT !.link[o] = "nobody"]
  <2>1. PICK new \in RowsFor(d, {o}, Free) : Prepare(w, UpdateOrderCustomer(db, o, m, new))
    BY <1>2 DEF update_order
  <2>2. /\ d = [f \in Columns |-> d[f]] /\ d.phone = db.phone /\ d.refunded = db.refunded
        /\ g = [f \in Columns |-> g[f]] /\ g.phone = db.phone /\ g.refunded = db.refunded
    BY <1>1 DEF InOrder, Columns
  <2> HIDE DEF d, g
  <2>3. InOrder(d) /\ InOrder(g)
    BY <1>1, <2>2, OtherColumns
  <2>4. InOrder(sync_order_customer(d, {o}, new))
    BY <2>1, <2>3, NewNumbersStored, SyncKept
  <2>5. InOrder(UpdateOrderCustomer(db, o, m, new))
    BY <2>3, <2>4 DEF UpdateOrderCustomer, d, g
  <2> QED
    BY <2>1, <2>5, Prepared
<1>3. ASSUME NEW m \in Mobile, CreateCustomer(w, m)
      PROVE  BooksInv'
  <2>1. PICK c \in Free : Prepare(w, create_customer(db, m, c))
    BY <1>3 DEF CreateCustomer
  <2> DEFINE e == create_customer(db, m, c)
             p == normalize_phone(m)
  <2>2. /\ e = [f \in Columns |-> e[f]] /\ e.refunded = db.refunded
        /\ e.phone = [db.phone EXCEPT ![c] = p]
    BY <1>1 DEF create_customer, InOrder, Columns
  <2>3. p \in Stored
    BY NormalizedStored
  <2> HIDE DEF e, p
  <2>4. InOrder(e)
    BY <1>1, <2>2, <2>3 DEF InOrder
  <2> QED
    BY <2>1, <2>4, Prepared DEF e
<1>4. ASSUME NEW c \in Customer, NEW m \in Mobile, UpdateCustomer(w, c, m)
      PROVE  BooksInv'
  <2> DEFINE e == update_customer(db, c, m)
             p == normalize_phone(m)
  <2>1. Prepare(w, e)
    BY <1>4 DEF UpdateCustomer
  <2>2. /\ e = [f \in Columns |-> e[f]] /\ e.refunded = db.refunded
        /\ e.phone = [db.phone EXCEPT ![c] = p]
    BY <1>1 DEF update_customer, InOrder, Columns
  <2>3. p \in Stored
    BY NormalizedStored
  <2> HIDE DEF e, p
  <2>4. InOrder(e)
    BY <1>1, <2>2, <2>3 DEF InOrder
  <2> QED
    BY <2>1, <2>4, Prepared
<1>5. ASSUME NEW c \in Customer, DeleteCustomer(w, c)
      PROVE  BooksInv'
  <2> DEFINE d == [db EXCEPT !.rowStatus[c] = "deleted"]
  <2>1. d = [f \in Columns |-> d[f]] /\ d.phone = db.phone /\ d.refunded = db.refunded
    BY <1>1 DEF InOrder, Columns
  <2> HIDE DEF d
  <2>2. InOrder(Unlinked(d))
    BY <1>1, <2>1, OtherColumns, UnlinkKept
  <2>3. InOrder(delete_customer(db, c)) /\ Prepare(w, delete_customer(db, c))
    BY <1>5, <2>2 DEF DeleteCustomer, delete_customer, d
  <2> QED
    BY <2>3, Prepared
<1>6. ASSUME Backfill(w)
      PROVE  BooksInv'
  <2>1. PICK new \in RowsFor(db, Unclaimed(db), Free) : Prepare(w, backfill(db, new))
    BY <1>6 DEF Backfill
  <2>2. InOrder(sync_order_customer(db, Unclaimed(db), new))
    BY <1>1, <2>1, NewNumbersStored, SyncKept
  <2>3. InOrder(backfill(db, new))
    BY <2>2, StatsKept DEF backfill
  <2> QED
    BY <2>1, <2>3, Prepared
<1> QED
  BY <1>2, <1>3, <1>4, <1>5, <1>6 DEF CustomerRequest

LEMMA MoneyStep ==
  ASSUME BooksInv, NEW w \in Worker, MoneyRequest(w)
  PROVE  BooksInv'
<1>1. InOrder(db)
  BY DEF BooksInv
<1>2. ASSUME NEW o \in Order, NEW method, NEW a \in Amount, Pay(w, o, method, a)
      PROVE  BooksInv'
  <2> DEFINE row == [id |-> started + 1, order |-> o, method |-> method, day |-> today,
                     amount |-> a]
             paid == [db EXCEPT !.payments = @ \cup {row}]
             d == [paid EXCEPT !.status[o] = "SETTLED"]
  <2>1. \/ Prepare(w, paid)
        \/ \E new \in RowsFor(db, ToLink(db, o), Free) : Prepare(w, OnBillSettled(d, o, new))
    BY <1>2 DEF Pay
  <2> HIDE DEF row
  <2>2. /\ paid = [f \in Columns |-> paid[f]] /\ paid.phone = db.phone
        /\ paid.refunded = db.refunded
        /\ d = [f \in Columns |-> d[f]] /\ d.phone = db.phone /\ d.refunded = db.refunded
    BY <1>1 DEF InOrder, Columns
  <2> HIDE DEF paid, d
  <2>3. InOrder(paid) /\ InOrder(d)
    BY <1>1, <2>2, OtherColumns
  <2>4. ASSUME NEW new \in RowsFor(db, ToLink(db, o), Free)
        PROVE  InOrder(OnBillSettled(d, o, new))
    <3>1. InOrder(sync_order_customer(d, ToLink(d, o), new))
      BY <2>3, NewNumbersStored, SyncKept
    <3> QED
      BY <3>1, StatsKept DEF OnBillSettled
  <2> QED
    BY <2>1, <2>3, <2>4, Prepared
<1>3. ASSUME NEW o \in Order, NEW a \in Amount, Refunding(w, o, a)
      PROVE  BooksInv'
  <2>1. MayRefund(db, o, a) /\ Prepare(w, create_refund(db, o, a, started + 1)) /\ a \in Nat
    BY <1>3, BooksAssumption DEF Refunding
  <2>2. InOrder(create_refund(db, o, a, started + 1))
    BY <1>1, <2>1, RefundKept
  <2> QED
    BY <2>1, <2>2, Prepared
<1> QED
  BY <1>2, <1>3 DEF MoneyRequest

LEMMA DayStep ==
  ASSUME BooksInv, NEW w \in Worker, DayRequest(w)
  PROVE  BooksInv'
<1>1. InOrder(db)
  BY DEF BooksInv
<1>2. ASSUME NEW cash, OpenDay(w, cash, TRUE) \/ OpenDay(w, cash, FALSE)
      PROVE  BooksInv'
  <2> DEFINE e == open_day(db, today, cash)
  <2>1. e = [f \in Columns |-> e[f]] /\ e.phone = db.phone /\ e.refunded = db.refunded
    BY <1>1 DEF open_day, InOrder, Columns
  <2> HIDE DEF e
  <2>2. InOrder(e)
    BY <1>1, <2>1, OtherColumns
  <2> QED
    BY <1>2, <2>2, Prepared DEF OpenDay, e
<1>3. ASSUME NEW kind, NEW a, AddMovement(w, kind, a)
      PROVE  BooksInv'
  <2> DEFINE d == GetOrCreateDay(db, today)
             e == add_movement(db, today, kind, a, started + 1)
  <2>1. d = [f \in Columns |-> d[f]] /\ d.phone = db.phone /\ d.refunded = db.refunded
    BY <1>1 DEF GetOrCreateDay, InOrder, Columns
  <2>2. e = [f \in Columns |-> e[f]] /\ e.phone = d.phone /\ e.refunded = d.refunded
    <3> HIDE DEF d
    <3> QED
      BY <2>1 DEF add_movement, Columns, d
  <2> HIDE DEF d, e
  <2>3. InOrder(e)
    BY <1>1, <2>1, <2>2, OtherColumns
  <2> QED
    BY <1>3, <2>3, Prepared DEF AddMovement, e
<1>4. ASSUME CloseDay(w)
      PROVE  BooksInv'
  <2> DEFINE e == close_day(db, today)
  <2>1. e = [f \in Columns |-> e[f]] /\ e.phone = db.phone /\ e.refunded = db.refunded
    BY <1>1 DEF close_day, InOrder, Columns
  <2> HIDE DEF e
  <2>2. InOrder(e)
    BY <1>1, <2>1, OtherColumns
  <2> QED
    BY <1>4, <2>2, Prepared DEF CloseDay, e
<1> QED
  BY <1>2, <1>3, <1>4 DEF DayRequest

-----------------------------------------------------------------------------
(* Commits *)

\* Each number and each total that is merged comes from rows in order.
LEMMA MergedInOrder ==
  ASSUME NEW cur, NEW old, NEW new, InOrder(cur), InOrder(old), InOrder(new)
  PROVE  InOrder(Merged(cur, old, new))
<1> DEFINE d == [f \in DOMAIN cur |->
                   IF f \in {"payments", "refunds", "movements"} THEN cur[f] \cup (new[f] \ old[f])
                   ELSE Written(cur[f], old[f], new[f])]
<1>1. DOMAIN cur = Columns
  BY DEF InOrder
<1>2. /\ d = [f \in Columns |-> d[f]]
      /\ d.phone = Written(cur.phone, old.phone, new.phone)
      /\ d.refunded = Written(cur.refunded, old.refunded, new.refunded)
  BY <1>1 DEF Columns
<1>3. Merged(cur, old, new) = Unlinked(d)
  BY DEF Merged
<1> HIDE DEF d
<1>4. d.phone \in [Customer -> Stored]
  <2>1. cur.phone \in [Customer -> Stored] /\ new.phone \in [Customer -> Stored]
    BY DEF InOrder
  <2> QED
    BY <1>2, <2>1 DEF Written
<1>5. d.refunded \in [Order -> Nat] /\ \A o \in Order : d.refunded[o] <= Grand[o]
  <2>1. /\ cur.refunded \in [Order -> Nat] /\ new.refunded \in [Order -> Nat]
        /\ \A o \in Order : cur.refunded[o] <= Grand[o] /\ new.refunded[o] <= Grand[o]
    BY DEF InOrder
  <2>2. /\ d.refunded \in [Order -> Nat]
        /\ \A o \in Order : d.refunded[o] = cur.refunded[o] \/ d.refunded[o] = new.refunded[o]
    BY <1>2, <2>1 DEF Written
  <2> QED
    BY <2>1, <2>2
<1>6. InOrder(d)
  BY <1>2, <1>4, <1>5 DEF InOrder
<1> QED
  BY <1>3, <1>6, UnlinkKept

LEMMA CommitStep ==
  ASSUME BooksInv, NEW w \in Worker, Commit(w)
  PROVE  BooksInv'
<1> DEFINE old == req[w].loaded
           new == req[w].new
           d == Merged(db, old, new)
<1>1. /\ req[w].busy /\ req' = [req EXCEPT ![w] = Idle]
      /\ Fails(w) => db' = db
      /\ ~ Fails(w) => db' = d
  BY DEF Commit
<1>2. InOrder(db) /\ InOrder(old) /\ InOrder(new)
  BY <1>1 DEF BooksInv, Idle
<1>3. InOrder(db') /\ Distinct(db')
  <2>1. CASE Fails(w)
    BY <1>1, <2>1 DEF BooksInv
  <2>2. CASE ~ Fails(w)
    <3>1. ~ BreaksUnique(db, old, new)
      BY <2>2 DEF Fails
    <3> HIDE DEF old, new
    <3>2. Distinct(d)
      BY <3>1 DEF BreaksUnique, Distinct
    <3>3. InOrder(d)
      BY <1>2, MergedInOrder
    <3> QED
      BY <1>1, <2>2, <3>2, <3>3
  <2> QED
    BY <2>1, <2>2
<1>4. /\ req' = [v \in Worker |-> req'[v]]
      /\ \A v \in Worker : req'[v] = Idle \/ req'[v] = req[v]
  BY <1>1 DEF BooksInv
<1> QED
  BY <1>3, <1>4 DEF BooksInv

-----------------------------------------------------------------------------
(* Theorems *)

\* In every behaviour, numbers are stored normalized, no two customers have the
\* same one, and no bill has more refunded than it charged.
THEOREM BooksInvHolds == Spec => []BooksInv
<1>1. Init => BooksInv
  <2> SUFFICES ASSUME Init PROVE BooksInv
    OBVIOUS
  <2>1. /\ db = [f \in Columns |-> db[f]] /\ req = [w \in Worker |-> Idle]
        /\ db.phone = [c \in Customer |-> NoNumber] /\ db.refunded = [o \in Order |-> 0]
        /\ db.rowStatus = [c \in Customer |-> "unused"]
    BY DEF Init, Columns
  <2>2. NoNumber \in Stored
    BY DEF NoNumber, Stored, Mobile
  <2>3. InOrder(db)
    BY <2>1, <2>2, BookAssumption DEF InOrder
  <2>4. Distinct(db)
    BY <2>1 DEF Distinct, Live
  <2>5. req = [w \in Worker |-> req[w]] /\ \A w \in Worker : req[w] = Idle
    <3> HIDE DEF Idle
    <3> QED
      BY <2>1
  <2> QED
    BY <2>3, <2>4, <2>5 DEF BooksInv
<1>2. BooksInv /\ [Next]_vars => BooksInv'
  <2> SUFFICES ASSUME BooksInv, [Next]_vars PROVE BooksInv'
    OBVIOUS
  <2>1. ASSUME NEW w \in Worker,
               CustomerRequest(w) \/ MoneyRequest(w) \/ DayRequest(w) \/ Commit(w)
        PROVE  BooksInv'
    BY <2>1, CustomerStep, MoneyStep, DayStep, CommitStep
  <2>2. CASE Midnight \/ UNCHANGED vars
    BY <2>2 DEF Midnight, vars, BooksInv
  <2> QED
    BY <2>1, <2>2 DEF Next
<1> QED
  BY <1>1, <1>2, PTL DEF Spec

\* However requests overlap, one customer has a number, typed as it may be: the
\* database compares normalized numbers.
THEOREM CustomersDistinct == Spec => []OneCustomerPerNumber
<1>1. BooksInv => OneCustomerPerNumber
  <2> SUFFICES ASSUME BooksInv, NEW c \in Live(db), NEW b \in Live(db),
                      db.phone[c] \in Typed, db.phone[b] \in Typed, c # b,
                      db.phone[c].digits = db.phone[b].digits
               PROVE  FALSE
    BY DEF OneCustomerPerNumber
  <2>1. db.phone[c].prefix = FALSE /\ db.phone[b].prefix = FALSE
    BY DEF BooksInv, InOrder, Stored, Live
  <2>2. db.phone[c] = db.phone[b]
    BY <2>1 DEF Typed
  <2>3. db.phone[c] = NoNumber
    BY <2>2 DEF BooksInv, Distinct
  <2> QED
    BY <2>3, BookAssumption DEF Typed, NoNumber
<1> QED
  BY <1>1, BooksInvHolds, PTL

-----------------------------------------------------------------------------
(* One request at a time: what the books add up to *)

\* The columns are functions over the rows of their table.
Shaped(d) ==
  /\ d.status \in [Order -> {"OPEN", "SETTLED"}]
  /\ d.mobile = [o \in Order |-> d.mobile[o]] /\ d.link = [o \in Order |-> d.link[o]]
  /\ d.rowStatus \in [Customer -> RowStatus]
  /\ d.visits = [c \in Customer |-> d.visits[c]] /\ d.spend = [c \in Customer |-> d.spend[c]]
  /\ d.day \in [Day -> DayStatus] /\ d.expected \in [Day -> Int]
  /\ d.opening \in [Day -> Int] /\ d.sales \in [Day -> Int]

\* Orders are linked to customers who are there.
LinksLive(d) == \A o \in Order : d.link[o] \in Live(d) \cup {"nobody"}

\* Customers are added, and none is deleted.
Enrolls(d, e) ==
  \A c \in Customer : e.rowStatus[c] = d.rowStatus[c]
                        \/ (d.rowStatus[c] = "unused" /\ e.rowStatus[c] = "live")

CountsRight(d, c) ==
  d.visits[c] = Cardinality(SettledOrders(d, c)) /\ d.spend[c] = Spend(d, c)

\* An identity no customer has had yet counts nothing, which is right.
AllCounted(d) == \A c \in Customer : d.rowStatus[c] # "deleted" => CountsRight(d, c)

\* The refund rows, with identities up to n, add up to the totals of the bills.
RefundsBooked(d, n) ==
  /\ IsFiniteSet(d.refunds)
  /\ \A r \in d.refunds : r.amount \in Int /\ r.id \in Int /\ r.id <= n
  /\ \A o \in Order : d.refunded[o] = Total({r \in d.refunds : r.order = o})

\* The drawers of the closed days balance.
Balanced(d) ==
  /\ IsFiniteSet(d.movements) /\ \A m \in d.movements : m.amount \in Int
  /\ IsFiniteSet(d.payments) /\ \A p \in d.payments : p.amount \in Int
  /\ \A t \in Day : d.day[t] = "closed" => d.expected[t] = Expected(d, t)

Exact(d, n) ==
  InOrder(d) /\ Shaped(d) /\ LinksLive(d) /\ AllCounted(d) /\ RefundsBooked(d, n) /\ Balanced(d)

\* Payments, refunds and movements are never taken back.
Grows(d, e) ==
  /\ d.payments \subseteq e.payments /\ d.refunds \subseteq e.refunds
  /\ d.movements \subseteq e.movements

\* As long as no two requests have overlapped, the one under way saw the rows
\* as they are, and both these and what it is going to write are exact.
SerialBooks ==
  /\ started \in Nat /\ overlapped \in BOOLEAN /\ today \in Day
  /\ \/ overlapped
     \/ /\ \A v, w \in Worker : req[v].busy /\ req[w].busy => v = w
        /\ Exact(db, started)
        /\ \A w \in Worker : req[w].busy =>
             /\ req[w].loaded = db
             /\ Exact(req[w].new, started) /\ Grows(db, req[w].new)

-----------------------------------------------------------------------------
(* Sums of amounts *)

LEMMA TotalIs ==
  ASSUME NEW rows
  PROVE  Total(rows) = SumFunctionOnSet([r \in rows |-> r.amount], rows)
BY DEF Total, SumFunction

LEMMA TotalInt ==
  ASSUME NEW rows, IsFiniteSet(rows), \A r \in rows : r.amount \in Int
  PROVE  Total(rows) \in Int
<1> DEFINE f == [r \in rows |-> r.amount]
<1>1. \A r \in rows : f[r] \in Int
  OBVIOUS
<1> HIDE DEF f
<1>2. SumFunctionOnSet(f, rows) \in Int
  BY <1>1, SumInt
<1> QED
  BY <1>2, TotalIs DEF f

\* A row more.
LEMMA TotalAdd ==
  ASSUME NEW rows, IsFiniteSet(rows), \A r \in rows : r.amount \in Int,
         NEW row, row \notin rows, row.amount \in Int
  PROVE  Total(rows \cup {row}) = row.amount + Total(rows)
<1> DEFINE more == rows \cup {row}
           f == [r \in more |-> r.amount]
           g == [r \in rows |-> r.amount]
<1>1. (\A x \in rows : f[x] = g[x]) /\ (\A x \in more : f[x] \in Int) /\ f[row] = row.amount
  OBVIOUS
<1>2. Total(more) = SumFunctionOnSet(f, more) /\ Total(rows) = SumFunctionOnSet(g, rows)
  BY TotalIs
<1> HIDE DEF f, g
<1>3. SumFunctionOnSet(f, rows) = SumFunctionOnSet(g, rows)
  BY <1>1, SumSame
<1>4. SumFunctionOnSet(f, more) = f[row] + SumFunctionOnSet(f, rows)
  BY <1>1, SumAdd
<1> QED
  BY <1>1, <1>2, <1>3, <1>4

-----------------------------------------------------------------------------
(* Frames: what only depends on some columns *)

LEMMA SameCounts ==
  ASSUME NEW d, NEW e, e.link = d.link, e.status = d.status, e.refunded = d.refunded
  PROVE  \A c : SettledOrders(e, c) = SettledOrders(d, c) /\ Spend(e, c) = Spend(d, c)
<1>1. \A c : SettledOrders(e, c) = SettledOrders(d, c)
  BY DEF SettledOrders
<1>2. [o \in Order |-> Net(e, o)] = [o \in Order |-> Net(d, o)]
  BY DEF Net
<1> QED
  BY <1>1, <1>2 DEF Spend

LEMMA SameRefunds ==
  ASSUME NEW d, NEW e, e.refunds = d.refunds, e.refunded = d.refunded,
         NEW n \in Nat, RefundsBooked(d, n)
  PROVE  RefundsBooked(e, n) /\ RefundsBooked(e, n + 1)
<1>1. \A r \in d.refunds : r.id \in Int /\ r.id <= n /\ r.id <= n + 1
  BY DEF RefundsBooked
<1> QED
  BY <1>1 DEF RefundsBooked

LEMMA SameBalance ==
  ASSUME NEW d, NEW e, Balanced(d), e.movements = d.movements, e.payments = d.payments,
         e.day = d.day, e.expected = d.expected, e.opening = d.opening, e.sales = d.sales
  PROVE  Balanced(e)
<1>1. \A t : Expected(e, t) = Expected(d, t)
  BY DEF Expected, Deposits, TakenOut
<1> QED
  BY <1>1 DEF Balanced

\* A payment more moves no drawer of a closed day.
LEMMA PaidBalance ==
  ASSUME NEW d, NEW e, Balanced(d), e.movements = d.movements,
         e.day = d.day, e.expected = d.expected, e.opening = d.opening, e.sales = d.sales,
         NEW row, e.payments = d.payments \cup {row}, row.amount \in Int
  PROVE  Balanced(e)
<1>1. \A t : Expected(e, t) = Expected(d, t)
  BY DEF Expected, Deposits, TakenOut
<1>2. IsFiniteSet(e.payments)
  BY FS_AddElement DEF Balanced
<1> QED
  BY <1>1, <1>2 DEF Balanced

-----------------------------------------------------------------------------
(* One request at a time: the statistics *)

\* Rows the statistics can be computed from, and rows that hold them.
Linked(d) == InOrder(d) /\ Shaped(d) /\ LinksLive(d)

Counted(d) == Linked(d) /\ AllCounted(d)

\* The columns statistics, refunds and drawers are kept in are left alone.
SameMoney(d, e) ==
  /\ e.refunded = d.refunded /\ e.refunds = d.refunds /\ e.payments = d.payments
  /\ e.movements = d.movements /\ e.day = d.day /\ e.expected = d.expected
  /\ e.opening = d.opening /\ e.sales = d.sales

\* Refreshing the customers whose numbers are out of date puts them right.
LEMMA RefreshCounts ==
  ASSUME NEW d, Linked(d), NEW S,
         \A c \in Customer : d.rowStatus[c] # "deleted" /\ c \notin S => CountsRight(d, c),
         \A c \in Customer : d.rowStatus[c] = "unused" => CountsRight(d, c)
  PROVE  Counted(refresh_stats(d, S)) /\ SameMoney(d, refresh_stats(d, S))
<1> DEFINE e == refresh_stats(d, S)
           visits == [c \in Customer |-> IF c \in S \cap Live(d)
                        THEN Cardinality(SettledOrders(d, c)) ELSE d.visits[c]]
           spend == [c \in Customer |-> IF c \in S \cap Live(d) THEN Spend(d, c) ELSE d.spend[c]]
<1>0. InOrder(d) /\ Shaped(d) /\ LinksLive(d)
  BY DEF Linked
<1>1. /\ e.visits = visits /\ e.spend = spend
      /\ e.status = d.status /\ e.mobile = d.mobile /\ e.link = d.link
      /\ e.rowStatus = d.rowStatus /\ SameMoney(d, e)
  BY <1>0 DEF refresh_stats, InOrder, Columns, SameMoney
<1>2. InOrder(e)
  BY <1>0, StatsKept
<1>3. visits = [c \in Customer |-> visits[c]] /\ spend = [c \in Customer |-> spend[c]]
  OBVIOUS
<1>4. ASSUME NEW c \in Customer, d.rowStatus[c] # "deleted"
      PROVE  visits[c] = Cardinality(SettledOrders(d, c)) /\ spend[c] = Spend(d, c)
  <2>1. CASE c \in S \cap Live(d)
    BY <2>1
  <2>2. CASE c \notin S \cap Live(d)
    <3>1. CountsRight(d, c)
      BY <1>0, <1>4, <2>2 DEF Live, Shaped, RowStatus
    <3> QED
      BY <2>2, <3>1 DEF CountsRight
  <2> QED
    BY <2>1, <2>2
<1>5. \A c : SettledOrders(e, c) = SettledOrders(d, c) /\ Spend(e, c) = Spend(d, c)
  BY <1>1, SameCounts DEF SameMoney
<1> HIDE DEF e, visits, spend
<1>6. Shaped(e)
  BY <1>0, <1>1, <1>3 DEF Shaped, SameMoney
<1>7. LinksLive(e)
  BY <1>0, <1>1 DEF LinksLive, Live
<1>8. AllCounted(e)
  BY <1>1, <1>4, <1>5 DEF AllCounted, CountsRight
<1>9. Counted(e) /\ SameMoney(d, e)
  BY <1>1, <1>2, <1>6, <1>7, <1>8 DEF Counted, Linked
<1> QED
  BY <1>9 DEF e

\* New customers take the numbers that were missing.
LEMMA InsertCounts ==
  ASSUME NEW d, Linked(d), NEW S, NEW new \in RowsFor(d, S, Unused(d))
  PROVE  /\ Linked(Insert(d, new)) /\ SameMoney(d, Insert(d, new))
         /\ Insert(d, new).link = d.link /\ Insert(d, new).status = d.status
         /\ Insert(d, new).mobile = d.mobile
         /\ Insert(d, new).visits = d.visits /\ Insert(d, new).spend = d.spend
         /\ Enrolls(d, Insert(d, new))
         /\ \A o \in S : normalize_phone(d.mobile[o]) # NoNumber =>
              Holders(Insert(d, new), normalize_phone(d.mobile[o])) # {}
         /\ Live(Insert(d, new)) \subseteq Customer
<1> DEFINE e == Insert(d, new)
           P == DOMAIN new
           rowStatus == [c \in Customer |-> IF \E p \in P : new[p] = c THEN "live"
                                            ELSE d.rowStatus[c]]
           phone == [c \in Customer |-> IF \E p \in P : new[p] = c
                                        THEN CHOOSE p \in P : new[p] = c ELSE d.phone[c]]
<1>1. /\ P = NewNumbers(d, S) /\ \A p \in P : new[p] \in Unused(d)
      /\ \A p, q \in P : new[p] = new[q] => p = q
  BY DEF RowsFor
<1>2. InOrder(d) /\ Shaped(d) /\ LinksLive(d)
  BY DEF Linked
<1>3. /\ e.rowStatus = rowStatus /\ e.phone = phone /\ e.status = d.status
      /\ e.mobile = d.mobile /\ e.link = d.link /\ e.visits = d.visits /\ e.spend = d.spend
      /\ SameMoney(d, e)
  BY <1>2 DEF Insert, InOrder, Columns, SameMoney
<1>4. InOrder(e)
  BY <1>2, NewNumbersStored, InsertKept
<1>5. /\ rowStatus \in [Customer -> RowStatus]
      /\ \A c \in Customer : d.rowStatus[c] = "live" => rowStatus[c] = "live"
      /\ \A c \in Customer : rowStatus[c] = d.rowStatus[c]
                               \/ (d.rowStatus[c] = "unused" /\ rowStatus[c] = "live")
      /\ \A p \in P : rowStatus[new[p]] = "live" /\ new[p] \in Customer
  BY <1>1, <1>2 DEF Shaped, RowStatus, Unused
<1>6. \A p \in P : phone[new[p]] = p
  <2> SUFFICES ASSUME NEW p \in P PROVE phone[new[p]] = p
    OBVIOUS
  <2> DEFINE q == CHOOSE q \in P : new[q] = new[p]
  <2>1. q \in P /\ new[q] = new[p]
    OBVIOUS
  <2>2. q = p
    BY <1>1, <2>1
  <2>3. phone[new[p]] = q
    BY <1>5
  <2> QED
    BY <2>2, <2>3
<1> HIDE DEF e, rowStatus, phone, P
<1>8. Shaped(e)
  BY <1>2, <1>3, <1>5 DEF Shaped, SameMoney
<1>9. Live(d) \subseteq Live(e) /\ Live(e) \subseteq Customer
  BY <1>3, <1>5 DEF Live
<1>10. LinksLive(e)
  BY <1>2, <1>3, <1>9 DEF LinksLive
<1>12. ASSUME NEW o \in S, normalize_phone(d.mobile[o]) # NoNumber
       PROVE  Holders(e, normalize_phone(d.mobile[o])) # {}
  <2> DEFINE p == normalize_phone(d.mobile[o])
  <2>1. CASE Holders(d, p) = {}
    <3>1. p \in P
      BY <1>1, <1>12, <2>1 DEF NewNumbers
    <3>2. new[p] \in Customer /\ e.rowStatus[new[p]] = "live" /\ e.phone[new[p]] = p
      BY <1>3, <1>5, <1>6, <3>1
    <3> HIDE DEF p
    <3>3. new[p] \in Holders(e, p)
      BY <3>2 DEF Holders, Live
    <3> QED
      BY <3>3 DEF p
  <2>2. CASE Holders(d, p) # {}
    <3> HIDE DEF p
    <3>1. PICK c \in Holders(d, p) : TRUE
      BY <2>2
    <3>2. c \in Customer /\ d.rowStatus[c] = "live" /\ d.phone[c] = p
      BY <3>1 DEF Holders, Live
    <3>3. \A q \in P : new[q] # c
      BY <1>1, <3>2 DEF Unused
    <3>4. e.phone[c] = p
      BY <1>3, <3>2, <3>3 DEF phone
    <3>5. c \in Holders(e, p)
      BY <1>3, <1>5, <3>2, <3>4 DEF Holders, Live
    <3> QED
      BY <3>5 DEF p
  <2> QED
    BY <2>1, <2>2
<1>13. Linked(e)
  BY <1>4, <1>8, <1>10 DEF Linked
<1> QED
  BY <1>3, <1>5, <1>9, <1>12, <1>13 DEF e, Enrolls

\* Linking orders moves the links of these orders alone, and counts nothing.
LEMMA SyncCounts ==
  ASSUME NEW d, Linked(d), NEW S \in SUBSET Order, NEW new \in RowsFor(d, S, Unused(d))
  PROVE  LET g == sync_order_customer(d, S, new)
         IN /\ Linked(g) /\ SameMoney(d, g) /\ g.status = d.status
            /\ g.visits = d.visits /\ g.spend = d.spend
            /\ \A o \in Order \ S : g.link[o] = d.link[o]
            /\ Enrolls(d, g)
<1> DEFINE e == Insert(d, new)
           number(o) == normalize_phone(d.mobile[o])
           numbered == {o \in S : number(o) # NoNumber}
           link == [o \in Order |-> IF o \in numbered
                                    THEN CHOOSE c \in Holders(e, number(o)) : TRUE
                                    ELSE d.link[o]]
           mobile == [o \in Order |-> IF o \in numbered THEN number(o) ELSE d.mobile[o]]
           g == sync_order_customer(d, S, new)
<1>1. /\ Linked(e) /\ SameMoney(d, e) /\ e.link = d.link /\ e.status = d.status
      /\ e.mobile = d.mobile /\ e.visits = d.visits /\ e.spend = d.spend
      /\ Enrolls(d, e)
      /\ Live(e) \subseteq Customer
      /\ \A o \in S : number(o) # NoNumber => Holders(e, number(o)) # {}
  BY InsertCounts
<1>2. InOrder(e) /\ Shaped(e) /\ LinksLive(e)
  BY <1>1 DEF Linked
<1>3. /\ g.link = link /\ g.mobile = mobile /\ g.status = e.status /\ g.rowStatus = e.rowStatus
      /\ g.phone = e.phone /\ g.visits = e.visits /\ g.spend = e.spend /\ SameMoney(e, g)
  <2> HIDE DEF e, number
  <2>1. e = [f \in Columns |-> e[f]]
    BY <1>2 DEF InOrder
  <2>2. g = [e EXCEPT !.mobile = [o \in Order |-> IF o \in numbered THEN number(o) ELSE @[o]],
                      !.link = [o \in Order |-> IF o \in numbered
                                  THEN CHOOSE c \in Holders(e, number(o)) : TRUE ELSE @[o]]]
    BY DEF sync_order_customer, e, number
  <2> HIDE DEF numbered, g
  <2> QED
    BY <1>1, <2>1, <2>2 DEF Columns, SameMoney
<1>4. InOrder(g)
  BY NewNumbersStored, SyncKept DEF Linked
<1>5. \A o \in numbered : link[o] \in Holders(e, number(o))
  <2> SUFFICES ASSUME NEW o \in numbered PROVE link[o] \in Holders(e, number(o))
    OBVIOUS
  <2>1. Holders(e, number(o)) # {}
    BY <1>1
  <2>2. link[o] = CHOOSE c \in Holders(e, number(o)) : TRUE
    OBVIOUS
  <2> HIDE DEF link, e, number, numbered
  <2> QED
    BY <2>1, <2>2
<1>6. /\ \A o \in Order \ S : link[o] = d.link[o]
      /\ \A o \in Order : o \in numbered \/ link[o] = e.link[o]
      /\ link = [o \in Order |-> link[o]] /\ mobile = [o \in Order |-> mobile[o]]
  BY <1>1
<1> HIDE DEF e, number, numbered, link, mobile, g
<1>7. Shaped(g)
  BY <1>2, <1>3, <1>6 DEF Shaped, SameMoney
<1>8. LinksLive(g)
  BY <1>2, <1>3, <1>5, <1>6 DEF LinksLive, Live, Holders
<1>9. SameMoney(d, g)
  BY <1>1, <1>3 DEF SameMoney
<1>10. \A o \in Order \ S : g.link[o] = d.link[o]
  BY <1>3, <1>6
<1> QED
  BY <1>1, <1>3, <1>4, <1>7, <1>8, <1>9, <1>10 DEF g, Linked, Enrolls

LEMMA SameOrdersSameCounts ==
  ASSUME NEW d, NEW e, NEW c, e.visits = d.visits, e.spend = d.spend,
         e.refunded = d.refunded, SettledOrders(e, c) = SettledOrders(d, c), CountsRight(d, c)
  PROVE  CountsRight(e, c)
<1>1. [o \in Order |-> Net(e, o)] = [o \in Order |-> Net(d, o)]
  BY DEF Net
<1> QED
  BY <1>1 DEF CountsRight, Spend

\* An identity that is nobody's yet has no orders.
LEMMA UnusedOrders ==
  ASSUME NEW d, LinksLive(d), NEW c \in Customer, d.rowStatus[c] # "live"
  PROVE  SettledOrders(d, c) = {}
BY BookAssumption DEF LinksLive, SettledOrders, Live

-----------------------------------------------------------------------------
(* One request at a time: requests on exact books *)

\* What is changed besides the money, by a request that leaves the customers'
\* numbers alone and deletes nobody.
LEMMA OtherCounts ==
  ASSUME NEW d, Counted(d), NEW e, InOrder(e), Shaped(e),
         e.link = d.link, e.status = d.status, e.refunded = d.refunded,
         e.visits = d.visits, e.spend = d.spend,
         Enrolls(d, e)
  PROVE  Counted(e)
<1>1. \A c : SettledOrders(e, c) = SettledOrders(d, c) /\ Spend(e, c) = Spend(d, c)
  BY SameCounts
<1>2. LinksLive(e)
  BY DEF Counted, Linked, LinksLive, Live, Enrolls
<1>3. AllCounted(e)
  BY <1>1 DEF Counted, Linked, AllCounted, CountsRight, Enrolls
<1> QED
  BY <1>2, <1>3 DEF Counted, Linked

\* A request that moves no money.
LEMMA MoneyLeftAlone ==
  ASSUME NEW n \in Nat, NEW d, Exact(d, n), NEW e, Counted(e), SameMoney(d, e)
  PROVE  Exact(e, n + 1) /\ Grows(d, e)
<1>1. RefundsBooked(e, n + 1)
  BY SameRefunds DEF Exact, SameMoney
<1>2. Balanced(e)
  BY SameBalance DEF Exact, SameMoney
<1> QED
  BY <1>1, <1>2 DEF Exact, Counted, Linked, Grows, SameMoney

LEMMA ExactCounted ==
  ASSUME NEW d, NEW n, Exact(d, n)
  PROVE  Counted(d)
BY DEF Exact, Counted, Linked

\* The number of an open order changes nobody's statistics.
LEMMA OrderExact ==
  ASSUME NEW n \in Nat, NEW d, Exact(d, n), NEW o \in Order, d.status[o] = "OPEN", NEW m,
         NEW new \in RowsFor([d EXCEPT !.mobile[o] = m], {o}, Unused(d))
  PROVE  /\ Exact(UpdateOrderCustomer(d, o, m, new), n + 1)
         /\ Grows(d, UpdateOrderCustomer(d, o, m, new))
<1> DEFINE e == [d EXCEPT !.mobile[o] = m]
           u == [e EXCEPT !.link[o] = "nobody"]
           g == sync_order_customer(e, {o}, new)
<1>1. InOrder(d) /\ Shaped(d) /\ LinksLive(d) /\ AllCounted(d) /\ Counted(d)
  BY DEF Exact, Counted, Linked
<1>2. /\ e = [f \in Columns |-> e[f]] /\ e.phone = d.phone /\ SameMoney(d, e)
      /\ e.mobile = [d.mobile EXCEPT ![o] = m] /\ e.link = d.link /\ e.status = d.status
      /\ e.visits = d.visits /\ e.spend = d.spend /\ e.rowStatus = d.rowStatus
  BY <1>1 DEF InOrder, Columns, SameMoney
<1> HIDE DEF e
<1>3. InOrder(e)
  BY <1>1, <1>2, OtherColumns DEF SameMoney
<1>4. Shaped(e)
  <2>1. e.mobile = [x \in Order |-> e.mobile[x]]
    BY <1>1, <1>2 DEF Shaped
  <2> QED
    BY <1>1, <1>2, <2>1 DEF Shaped, SameMoney
<1>5. Counted(e)
  BY <1>1, <1>2, <1>3, <1>4, OtherCounts DEF SameMoney, Enrolls
<1>6. Counted(u) /\ SameMoney(d, u)
  <2>1. /\ u = [f \in Columns |-> u[f]] /\ u.phone = e.phone /\ SameMoney(e, u)
        /\ u.link = [e.link EXCEPT ![o] = "nobody"] /\ u.mobile = e.mobile
        /\ u.status = e.status /\ u.visits = e.visits /\ u.spend = e.spend
        /\ u.rowStatus = e.rowStatus
    BY <1>3 DEF InOrder, Columns, SameMoney
  <2> HIDE DEF u
  <2>2. InOrder(u)
    BY <1>3, <2>1, OtherColumns DEF SameMoney
  <2>3. Shaped(u)
    <3>1. u.link = [x \in Order |-> u.link[x]]
      BY <1>4, <2>1 DEF Shaped
    <3> QED
      BY <1>4, <2>1, <3>1 DEF Shaped, SameMoney
  <2>4. \A x \in Order : u.link[x] = IF x = o THEN "nobody" ELSE e.link[x]
    BY <1>4, <2>1 DEF Shaped
  <2>5. LinksLive(u)
    BY <1>5, <2>1, <2>4 DEF Counted, Linked, LinksLive, Live
  <2>6. ASSUME NEW c \in Customer
        PROVE  SettledOrders(u, c) = SettledOrders(e, c)
    <3>1. u.status[o] # "SETTLED" /\ e.status[o] # "SETTLED"
      BY <1>2, <2>1
    <3> QED
      BY <2>1, <2>4, <3>1 DEF SettledOrders
  <2>7. [x \in Order |-> Net(u, x)] = [x \in Order |-> Net(e, x)]
    BY <2>1 DEF Net, SameMoney
  <2>8. AllCounted(u)
    BY <1>5, <2>1, <2>6, <2>7 DEF Counted, Linked, AllCounted, CountsRight, Spend
  <2>9. SameMoney(d, u)
    BY <1>2, <2>1 DEF SameMoney
  <2> QED
    BY <2>2, <2>3, <2>5, <2>8, <2>9 DEF Counted, Linked
<1>7. Counted(g) /\ SameMoney(d, g)
  <2>1. Unused(e) = Unused(d) /\ {o} \in SUBSET Order
    BY <1>2 DEF Unused
  <2>2. /\ Linked(g) /\ SameMoney(e, g) /\ g.status = e.status
        /\ g.visits = e.visits /\ g.spend = e.spend
        /\ \A x \in Order \ {o} : g.link[x] = e.link[x]
        /\ Enrolls(e, g)
    <3>1. new \in RowsFor(e, {o}, Unused(e))
      BY <2>1 DEF e
    <3> QED
      BY <1>5, <2>1, <3>1, SyncCounts DEF Counted, Linked
  <2> HIDE DEF g
  <2>3. ASSUME NEW c \in Customer
        PROVE  SettledOrders(g, c) = SettledOrders(e, c)
    <3>1. g.status[o] # "SETTLED" /\ e.status[o] # "SETTLED"
      BY <1>2, <2>2
    <3> QED
      BY <2>2, <3>1 DEF SettledOrders
  <2>4. AllCounted(g)
    BY <1>5, <2>2, <2>3, SameOrdersSameCounts DEF Counted, AllCounted, SameMoney, Enrolls
  <2>5. SameMoney(d, g)
    BY <1>2, <2>2 DEF SameMoney
  <2> QED
    BY <2>2, <2>4, <2>5 DEF Counted, Linked
<1>8. UpdateOrderCustomer(d, o, m, new) = u \/ UpdateOrderCustomer(d, o, m, new) = g
  BY DEF UpdateOrderCustomer, e
<1> HIDE DEF u, g
<1> QED
  BY <1>6, <1>7, <1>8, MoneyLeftAlone

\* A new customer starts with no visits.
LEMMA CreateExact ==
  ASSUME NEW n \in Nat, NEW d, Exact(d, n), NEW m, NEW c \in Unused(d)
  PROVE  Exact(create_customer(d, m, c), n + 1) /\ Grows(d, create_customer(d, m, c))
<1> DEFINE e == create_customer(d, m, c)
           p == normalize_phone(m)
<1>1. InOrder(d) /\ Shaped(d) /\ Counted(d) /\ c \in Customer /\ d.rowStatus[c] = "unused"
  BY DEF Exact, Counted, Linked, Unused
<1>2. /\ e = [f \in Columns |-> e[f]] /\ e.phone = [d.phone EXCEPT ![c] = p]
      /\ e.rowStatus = [d.rowStatus EXCEPT ![c] = "live"] /\ SameMoney(d, e)
      /\ e.link = d.link /\ e.status = d.status /\ e.mobile = d.mobile
      /\ e.visits = d.visits /\ e.spend = d.spend
  BY <1>1 DEF create_customer, InOrder, Columns, SameMoney
<1>3. p \in Stored
  BY NormalizedStored
<1> HIDE DEF e, p
<1>4. InOrder(e)
  BY <1>1, <1>2, <1>3 DEF InOrder, SameMoney
<1>5. Shaped(e)
  <2>1. e.rowStatus \in [Customer -> RowStatus]
    BY <1>1, <1>2 DEF Shaped, RowStatus
  <2> QED
    BY <1>1, <1>2, <2>1 DEF Shaped, SameMoney
<1>6. Enrolls(d, e)
  BY <1>1, <1>2 DEF Shaped, Enrolls
<1>7. Counted(e)
  BY <1>1, <1>2, <1>4, <1>5, <1>6, OtherCounts DEF SameMoney
<1> QED
  BY <1>2, <1>7, MoneyLeftAlone DEF e

\* A customer's number counts no order.
LEMMA RenumberExact ==
  ASSUME NEW n \in Nat, NEW d, Exact(d, n), NEW m, NEW c \in Live(d)
  PROVE  Exact(update_customer(d, c, m), n + 1) /\ Grows(d, update_customer(d, c, m))
<1> DEFINE e == update_customer(d, c, m)
           p == normalize_phone(m)
<1>1. InOrder(d) /\ Shaped(d) /\ Counted(d)
  BY DEF Exact, Counted, Linked
<1>2. /\ e = [f \in Columns |-> e[f]] /\ e.phone = [d.phone EXCEPT ![c] = p]
      /\ e.rowStatus = d.rowStatus /\ SameMoney(d, e)
      /\ e.link = d.link /\ e.status = d.status /\ e.mobile = d.mobile
      /\ e.visits = d.visits /\ e.spend = d.spend
  BY <1>1 DEF update_customer, InOrder, Columns, SameMoney
<1>3. p \in Stored
  BY NormalizedStored
<1> HIDE DEF e, p
<1>4. InOrder(e)
  BY <1>1, <1>2, <1>3 DEF InOrder, SameMoney
<1>5. Shaped(e)
  BY <1>1, <1>2 DEF Shaped, SameMoney
<1>6. Counted(e)
  BY <1>1, <1>2, <1>4, <1>5, OtherCounts DEF SameMoney, Enrolls
<1> QED
  BY <1>2, <1>6, MoneyLeftAlone DEF e

\* The orders of a deleted customer are nobody's.
LEMMA DeleteExact ==
  ASSUME NEW n \in Nat, NEW d, Exact(d, n), NEW c \in Live(d)
  PROVE  Exact(delete_customer(d, c), n + 1) /\ Grows(d, delete_customer(d, c))
<1> DEFINE e == [d EXCEPT !.rowStatus[c] = "deleted"]
           link == [o \in Order |-> IF e.link[o] \in Live(e) THEN e.link[o] ELSE "nobody"]
           u == Unlinked(e)
<1>1. InOrder(d) /\ Shaped(d) /\ LinksLive(d) /\ AllCounted(d) /\ c \in Customer
  BY DEF Exact, Live
<1>2. /\ e = [f \in Columns |-> e[f]] /\ e.phone = d.phone /\ SameMoney(d, e)
      /\ e.rowStatus = [d.rowStatus EXCEPT ![c] = "deleted"]
      /\ e.link = d.link /\ e.status = d.status /\ e.mobile = d.mobile
      /\ e.visits = d.visits /\ e.spend = d.spend
  BY <1>1 DEF InOrder, Columns, SameMoney
<1> HIDE DEF e
<1>3. InOrder(e)
  BY <1>1, <1>2, OtherColumns DEF SameMoney
<1>4. /\ u.link = link /\ u.status = e.status /\ u.mobile = e.mobile /\ u.visits = e.visits
      /\ u.spend = e.spend /\ u.rowStatus = e.rowStatus /\ SameMoney(e, u)
  BY <1>3 DEF Unlinked, InOrder, Columns, SameMoney
<1>5. InOrder(u)
  BY <1>3, UnlinkKept
<1>6. /\ link = [o \in Order |-> link[o]]
      /\ \A o \in Order : link[o] = IF e.link[o] \in Live(e) THEN e.link[o] ELSE "nobody"
  OBVIOUS
<1> HIDE DEF u, link
<1>7. Shaped(u)
  <2>1. e.rowStatus \in [Customer -> RowStatus]
    BY <1>1, <1>2 DEF Shaped, RowStatus
  <2> QED
    BY <1>1, <1>2, <1>4, <1>6, <2>1 DEF Shaped, SameMoney
<1>8. LinksLive(u)
  BY <1>4, <1>6 DEF LinksLive, Live
<1>9. ASSUME NEW b \in Customer, u.rowStatus[b] # "deleted"
      PROVE  CountsRight(u, b)
  <2>1. b # c /\ d.rowStatus[b] # "deleted" /\ (b \in Live(d) <=> b \in Live(e))
    BY <1>1, <1>2, <1>4, <1>9 DEF Live, Shaped
  <2>2. \A o \in Order : u.link[o] = b <=> d.link[o] = b
    <3>1. \A o \in Order : d.link[o] = b => b \in Live(d)
      BY <1>1, BookAssumption DEF LinksLive
    <3>2. b # "nobody"
      BY BookAssumption
    <3> QED
      BY <1>2, <1>4, <1>6, <2>1, <3>1, <3>2
  <2>3. SettledOrders(u, b) = SettledOrders(d, b)
    BY <1>2, <1>4, <2>2 DEF SettledOrders
  <2>4. [o \in Order |-> Net(u, o)] = [o \in Order |-> Net(d, o)]
    BY <1>2, <1>4 DEF Net, SameMoney
  <2> QED
    BY <1>1, <1>2, <1>4, <2>1, <2>3, <2>4 DEF AllCounted, CountsRight, Spend
<1>10. Counted(u) /\ SameMoney(d, u)
  BY <1>2, <1>4, <1>5, <1>7, <1>8, <1>9 DEF Counted, Linked, AllCounted, SameMoney
<1>11. Exact(u, n + 1) /\ Grows(d, u)
  BY <1>10, MoneyLeftAlone
<1> QED
  BY <1>11 DEF u, e, delete_customer

\* Linking the unclaimed orders counts them, for every customer.
LEMMA BackfillExact ==
  ASSUME NEW n \in Nat, NEW d, Exact(d, n),
         NEW new \in RowsFor(d, Unclaimed(d), Unused(d))
  PROVE  Exact(backfill(d, new), n + 1) /\ Grows(d, backfill(d, new))
<1> DEFINE e == sync_order_customer(d, Unclaimed(d), new)
           g == refresh_stats(e, Live(e))
<1>1. Counted(d) /\ Linked(d) /\ Unclaimed(d) \in SUBSET Order
  BY ExactCounted DEF Counted, Unclaimed
<1>2. /\ Linked(e) /\ SameMoney(d, e) /\ e.visits = d.visits /\ e.spend = d.spend
      /\ Enrolls(d, e)
  BY <1>1, SyncCounts DEF Counted, Linked
<1>3. backfill(d, new) = g
  BY DEF backfill
<1> HIDE DEF e
<1>4. ASSUME NEW c \in Customer, e.rowStatus[c] # "deleted", c \notin Live(e)
      PROVE  CountsRight(e, c)
  <2>1. SettledOrders(e, c) = {}
    BY <1>2, <1>4, UnusedOrders DEF Linked, Live
  <2>2. e.rowStatus[c] = "unused"
    BY <1>2, <1>4 DEF Linked, Shaped, RowStatus, Live
  <2>3. d.rowStatus[c] = "unused"
    BY <1>2, <2>2 DEF Enrolls
  <2>4. SettledOrders(d, c) = {} /\ CountsRight(d, c)
    BY <1>1, <2>3, UnusedOrders DEF Counted, Linked, AllCounted
  <2> QED
    BY <1>2, <2>1, <2>4, SameOrdersSameCounts DEF SameMoney
<1>5. Counted(g) /\ SameMoney(e, g)
  BY <1>2, <1>4, RefreshCounts DEF Live
<1>6. Counted(g) /\ SameMoney(d, g)
  BY <1>2, <1>5 DEF SameMoney
<1> HIDE DEF g
<1> QED
  BY <1>3, <1>6, MoneyLeftAlone

\* A payment that leaves something due.
LEMMA PayExact ==
  ASSUME NEW n \in Nat, NEW d, Exact(d, n), NEW row, row.amount \in Int
  PROVE  /\ Exact([d EXCEPT !.payments = @ \cup {row}], n + 1)
         /\ Grows(d, [d EXCEPT !.payments = @ \cup {row}])
<1> DEFINE e == [d EXCEPT !.payments = @ \cup {row}]
<1>1. InOrder(d) /\ Shaped(d) /\ Counted(d) /\ RefundsBooked(d, n) /\ Balanced(d)
  BY DEF Exact, Counted, Linked
<1>2. /\ e = [f \in Columns |-> e[f]] /\ e.payments = d.payments \cup {row}
      /\ \A f \in Columns \ {"payments"} : e[f] = d[f]
  BY <1>1 DEF InOrder, Columns
<1> HIDE DEF e
<1>3. /\ e.phone = d.phone /\ e.rowStatus = d.rowStatus /\ e.link = d.link
      /\ e.status = d.status /\ e.mobile = d.mobile /\ e.visits = d.visits
      /\ e.spend = d.spend /\ e.refunded = d.refunded /\ e.refunds = d.refunds
      /\ e.movements = d.movements /\ e.day = d.day /\ e.expected = d.expected
      /\ e.opening = d.opening /\ e.sales = d.sales
  BY <1>2 DEF Columns
<1>4. InOrder(e)
  BY <1>1, <1>2, <1>3, OtherColumns
<1>5. Shaped(e)
  BY <1>1, <1>3 DEF Shaped
<1>6. Counted(e)
  BY <1>1, <1>3, <1>4, <1>5, OtherCounts DEF Enrolls
<1>7. RefundsBooked(e, n + 1)
  BY <1>1, <1>3, SameRefunds
<1>8. Balanced(e)
  BY <1>1, <1>2, <1>3, PaidBalance
<1>9. Exact(e, n + 1) /\ Grows(d, e)
  BY <1>2, <1>3, <1>6, <1>7, <1>8 DEF Exact, Counted, Linked, Grows
<1> QED
  BY <1>9 DEF e

\* The payment that settles a bill, which the customer it is linked to counts.
LEMMA SettleExact ==
  ASSUME NEW n \in Nat, NEW d, Exact(d, n), NEW o \in Order, d.status[o] = "OPEN",
         NEW row, row.amount \in Int, NEW new \in RowsFor(d, ToLink(d, o), Unused(d))
  PROVE  LET paid == [d EXCEPT !.payments = @ \cup {row}]
             g == OnBillSettled([paid EXCEPT !.status[o] = "SETTLED"], o, new)
         IN  Exact(g, n + 1) /\ Grows(d, g)
<1> DEFINE paid == [d EXCEPT !.payments = @ \cup {row}]
           s == [paid EXCEPT !.status[o] = "SETTLED"]
           e == sync_order_customer(s, ToLink(s, o), new)
           g == refresh_stats(e, {e.link[o]})
<1>1. /\ InOrder(d) /\ Shaped(d) /\ LinksLive(d) /\ AllCounted(d)
      /\ RefundsBooked(d, n) /\ Balanced(d)
  BY DEF Exact
<1>2. /\ paid = [f \in Columns |-> paid[f]] /\ paid.payments = d.payments \cup {row}
      /\ \A f \in Columns \ {"payments"} : paid[f] = d[f]
  BY <1>1 DEF InOrder, Columns
<1> HIDE DEF paid
<1>3. /\ s = [f \in Columns |-> s[f]] /\ s.status = [paid.status EXCEPT ![o] = "SETTLED"]
      /\ \A f \in Columns \ {"status"} : s[f] = paid[f]
  BY <1>2 DEF Columns
<1>4. OnBillSettled(s, o, new) = g
  BY DEF OnBillSettled
<1> HIDE DEF s
<1>5. /\ s.status = [d.status EXCEPT ![o] = "SETTLED"] /\ s.payments = d.payments \cup {row}
      /\ s.phone = d.phone /\ s.rowStatus = d.rowStatus /\ s.link = d.link
      /\ s.mobile = d.mobile /\ s.visits = d.visits /\ s.spend = d.spend
      /\ s.refunded = d.refunded /\ s.refunds = d.refunds /\ s.movements = d.movements
      /\ s.day = d.day /\ s.expected = d.expected /\ s.opening = d.opening /\ s.sales = d.sales
  BY <1>2, <1>3 DEF Columns
<1>6. InOrder(s)
  BY <1>1, <1>3, <1>5, OtherColumns
<1>7. Shaped(s)
  <2>1. s.status \in [Order -> {"OPEN", "SETTLED"}]
    BY <1>1, <1>5 DEF Shaped
  <2> QED
    BY <1>1, <1>5, <2>1 DEF Shaped
<1>8. Linked(s)
  BY <1>1, <1>5, <1>6, <1>7 DEF Linked, LinksLive, Live
<1>9. /\ ToLink(s, o) = ToLink(d, o) /\ ToLink(s, o) \subseteq {o}
      /\ Unused(s) = Unused(d) /\ NewNumbers(s, ToLink(d, o)) = NewNumbers(d, ToLink(d, o))
  BY <1>5 DEF ToLink, Unused, NewNumbers, Holders, Live
<1>10. new \in RowsFor(s, ToLink(s, o), Unused(s))
  BY <1>9 DEF RowsFor
<1>11. /\ Linked(e) /\ SameMoney(s, e) /\ e.status = s.status
       /\ e.visits = s.visits /\ e.spend = s.spend /\ Enrolls(s, e)
       /\ \A x \in Order \ {o} : e.link[x] = s.link[x]
  BY <1>8, <1>9, <1>10, SyncCounts
<1> HIDE DEF e
<1>12. ASSUME NEW c \in Customer, e.rowStatus[c] # "deleted", c # e.link[o]
       PROVE  CountsRight(e, c)
  <2>1. SettledOrders(e, c) = SettledOrders(d, c)
    <3>1. \A x \in Order : (e.link[x] = c /\ e.status[x] = "SETTLED")
                             <=> (d.link[x] = c /\ d.status[x] = "SETTLED")
      BY <1>1, <1>5, <1>11, <1>12 DEF Shaped
    <3> QED
      BY <3>1 DEF SettledOrders
  <2>2. CountsRight(d, c)
    BY <1>1, <1>5, <1>11, <1>12 DEF AllCounted, Enrolls
  <2> QED
    BY <1>5, <1>11, <2>1, <2>2, SameOrdersSameCounts DEF SameMoney
<1>13. ASSUME NEW c \in Customer, e.rowStatus[c] = "unused"
       PROVE  c # e.link[o]
  BY <1>11, <1>13, BookAssumption DEF Linked, LinksLive, Live
<1>14. Counted(g) /\ SameMoney(e, g)
  BY <1>11, <1>12, <1>13, RefreshCounts
<1> HIDE DEF g
<1>15. RefundsBooked(g, n + 1)
  BY <1>1, <1>5, <1>11, <1>14, SameRefunds DEF SameMoney
<1>16. Balanced(g)
  BY <1>1, <1>5, <1>11, <1>14, PaidBalance DEF SameMoney
<1>17. Exact(g, n + 1) /\ Grows(d, g)
  BY <1>5, <1>11, <1>14, <1>15, <1>16 DEF Exact, Counted, Linked, Grows, SameMoney
<1> QED
  BY <1>4, <1>17 DEF s, paid

\* A refund adds a row to those of its bill, and the customer counts it.
LEMMA RefundExact ==
  ASSUME NEW n \in Nat, NEW d, Exact(d, n), NEW o \in Order, NEW a \in Nat, MayRefund(d, o, a)
  PROVE  /\ Exact(create_refund(d, o, a, n + 1), n + 1)
         /\ Grows(d, create_refund(d, o, a, n + 1))
<1> DEFINE row == [id |-> n + 1, order |-> o, amount |-> a]
           e == [d EXCEPT !.refunded[o] = @ + a, !.refunds = @ \cup {row}]
           g == refresh_stats(e, {e.link[o]})
           of(rows, x) == {r \in rows : r.order = x}
<1>1. /\ InOrder(d) /\ Shaped(d) /\ LinksLive(d) /\ AllCounted(d)
      /\ RefundsBooked(d, n) /\ Balanced(d)
  BY DEF Exact
<1>2. create_refund(d, o, a, n + 1) = g
  BY DEF create_refund
<1>3. row.id = n + 1 /\ row.order = o /\ row.amount = a
  OBVIOUS
<1> HIDE DEF row
<1>4. /\ e.refunded = [d.refunded EXCEPT ![o] = d.refunded[o] + a]
      /\ e.refunds = d.refunds \cup {row}
      /\ \A f \in Columns \ {"refunded", "refunds"} : e[f] = d[f]
  BY <1>1 DEF InOrder, Columns
<1>5. InOrder(e)
  BY <1>1, RefundRowKept
<1> HIDE DEF e
<1>6. /\ e.rowStatus = d.rowStatus /\ e.link = d.link /\ e.status = d.status
      /\ e.mobile = d.mobile /\ e.visits = d.visits /\ e.spend = d.spend
      /\ e.payments = d.payments /\ e.movements = d.movements /\ e.day = d.day
      /\ e.expected = d.expected /\ e.opening = d.opening /\ e.sales = d.sales
  BY <1>4 DEF Columns
<1>7. Linked(e)
  BY <1>1, <1>5, <1>6 DEF Linked, Shaped, LinksLive, Live
<1>8. \A x \in Order : e.refunded[x] = IF x = o THEN d.refunded[x] + a ELSE d.refunded[x]
  BY <1>1, <1>4 DEF InOrder
<1>9. ASSUME NEW c \in Customer, e.rowStatus[c] # "deleted", c # e.link[o]
      PROVE  CountsRight(e, c)
  <2>1. SettledOrders(e, c) = SettledOrders(d, c) /\ SettledOrders(e, c) \subseteq Order \ {o}
    BY <1>6, <1>9 DEF SettledOrders
  <2>2. Spend(e, c) = Spend(d, c)
    <3> DEFINE f == [x \in Order |-> Net(e, x)]
               h == [x \in Order |-> Net(d, x)]
               S == SettledOrders(d, c)
    <3>1. IsFiniteSet(S)
      BY <2>1, BookAssumption, FS_Subset
    <3>2. \A x \in S : f[x] = h[x]
      BY <1>8, <2>1 DEF Net
    <3>3. Spend(e, c) = SumFunctionOnSet(f, S) /\ Spend(d, c) = SumFunctionOnSet(h, S)
      BY <2>1 DEF Spend
    <3> HIDE DEF f, h, S
    <3> QED
      BY <3>1, <3>2, <3>3, SumSame
  <2>3. CountsRight(d, c)
    BY <1>1, <1>6, <1>9 DEF AllCounted
  <2> QED
    BY <1>6, <2>1, <2>2, <2>3 DEF CountsRight
<1>10. ASSUME NEW c \in Customer, e.rowStatus[c] = "unused"
       PROVE  c # e.link[o]
  BY <1>7, <1>10, BookAssumption DEF Linked, LinksLive, Live
<1>11. Counted(g) /\ SameMoney(e, g)
  BY <1>7, <1>9, <1>10, RefreshCounts
<1>12. RefundsBooked(e, n + 1)
  <2>1. IsFiniteSet(d.refunds) /\ IsFiniteSet(e.refunds)
    BY <1>1, <1>4, FS_AddElement DEF RefundsBooked
  <2>2. \A r \in d.refunds : r.amount \in Int /\ r.id \in Int /\ r.id <= n
    BY <1>1 DEF RefundsBooked
  <2>3. \A r \in e.refunds : r.amount \in Int /\ r.id \in Int /\ r.id <= n + 1
    BY <1>3, <1>4, <2>2
  <2>4. ASSUME NEW x \in Order
        PROVE  e.refunded[x] = Total(of(e.refunds, x))
    <3>1. /\ d.refunded[x] = Total(of(d.refunds, x)) /\ d.refunded[x] \in Int
          /\ IsFiniteSet(of(d.refunds, x))
      BY <1>1, <2>1, FS_Subset DEF RefundsBooked, InOrder
    <3>2. CASE x = o
      <4>1. of(e.refunds, x) = of(d.refunds, x) \cup {row}
        BY <1>3, <1>4, <3>2
      <4>2. row \notin of(d.refunds, x)
        BY <1>3, <2>2
      <4> DEFINE rows == of(d.refunds, x)
      <4>3. \A r \in rows : r.amount \in Int
        BY <2>2
      <4> HIDE DEF rows
      <4>4. Total(rows \cup {row}) = row.amount + Total(rows)
        BY <1>3, <3>1, <4>2, <4>3, TotalAdd DEF rows
      <4>5. e.refunded[x] = d.refunded[x] + a
        BY <1>8, <3>2
      <4>6. Total(of(e.refunds, x)) = a + d.refunded[x]
        <5> HIDE DEF of
        <5> QED
          BY <1>3, <3>1, <4>1, <4>4 DEF rows
      <4> HIDE DEF of
      <4> QED
        BY <3>1, <4>5, <4>6
    <3>3. CASE x # o
      <4>1. of(e.refunds, x) = of(d.refunds, x)
        BY <1>3, <1>4, <3>3
      <4> QED
        BY <1>8, <3>1, <3>3, <4>1
    <3> QED
      BY <3>2, <3>3
  <2> QED
    BY <2>1, <2>3, <2>4 DEF RefundsBooked
<1> HIDE DEF g
<1>13. RefundsBooked(g, n + 1)
  BY <1>11, <1>12 DEF RefundsBooked, SameMoney
<1>14. Balanced(g)
  BY <1>1, <1>6, <1>11, SameBalance DEF SameMoney
<1>15. Exact(g, n + 1) /\ Grows(d, g)
  BY <1>4, <1>6, <1>11, <1>13, <1>14 DEF Exact, Counted, Linked, Grows, SameMoney
<1> QED
  BY <1>2, <1>15

\* What changes the days and their cash alone.
LEMMA DaysChanged ==
  ASSUME NEW n \in Nat, NEW d, Exact(d, n), NEW e, InOrder(e), Shaped(e), Balanced(e),
         e.rowStatus = d.rowStatus, e.link = d.link, e.status = d.status,
         e.visits = d.visits, e.spend = d.spend, e.refunded = d.refunded,
         e.refunds = d.refunds, e.payments = d.payments, d.movements \subseteq e.movements
  PROVE  Exact(e, n + 1) /\ Grows(d, e)
<1>1. Counted(e)
  BY OtherCounts, ExactCounted DEF Enrolls
<1>2. RefundsBooked(e, n + 1)
  BY SameRefunds DEF Exact
<1> QED
  BY <1>1, <1>2 DEF Exact, Counted, Linked, Grows

\* Opening a day opens the drawer it closed.
LEMMA OpenExact ==
  ASSUME NEW n \in Nat, NEW d, Exact(d, n), NEW t \in Day, NEW cash \in Int
  PROVE  Exact(open_day(d, t, cash), n + 1) /\ Grows(d, open_day(d, t, cash))
<1> DEFINE e == open_day(d, t, cash)
<1>1. InOrder(d) /\ Shaped(d) /\ Balanced(d)
  BY DEF Exact
<1>2. /\ e = [f \in Columns |-> e[f]] /\ e.day = [d.day EXCEPT ![t] = "open"]
      /\ e.opening = [d.opening EXCEPT ![t] = cash]
      /\ \A f \in Columns \ {"day", "opening"} : e[f] = d[f]
  BY <1>1 DEF open_day, InOrder, Columns
<1> HIDE DEF e
<1>3. /\ e.phone = d.phone /\ e.rowStatus = d.rowStatus /\ e.link = d.link
      /\ e.status = d.status /\ e.mobile = d.mobile /\ e.visits = d.visits
      /\ e.spend = d.spend /\ e.refunded = d.refunded /\ e.refunds = d.refunds
      /\ e.payments = d.payments /\ e.movements = d.movements
      /\ e.expected = d.expected /\ e.sales = d.sales
  BY <1>2 DEF Columns
<1>4. InOrder(e)
  BY <1>1, <1>2, <1>3, OtherColumns
<1>5. Shaped(e)
  <2>1. e.day \in [Day -> DayStatus] /\ e.opening \in [Day -> Int]
    BY <1>1, <1>2 DEF Shaped, DayStatus
  <2> QED
    BY <1>1, <1>3, <2>1 DEF Shaped
<1>6. ASSUME NEW x \in Day, e.day[x] = "closed"
      PROVE  e.expected[x] = Expected(e, x)
  <2>1. x # t /\ d.day[x] = "closed" /\ e.opening[x] = d.opening[x]
    BY <1>1, <1>2, <1>6 DEF Shaped
  <2>2. d.expected[x] = Expected(d, x)
    BY <1>1, <2>1 DEF Balanced
  <2> QED
    BY <1>3, <2>1, <2>2 DEF Expected, Deposits, TakenOut
<1>7. Balanced(e)
  BY <1>1, <1>3, <1>6 DEF Balanced
<1> QED
  BY <1>3, <1>4, <1>5, <1>7, DaysChanged DEF e

\* Cash moves on days that are not closed.
LEMMA MoveExact ==
  ASSUME NEW n \in Nat, NEW d, Exact(d, n), NEW t \in Day, MayMove(d, t),
         NEW kind, NEW a \in Int, NEW id
  PROVE  /\ Exact(add_movement(d, t, kind, a, id), n + 1)
         /\ Grows(d, add_movement(d, t, kind, a, id))
<1> DEFINE g == GetOrCreateDay(d, t)
           row == [id |-> id, day |-> t, kind |-> kind, amount |-> a]
           e == add_movement(d, t, kind, a, id)
<1>1. InOrder(d) /\ Shaped(d) /\ Balanced(d)
  BY DEF Exact
<1>2. /\ g = [f \in Columns |-> g[f]] /\ g.day \in [Day -> DayStatus]
      /\ \A x \in Day : g.day[x] = d.day[x] \/ (x = t /\ g.day[x] = "open")
      /\ \A f \in Columns \ {"day"} : g[f] = d[f]
  BY <1>1 DEF GetOrCreateDay, InOrder, Columns, Shaped, DayStatus
<1>3. e = [g EXCEPT !.movements = @ \cup {row}]
  BY DEF add_movement
<1>4. row.day = t /\ row.amount = a
  OBVIOUS
<1> HIDE DEF g, row
<1>5. /\ e = [f \in Columns |-> e[f]] /\ e.movements = g.movements \cup {row}
      /\ \A f \in Columns \ {"movements"} : e[f] = g[f]
  <2> HIDE DEF e
  <2> QED
    BY <1>2, <1>3 DEF Columns
<1> HIDE DEF e
<1>6. /\ e.phone = d.phone /\ e.rowStatus = d.rowStatus /\ e.link = d.link
      /\ e.status = d.status /\ e.mobile = d.mobile /\ e.visits = d.visits
      /\ e.spend = d.spend /\ e.refunded = d.refunded /\ e.refunds = d.refunds
      /\ e.payments = d.payments /\ e.movements = d.movements \cup {row}
      /\ e.expected = d.expected /\ e.sales = d.sales /\ e.opening = d.opening
      /\ e.day = g.day
  BY <1>2, <1>5 DEF Columns
<1>7. InOrder(e)
  BY <1>1, <1>5, <1>6, OtherColumns
<1>8. Shaped(e)
  BY <1>1, <1>2, <1>6 DEF Shaped
<1>9. ASSUME NEW x \in Day, e.day[x] = "closed"
      PROVE  e.expected[x] = Expected(e, x)
  <2>1. x # t /\ d.day[x] = "closed"
    BY <1>2, <1>6, <1>9 DEF MayMove
  <2>2. Deposits(e, x) = Deposits(d, x) /\ TakenOut(e, x) = TakenOut(d, x)
    BY <1>4, <1>6, <2>1 DEF Deposits, TakenOut
  <2>3. d.expected[x] = Expected(d, x)
    BY <1>1, <2>1 DEF Balanced
  <2> QED
    BY <1>6, <2>2, <2>3 DEF Expected
<1>10. IsFiniteSet(e.movements) /\ \A m \in e.movements : m.amount \in Int
  BY <1>1, <1>4, <1>6, FS_AddElement DEF Balanced
<1>11. Balanced(e)
  BY <1>1, <1>6, <1>9, <1>10 DEF Balanced
<1> QED
  BY <1>6, <1>7, <1>8, <1>11, DaysChanged DEF e

\* Closing a day writes what its drawer should hold.
LEMMA CloseExact ==
  ASSUME NEW n \in Nat, NEW d, Exact(d, n), NEW t \in Day
  PROVE  Exact(close_day(d, t), n + 1) /\ Grows(d, close_day(d, t))
<1> DEFINE s == [d EXCEPT !.sales[t] = CashSales(d, t)]
           e == close_day(d, t)
<1>1. InOrder(d) /\ Shaped(d) /\ Balanced(d)
  BY DEF Exact
<1>2. CashSales(d, t) \in Int
  <2> DEFINE rows == {p \in d.payments : p.method = "CASH" /\ p.day = t
                                           /\ d.status[p.order] = "SETTLED"}
  <2>1. rows \subseteq d.payments
    OBVIOUS
  <2>2. CashSales(d, t) = Total(rows)
    BY DEF CashSales
  <2> HIDE DEF rows
  <2>3. IsFiniteSet(rows) /\ \A p \in rows : p.amount \in Int
    BY <1>1, <2>1, FS_Subset DEF Balanced
  <2> QED
    BY <2>2, <2>3, TotalInt
<1>3. /\ s = [f \in Columns |-> s[f]] /\ s.sales = [d.sales EXCEPT ![t] = CashSales(d, t)]
      /\ \A f \in Columns \ {"sales"} : s[f] = d[f]
  BY <1>1 DEF InOrder, Columns
<1>4. e = [s EXCEPT !.expected[t] = Expected(s, t), !.day[t] = "closed"]
  BY DEF close_day
<1> HIDE DEF s
<1>5. /\ s.movements = d.movements /\ s.opening = d.opening /\ s.sales \in [Day -> Int]
      /\ s.expected = d.expected /\ s.day = d.day
  BY <1>1, <1>2, <1>3 DEF Shaped, Columns
<1>6. Expected(s, t) \in Int
  <2>1. Deposits(s, t) \subseteq d.movements /\ TakenOut(s, t) \subseteq d.movements
    BY <1>5 DEF Deposits, TakenOut
  <2>2. /\ IsFiniteSet(Deposits(s, t)) /\ \A m \in Deposits(s, t) : m.amount \in Int
        /\ IsFiniteSet(TakenOut(s, t)) /\ \A m \in TakenOut(s, t) : m.amount \in Int
    BY <1>1, <2>1, FS_Subset DEF Balanced
  <2>3. Total(Deposits(s, t)) \in Int /\ Total(TakenOut(s, t)) \in Int
    BY <2>2, TotalInt
  <2> QED
    BY <1>1, <1>5, <2>3 DEF Expected, Shaped
<1>7. /\ e = [f \in Columns |-> e[f]]
      /\ e.expected = [s.expected EXCEPT ![t] = Expected(s, t)]
      /\ e.day = [s.day EXCEPT ![t] = "closed"]
      /\ \A f \in Columns \ {"expected", "day"} : e[f] = s[f]
  <2> HIDE DEF e
  <2> QED
    BY <1>3, <1>4 DEF Columns
<1> HIDE DEF e
<1>8. /\ e.phone = d.phone /\ e.rowStatus = d.rowStatus /\ e.link = d.link
      /\ e.status = d.status /\ e.mobile = d.mobile /\ e.visits = d.visits
      /\ e.spend = d.spend /\ e.refunded = d.refunded /\ e.refunds = d.refunds
      /\ e.payments = d.payments /\ e.movements = d.movements
      /\ e.opening = d.opening /\ e.sales = s.sales
  BY <1>3, <1>7 DEF Columns
<1>9. InOrder(e)
  BY <1>1, <1>7, <1>8, OtherColumns
<1>10. Shaped(e)
  <2>1. e.day \in [Day -> DayStatus] /\ e.expected \in [Day -> Int]
    BY <1>1, <1>5, <1>6, <1>7 DEF Shaped, DayStatus
  <2> QED
    BY <1>1, <1>5, <1>8, <2>1 DEF Shaped
<1>11. \A x : Expected(e, x) = Expected(s, x)
  BY <1>5, <1>8 DEF Expected, Deposits, TakenOut
<1>12. ASSUME NEW x \in Day, e.day[x] = "closed"
       PROVE  e.expected[x] = Expected(e, x)
  <2>1. CASE x = t
    BY <1>1, <1>5, <1>7, <1>11, <2>1 DEF Shaped
  <2>2. CASE x # t
    <3>1. d.day[x] = "closed" /\ s.sales[x] = d.sales[x] /\ e.expected[x] = d.expected[x]
      <4>1. d.day[x] = "closed" /\ e.expected[x] = d.expected[x]
        BY <1>1, <1>5, <1>7, <1>12, <2>2 DEF Shaped
      <4>2. s.sales[x] = d.sales[x]
        BY <1>1, <1>3, <2>2 DEF Shaped
      <4> QED
        BY <4>1, <4>2
    <3>2. Expected(s, x) = Expected(d, x)
      BY <1>5, <3>1 DEF Expected, Deposits, TakenOut
    <3> QED
      BY <1>1, <1>11, <3>1, <3>2 DEF Balanced
  <2> QED
    BY <2>1, <2>2
<1>13. Balanced(e)
  BY <1>1, <1>8, <1>12 DEF Balanced
<1> QED
  BY <1>8, <1>9, <1>10, <1>13, DaysChanged DEF e

-----------------------------------------------------------------------------
(* One request at a time: steps *)

\* What is written over the very rows that were read is what was prepared.
LEMMA WrittenOver ==
  ASSUME NEW K, NEW x, NEW y, x = [k \in K |-> x[k]], y = [k \in K |-> y[k]]
  PROVE  Written(x, x, y) = y
<1>1. Written(x, x, y) = [k \in K |-> y[k]]
  BY DEF Written
<1> QED
  BY <1>1

LEMMA MergedOver ==
  ASSUME NEW d, NEW e, NEW n, NEW k, Exact(d, n), Exact(e, k), Grows(d, e)
  PROVE  Merged(d, d, e) = e
<1> DEFINE m == [f \in DOMAIN d |->
                   IF f \in {"payments", "refunds", "movements"} THEN d[f] \cup (e[f] \ d[f])
                   ELSE Written(d[f], d[f], e[f])]
           u == Unlinked(e)
           link == [o \in Order |-> IF e.link[o] \in Live(e) THEN e.link[o] ELSE "nobody"]
<1>1. InOrder(d) /\ Shaped(d) /\ InOrder(e) /\ Shaped(e) /\ LinksLive(e)
  BY DEF Exact
<1>2. DOMAIN d = Columns /\ e = [f \in Columns |-> e[f]]
  BY <1>1 DEF InOrder
<1>3. /\ Written(d.status, d.status, e.status) = e.status
      /\ Written(d.mobile, d.mobile, e.mobile) = e.mobile
      /\ Written(d.link, d.link, e.link) = e.link
      /\ Written(d.refunded, d.refunded, e.refunded) = e.refunded
  <2>1. /\ d.status = [o \in Order |-> d.status[o]] /\ e.status = [o \in Order |-> e.status[o]]
        /\ d.mobile = [o \in Order |-> d.mobile[o]] /\ e.mobile = [o \in Order |-> e.mobile[o]]
        /\ d.link = [o \in Order |-> d.link[o]] /\ e.link = [o \in Order |-> e.link[o]]
        /\ d.refunded = [o \in Order |-> d.refunded[o]]
        /\ e.refunded = [o \in Order |-> e.refunded[o]]
    BY <1>1 DEF Shaped, InOrder
  <2> QED
    BY <2>1, WrittenOver
<1>4. /\ Written(d.rowStatus, d.rowStatus, e.rowStatus) = e.rowStatus
      /\ Written(d.phone, d.phone, e.phone) = e.phone
      /\ Written(d.visits, d.visits, e.visits) = e.visits
      /\ Written(d.spend, d.spend, e.spend) = e.spend
  <2>1. /\ d.rowStatus = [c \in Customer |-> d.rowStatus[c]]
        /\ e.rowStatus = [c \in Customer |-> e.rowStatus[c]]
        /\ d.phone = [c \in Customer |-> d.phone[c]]
        /\ e.phone = [c \in Customer |-> e.phone[c]]
        /\ d.visits = [c \in Customer |-> d.visits[c]]
        /\ e.visits = [c \in Customer |-> e.visits[c]]
        /\ d.spend = [c \in Customer |-> d.spend[c]]
        /\ e.spend = [c \in Customer |-> e.spend[c]]
    BY <1>1 DEF Shaped, InOrder
  <2> QED
    BY <2>1, WrittenOver
<1>5. /\ Written(d.day, d.day, e.day) = e.day
      /\ Written(d.opening, d.opening, e.opening) = e.opening
      /\ Written(d.sales, d.sales, e.sales) = e.sales
      /\ Written(d.expected, d.expected, e.expected) = e.expected
  <2>1. /\ d.day = [t \in Day |-> d.day[t]] /\ e.day = [t \in Day |-> e.day[t]]
        /\ d.opening = [t \in Day |-> d.opening[t]] /\ e.opening = [t \in Day |-> e.opening[t]]
        /\ d.sales = [t \in Day |-> d.sales[t]] /\ e.sales = [t \in Day |-> e.sales[t]]
        /\ d.expected = [t \in Day |-> d.expected[t]]
        /\ e.expected = [t \in Day |-> e.expected[t]]
    BY <1>1 DEF Shaped
  <2> QED
    BY <2>1, WrittenOver
<1>6. /\ d.payments \cup (e.payments \ d.payments) = e.payments
      /\ d.refunds \cup (e.refunds \ d.refunds) = e.refunds
      /\ d.movements \cup (e.movements \ d.movements) = e.movements
  BY DEF Grows
<1>7. m = e
  <2>1. \A f \in Columns : m[f] = e[f]
    BY <1>2, <1>3, <1>4, <1>5, <1>6 DEF Columns
  <2>2. m = [f \in Columns |-> m[f]]
    BY <1>2
  <2> HIDE DEF m
  <2> QED
    BY <1>2, <2>1, <2>2
<1>8. Merged(d, d, e) = Unlinked(m)
  BY DEF Merged
<1>9. u = e
  <2>1. \A o \in Order : link[o] = e.link[o]
    BY <1>1 DEF LinksLive
  <2>2. link = e.link
    <3>1. e.link = [o \in Order |-> e.link[o]] /\ link = [o \in Order |-> link[o]]
      BY <1>1 DEF Shaped
    <3> HIDE DEF link
    <3> QED
      BY <2>1, <3>1
  <2>3. u = [e EXCEPT !.link = link]
    BY DEF Unlinked
  <2> HIDE DEF link
  <2> QED
    BY <1>2, <2>2, <2>3 DEF Columns
<1> QED
  BY <1>7, <1>8, <1>9

\* A request that starts when no other is under way, on exact books.
LEMMA SerialPrepared ==
  ASSUME BooksInv, SerialBooks, NEW w \in Worker, NEW new, Prepare(w, new),
         Exact(db, started) => Exact(new, started + 1) /\ Grows(db, new)
  PROVE  SerialBooks'
<1> DEFINE r == [busy |-> TRUE, loaded |-> db, new |-> new]
<1>1. /\ req' = [req EXCEPT ![w] = r] /\ db' = db /\ r.loaded = db /\ r.new = new
      /\ started' = started + 1 /\ today' = today
      /\ overlapped' = (overlapped \/ \E v \in Worker : req[v].busy)
  BY DEF Prepare
<1>2. started' \in Nat /\ overlapped' \in BOOLEAN /\ today' \in Day
  BY <1>1 DEF SerialBooks
<1>3. CASE overlapped'
  BY <1>2, <1>3 DEF SerialBooks
<1>4. CASE ~ overlapped'
  <2>1. ~ overlapped /\ \A v \in Worker : ~ req[v].busy
    BY <1>1, <1>4
  <2>2. Exact(db, started) /\ started \in Nat
    BY <2>1 DEF SerialBooks
  <2>3. Exact(new, started + 1) /\ Grows(db, new)
    BY <2>2
  <2>4. Exact(db, started + 1)
    BY <2>2, SameRefunds DEF Exact
  <2>5. req'[w] = r /\ \A v \in Worker : v # w => req'[v] = req[v]
    BY <1>1 DEF BooksInv
  <2> HIDE DEF r
  <2>6. /\ \A v, x \in Worker : req'[v].busy /\ req'[x].busy => v = x
        /\ \A v \in Worker : req'[v].busy => v = w
    BY <2>1, <2>5
  <2>7. \A v \in Worker : req'[v].busy =>
          /\ req'[v].loaded = db'
          /\ Exact(req'[v].new, started') /\ Grows(db', req'[v].new)
    BY <1>1, <2>3, <2>5, <2>6
  <2> QED
    BY <1>1, <1>2, <2>4, <2>6, <2>7 DEF SerialBooks
<1> QED
  BY <1>2, <1>3, <1>4 DEF SerialBooks

LEMMA RowsUnused ==
  ASSUME NEW d, NEW S, NEW new \in RowsFor(d, S, Free)
  PROVE  new \in RowsFor(d, S, Unused(db))
BY DEF RowsFor, Free

LEMMA SerialCustomers ==
  ASSUME BooksInv, SerialBooks, NEW w \in Worker, CustomerRequest(w)
  PROVE  SerialBooks'
<1>1. started \in Nat
  BY DEF SerialBooks
<1>2. ASSUME NEW o \in Order, NEW m \in Mobile, update_order(w, o, m)
      PROVE  SerialBooks'
  <2>1. PICK new \in RowsFor([db EXCEPT !.mobile[o] = m], {o}, Free) :
               Prepare(w, UpdateOrderCustomer(db, o, m, new))
    BY <1>2 DEF update_order
  <2>2. db.status[o] = "OPEN"
    BY <1>2 DEF update_order
  <2> QED
    BY <1>1, <2>1, <2>2, RowsUnused, OrderExact, SerialPrepared
<1>3. ASSUME NEW m \in Mobile, CreateCustomer(w, m)
      PROVE  SerialBooks'
  <2>1. PICK c \in Free : Prepare(w, create_customer(db, m, c))
    BY <1>3 DEF CreateCustomer
  <2>2. c \in Unused(db)
    BY DEF Free
  <2> QED
    BY <1>1, <2>1, <2>2, CreateExact, SerialPrepared
<1>4. ASSUME NEW c \in Customer, NEW m \in Mobile, UpdateCustomer(w, c, m)
      PROVE  SerialBooks'
  <2>1. c \in Live(db) /\ Prepare(w, update_customer(db, c, m))
    BY <1>4 DEF UpdateCustomer
  <2> QED
    BY <1>1, <2>1, RenumberExact, SerialPrepared
<1>5. ASSUME NEW c \in Customer, DeleteCustomer(w, c)
      PROVE  SerialBooks'
  <2>1. c \in Live(db) /\ Prepare(w, delete_customer(db, c))
    BY <1>5 DEF DeleteCustomer
  <2> QED
    BY <1>1, <2>1, DeleteExact, SerialPrepared
<1>6. ASSUME Backfill(w)
      PROVE  SerialBooks'
  <2>1. PICK new \in RowsFor(db, Unclaimed(db), Free) : Prepare(w, backfill(db, new))
    BY <1>6 DEF Backfill
  <2> QED
    BY <1>1, <2>1, RowsUnused, BackfillExact, SerialPrepared
<1> QED
  BY <1>2, <1>3, <1>4, <1>5, <1>6 DEF CustomerRequest

LEMMA SerialMoney ==
  ASSUME BooksInv, SerialBooks, NEW w \in Worker, MoneyRequest(w)
  PROVE  SerialBooks'
<1>1. started \in Nat
  BY DEF SerialBooks
<1>2. ASSUME NEW o \in Order, NEW method \in {"CASH", "DUE"}, NEW a \in Amount,
             Pay(w, o, method, a)
      PROVE  SerialBooks'
  <2> DEFINE row == [id |-> started + 1, order |-> o, method |-> method, day |-> today,
                     amount |-> a]
             paid == [db EXCEPT !.payments = @ \cup {row}]
             settled(new) == OnBillSettled([paid EXCEPT !.status[o] = "SETTLED"], o, new)
  <2>1. /\ db.status[o] = "OPEN"
        /\ \/ Prepare(w, paid)
           \/ \E new \in RowsFor(db, ToLink(db, o), Free) : Prepare(w, settled(new))
    BY <1>2 DEF Pay
  <2>2. row.amount \in Int
    BY BooksAssumption
  <2> HIDE DEF row
  <2>3. CASE Prepare(w, paid)
    <3>1. Exact(db, started) => Exact(paid, started + 1) /\ Grows(db, paid)
      BY <1>1, <2>2, PayExact
    <3> HIDE DEF paid
    <3> QED
      BY <2>3, <3>1, SerialPrepared
  <2>4. ASSUME NEW new \in RowsFor(db, ToLink(db, o), Free), Prepare(w, settled(new))
        PROVE  SerialBooks'
    <3>1. new \in RowsFor(db, ToLink(db, o), Unused(db))
      BY RowsUnused
    <3>2. Exact(db, started) => Exact(settled(new), started + 1) /\ Grows(db, settled(new))
      BY <1>1, <2>1, <2>2, <3>1, SettleExact
    <3> HIDE DEF settled
    <3> QED
      BY <2>4, <3>2, SerialPrepared
  <2> QED
    BY <2>1, <2>3, <2>4
<1>3. ASSUME NEW o \in Order, NEW a \in Amount, Refunding(w, o, a)
      PROVE  SerialBooks'
  <2>1. MayRefund(db, o, a) /\ Prepare(w, create_refund(db, o, a, started + 1)) /\ a \in Nat
    BY <1>3, BooksAssumption DEF Refunding
  <2> QED
    BY <1>1, <2>1, RefundExact, SerialPrepared
<1> QED
  BY <1>2, <1>3 DEF MoneyRequest

LEMMA SerialDays ==
  ASSUME BooksInv, SerialBooks, NEW w \in Worker, DayRequest(w)
  PROVE  SerialBooks'
<1>1. started \in Nat /\ today \in Day /\ \A a \in Amount : a \in Int
  BY BooksAssumption DEF SerialBooks
<1>2. ASSUME NEW cash \in Amount, NEW mayReopen \in BOOLEAN, OpenDay(w, cash, mayReopen)
      PROVE  SerialBooks'
  <2>1. Prepare(w, open_day(db, today, cash))
    BY <1>2 DEF OpenDay
  <2> QED
    BY <1>1, <2>1, OpenExact, SerialPrepared
<1>3. ASSUME NEW kind, NEW a \in Amount, AddMovement(w, kind, a)
      PROVE  SerialBooks'
  <2>1. MayMove(db, today) /\ Prepare(w, add_movement(db, today, kind, a, started + 1))
    BY <1>3 DEF AddMovement
  <2> QED
    BY <1>1, <2>1, MoveExact, SerialPrepared
<1>4. ASSUME CloseDay(w)
      PROVE  SerialBooks'
  <2>1. Prepare(w, close_day(db, today))
    BY <1>4 DEF CloseDay
  <2> QED
    BY <1>1, <2>1, CloseExact, SerialPrepared
<1> QED
  BY <1>2, <1>3, <1>4 DEF DayRequest

\* Alone, a commit that succeeds leaves the rows as the request prepared them.
LEMMA SerialCommit ==
  ASSUME BooksInv, SerialBooks, NEW w \in Worker, Commit(w)
  PROVE  SerialBooks'
<1>1. /\ req[w].busy /\ req' = [req EXCEPT ![w] = Idle]
      /\ db' = db \/ db' = Merged(db, req[w].loaded, req[w].new)
      /\ started' = started /\ overlapped' = overlapped /\ today' = today
  BY DEF Commit
<1>2. CASE overlapped
  BY <1>1, <1>2 DEF SerialBooks
<1>3. CASE ~ overlapped
  <2>1. /\ Exact(db, started) /\ req[w].loaded = db /\ Exact(req[w].new, started)
        /\ Grows(db, req[w].new) /\ \A v \in Worker : req[v].busy => v = w
    BY <1>1, <1>3 DEF SerialBooks
  <2>2. Exact(db', started)
    BY <1>1, <2>1, MergedOver
  <2>3. ~ req'[w].busy /\ \A v \in Worker : v # w => req'[v] = req[v]
    BY <1>1 DEF BooksInv, Idle
  <2>4. \A v \in Worker : ~ req'[v].busy
    BY <2>1, <2>3
  <2> QED
    BY <1>1, <2>2, <2>4 DEF SerialBooks
<1> QED
  BY <1>2, <1>3

LEMMA SerialInit ==
  ASSUME Init
  PROVE  SerialBooks
<1>1. /\ db = [f \in Columns |-> db[f]] /\ req = [w \in Worker |-> Idle]
      /\ db.status = [o \in Order |-> "OPEN"] /\ db.mobile = [o \in Order |-> NoNumber]
      /\ db.link = [o \in Order |-> "nobody"] /\ db.refunded = [o \in Order |-> 0]
      /\ db.payments = {} /\ db.refunds = {} /\ db.movements = {}
      /\ db.rowStatus = [c \in Customer |-> "unused"]
      /\ db.phone = [c \in Customer |-> NoNumber]
      /\ db.visits = [c \in Customer |-> 0] /\ db.spend = [c \in Customer |-> 0]
  BY DEF Init, Columns
<1>2. /\ db.day = [t \in Day |-> "none"] /\ db.opening = [t \in Day |-> 0]
      /\ db.sales = [t \in Day |-> 0] /\ db.expected = [t \in Day |-> 0]
      /\ started = 0 /\ overlapped = FALSE /\ today = 1
  BY DEF Init
<1>3. NoNumber \in Stored
  BY DEF NoNumber, Stored, Mobile
<1>4. InOrder(db)
  BY <1>1, <1>3, BookAssumption DEF InOrder
<1>5. Shaped(db)
  <2>1. /\ db.status \in [Order -> {"OPEN", "SETTLED"}]
        /\ db.mobile = [o \in Order |-> db.mobile[o]] /\ db.link = [o \in Order |-> db.link[o]]
    <3> HIDE DEF NoNumber
    <3> QED
      BY <1>1
  <2>2. /\ db.rowStatus \in [Customer -> RowStatus]
        /\ db.visits = [c \in Customer |-> db.visits[c]]
        /\ db.spend = [c \in Customer |-> db.spend[c]]
    BY <1>1 DEF RowStatus
  <2>3. /\ db.day \in [Day -> DayStatus] /\ db.expected \in [Day -> Int]
        /\ db.opening \in [Day -> Int] /\ db.sales \in [Day -> Int]
    BY <1>2 DEF DayStatus
  <2> QED
    BY <2>1, <2>2, <2>3 DEF Shaped
<1>6. LinksLive(db)
  BY <1>1 DEF LinksLive
<1>7. AllCounted(db)
  <2>1. \A c : SettledOrders(db, c) = {}
    BY <1>1 DEF SettledOrders
  <2>2. Cardinality({}) = 0
    BY FS_EmptySet
  <2>3. \A c : Spend(db, c) = 0
    BY <2>1, SumEmpty DEF Spend
  <2> QED
    BY <1>1, <2>1, <2>2, <2>3 DEF AllCounted, CountsRight
<1>8. RefundsBooked(db, started)
  <2>1. \A o \in Order : {r \in db.refunds : r.order = o} = {}
    BY <1>1
  <2>2. Total({}) = 0
    BY TotalIs, SumEmpty
  <2> QED
    BY <1>1, <2>1, <2>2, FS_EmptySet DEF RefundsBooked
<1>9. Balanced(db)
  BY <1>1, <1>2, FS_EmptySet DEF Balanced
<1>10. today \in Day /\ started \in Nat
  BY <1>2, DayAssumption DEF Day
<1>11. \A w \in Worker : ~ req[w].busy
  BY <1>1 DEF Idle
<1> QED
  BY <1>2, <1>4, <1>5, <1>6, <1>7, <1>8, <1>9, <1>10, <1>11 DEF SerialBooks, Exact

\* While requests run one at a time, the books are exact.
THEOREM SerialBooksHold == Spec => []SerialBooks
<1>1. Init => SerialBooks
  BY SerialInit
<1>2. BooksInv /\ SerialBooks /\ [Next]_vars => SerialBooks'
  <2> SUFFICES ASSUME BooksInv, SerialBooks, [Next]_vars PROVE SerialBooks'
    OBVIOUS
  <2>1. ASSUME NEW w \in Worker,
               CustomerRequest(w) \/ MoneyRequest(w) \/ DayRequest(w) \/ Commit(w)
        PROVE  SerialBooks'
    BY <2>1, SerialCustomers, SerialMoney, SerialDays, SerialCommit
  <2>2. CASE Midnight
    <3>1. today' \in Day /\ UNCHANGED <<db, req, started, overlapped>>
      BY <2>2, DayAssumption DEF Midnight, SerialBooks, Day
    <3> QED
      BY <3>1 DEF SerialBooks
  <2>3. CASE UNCHANGED vars
    BY <2>3 DEF vars, SerialBooks
  <2> QED
    BY <2>1, <2>2, <2>3 DEF Next
<1> QED
  BY <1>1, <1>2, BooksInvHolds, PTL DEF Spec

\* As long as requests run one at a time, every customer's visits and spend are
\* those of the settled bills linked to the customer: whatever links orders,
\* settles, refunds or deletes also refreshes those it concerns.
THEOREM StatisticsExact == Spec => []StatsExact
<1>1. SerialBooks => StatsExact
  <2> SUFFICES ASSUME SerialBooks, ~ overlapped, NEW c \in Live(db)
               PROVE  LET mine == {o \in Order : db.link[o] = c /\ db.status[o] = "SETTLED"}
                      IN /\ db.visits[c] = Cardinality(mine)
                         /\ db.spend[c] + SumFunctionOnSet(db.refunded, mine)
                              = SumFunctionOnSet(Grand, mine)
    BY DEF StatsExact
  <2> DEFINE mine == {o \in Order : db.link[o] = c /\ db.status[o] = "SETTLED"}
             net == [o \in Order |-> Net(db, o)]
  <2>1. Exact(db, started) /\ c \in Customer /\ db.rowStatus[c] = "live"
    BY DEF SerialBooks, Live
  <2>2. db.visits[c] = Cardinality(mine) /\ db.spend[c] = SumFunctionOnSet(net, mine)
    BY <2>1 DEF Exact, AllCounted, CountsRight, Spend, SettledOrders
  <2>3. /\ IsFiniteSet(mine) /\ mine \subseteq Order
        /\ \A o \in mine : net[o] \in Int /\ db.refunded[o] \in Int
                             /\ Grand[o] = net[o] + db.refunded[o]
    <3>1. IsFiniteSet(mine) /\ mine \subseteq Order
      BY BookAssumption, FS_Subset
    <3>2. \A o \in Order : db.refunded[o] \in Nat /\ Grand[o] \in Nat
      BY <2>1, BookAssumption DEF Exact, InOrder
    <3>3. \A o \in Order : net[o] = Grand[o] - db.refunded[o]
      BY DEF Net
    <3> HIDE DEF net, mine
    <3> QED
      BY <3>1, <3>2, <3>3
  <2> HIDE DEF mine, net
  <2>4. SumFunctionOnSet(Grand, mine)
          = SumFunctionOnSet(net, mine) + SumFunctionOnSet(db.refunded, mine)
    BY <2>3, SumPlus
  <2> QED
    BY <2>2, <2>4 DEF mine
<1> QED
  BY <1>1, SerialBooksHold, PTL

\* The refunded total of a bill stays within the bill however refunds overlap,
\* and is what its refund rows add up to as long as they do not.
THEOREM RefundsAddUp == Spec => []RefundsWithinBill
<1>1. BooksInv /\ SerialBooks => RefundsWithinBill
  BY DEF BooksInv, InOrder, SerialBooks, Exact, RefundsBooked, RefundsWithinBill
<1> QED
  BY <1>1, BooksInvHolds, SerialBooksHold, PTL

\* As long as requests run one at a time, a closed day expects its opening float,
\* the cash sales it counted and the deposits, less the cash taken out: cash moves
\* on open days only, and opening a day again reopens it. Refunds are no part of it.
THEOREM ClosedDaysBalance == Spec => []ClosedDayBalances
<1>1. SerialBooks => ClosedDayBalances
  <2> SUFFICES ASSUME SerialBooks, ~ overlapped, NEW t \in Day, db.day[t] = "closed"
               PROVE  LET moved == {m \in db.movements : m.day = t}
                      IN db.expected[t] + Total({m \in moved : m.kind # "deposit"})
                           = db.opening[t] + db.sales[t]
                               + Total({m \in moved : m.kind = "deposit"})
    BY DEF ClosedDayBalances
  <2> DEFINE moved == {m \in db.movements : m.day = t}
             ins == Deposits(db, t)
             outs == TakenOut(db, t)
  <2>1. Shaped(db) /\ Balanced(db)
    BY DEF SerialBooks, Exact
  <2>2. {m \in moved : m.kind = "deposit"} = ins /\ {m \in moved : m.kind # "deposit"} = outs
    BY DEF Deposits, TakenOut
  <2>3. db.expected[t] = db.opening[t] + db.sales[t] + Total(ins) - Total(outs)
    BY <2>1 DEF Balanced, Expected
  <2>4. Total(ins) \in Int /\ Total(outs) \in Int
    <3>1. ins \subseteq db.movements /\ outs \subseteq db.movements
      BY DEF Deposits, TakenOut
    <3> HIDE DEF ins, outs
    <3>2. /\ IsFiniteSet(ins) /\ \A m \in ins : m.amount \in Int
          /\ IsFiniteSet(outs) /\ \A m \in outs : m.amount \in Int
      BY <2>1, <3>1, FS_Subset DEF Balanced
    <3> QED
      BY <3>2, TotalInt
  <2>5. db.opening[t] \in Int /\ db.sales[t] \in Int
    BY <2>1 DEF Shaped
  <2> HIDE DEF ins, outs
  <2>6. db.expected[t] + Total(outs) = db.opening[t] + db.sales[t] + Total(ins)
    BY <2>3, <2>4, <2>5
  <2> HIDE DEF moved
  <2> QED
    BY <2>2, <2>6 DEF moved
<1> QED
  BY <1>1, SerialBooksHold, PTL
=============================================================================
