------------------------------- MODULE OutletBooks -------------------------------
(***************************************************************************)
(* The books of one outlet under concurrent requests: the payments that    *)
(* settle bills, the refunds, the customers' statistics derived from both  *)
(* (CustomerBook) and the cash of the business days (BusinessDay).         *)
(*                                                                         *)
(* A request takes two steps: Handle, its SELECTs, checks and changes in   *)
(* memory; and Commit, which inserts the rows it added and writes the      *)
(* columns it changed over what the rows hold by then. Nothing is locked.  *)
(* The database refuses a commit that breaks a unique or foreign key, or   *)
(* updates a row that is gone: the request then fails as a whole.          *)
(***************************************************************************)
EXTENDS CustomerBook, BusinessDay

CONSTANTS Worker,       \* server tasks; each handles one request at a time
          Amount,       \* the amounts of payments, refunds and movements
          MaxRequests,  \* bound on the requests of a behaviour, one at a time
          MaxOverlapped \* bound on the requests of a behaviour that overlap

ASSUME BooksAssumption ==
  /\ Amount \subseteq Nat \ {0}
  /\ MaxRequests \in Nat /\ MaxOverlapped \in 0 .. MaxRequests

VARIABLES db,          \* the committed rows
          req,         \* what each worker is about to write
          started,     \* number of requests so far
          overlapped,  \* whether two requests were ever under way at once
          today        \* the date at the outlet

vars == <<db, req, started, overlapped, today>>

Id == 1 .. MaxRequests

\* A withdrawal is booked like an expense.
Payment == [id : Id, order : Order, method : {"CASH", "DUE"}, day : Day, amount : Nat]
Movement == [id : Id, day : Day, kind : {"deposit", "expense"}, amount : Nat]
Refund == [id : Id, order : Order, amount : Nat]


\* Orders and their bills, customers, and days (expected is NULL, here 0,
\* until a day is closed).
Rows == [status : [Order -> {"OPEN", "SETTLED"}], mobile : [Order -> Mobile],
         link : [Order -> Customer \cup {"nobody"}], refunded : [Order -> Nat],
         payments : SUBSET Payment, refunds : SUBSET Refund,
         rowStatus : [Customer -> RowStatus], phone : [Customer -> Mobile],
         visits : [Customer -> Nat], spend : [Customer -> Nat],
         day : [Day -> DayStatus], opening : [Day -> Nat],
         sales : [Day -> Nat], expected : [Day -> Int],
         movements : SUBSET Movement]

Idle == [busy |-> FALSE]

Busy == [busy : {TRUE}, loaded : Rows, new : Rows]

TypeOK ==
  /\ db \in Rows
  /\ req \in [Worker -> Busy \cup {Idle}]
  /\ started \in 0 .. MaxRequests
  /\ overlapped \in BOOLEAN
  /\ today \in Day

Init ==
  /\ db = [status |-> [o \in Order |-> "OPEN"], mobile |-> [o \in Order |-> NoNumber],
           link |-> [o \in Order |-> "nobody"], refunded |-> [o \in Order |-> 0],
           payments |-> {}, refunds |-> {},
           rowStatus |-> [c \in Customer |-> "unused"],
           phone |-> [c \in Customer |-> NoNumber],
           visits |-> [c \in Customer |-> 0], spend |-> [c \in Customer |-> 0],
           day |-> [t \in Day |-> "none"], opening |-> [t \in Day |-> 0],
           sales |-> [t \in Day |-> 0], expected |-> [t \in Day |-> 0],
           movements |-> {}]
  /\ req = [w \in Worker |-> Idle]
  /\ started = 0
  /\ overlapped = FALSE
  /\ today = 1

-----------------------------------------------------------------------------
(* Requests *)

\* Identities no request under way has given to a row.
Free ==
  {c \in Unused(db) : \A w \in Worker : req[w].busy => req[w].new.rowStatus[c] = "unused"}

\* Worker w is about to write new, from the rows it sees now.
Prepare(w, new) ==
  /\ ~ req[w].busy
  /\ overlapped' = (overlapped \/ \E v \in Worker : req[v].busy)
  /\ started < IF overlapped' THEN MaxOverlapped ELSE MaxRequests
  /\ req' = [req EXCEPT ![w] = [busy |-> TRUE, loaded |-> db, new |-> new]]
  /\ started' = started + 1
  /\ UNCHANGED <<db, today>>

update_order(w, o, m) ==
  /\ db.status[o] = "OPEN"
  /\ \E new \in RowsFor([db EXCEPT !.mobile[o] = m], {o}, Free) :
       Prepare(w, UpdateOrderCustomer(db, o, m, new))

Paid(d, o) == Total({p \in d.payments : p.order = o})

\* add_bill_payment and settle_bill: a payment of what is due settles the bill.
Pay(w, o, method, amount) ==
  LET row == [id |-> started + 1, order |-> o, method |-> method, day |-> today,
              amount |-> amount]
      paid == [db EXCEPT !.payments = @ \cup {row}]
  IN /\ db.status[o] = "OPEN"
     /\ Paid(paid, o) <= Grand[o]
     /\ IF Paid(paid, o) < Grand[o] THEN Prepare(w, paid)
        ELSE \E new \in RowsFor(db, ToLink(db, o), Free) :
               Prepare(w, OnBillSettled([paid EXCEPT !.status[o] = "SETTLED"], o, new))

Refunding(w, o, amount) ==
  /\ MayRefund(db, o, amount)
  /\ Prepare(w, create_refund(db, o, amount, started + 1))

CreateCustomer(w, m) ==
  /\ MayCreate(db, m)
  /\ \E c \in Free : Prepare(w, create_customer(db, m, c))

UpdateCustomer(w, c, m) ==
  /\ c \in Live(db)
  /\ MayRenumber(db, c, m)
  /\ Prepare(w, update_customer(db, c, m))

DeleteCustomer(w, c) ==
  /\ c \in Live(db)
  /\ Prepare(w, delete_customer(db, c))

Backfill(w) ==
  \E new \in RowsFor(db, Unclaimed(db), Free) : Prepare(w, backfill(db, new))

OpenDay(w, cash, mayReopen) ==
  /\ MayOpen(db, today, mayReopen)
  /\ Prepare(w, open_day(db, today, cash))

AddMovement(w, kind, amount) ==
  /\ MayMove(db, today)
  /\ Prepare(w, add_movement(db, today, kind, amount, started + 1))

CloseDay(w) ==
  /\ MayClose(db, today)
  /\ Prepare(w, close_day(db, today))

-----------------------------------------------------------------------------
(* Commits *)

Written(cur, old, new) ==
  [k \in DOMAIN cur |-> IF new[k] # old[k] THEN new[k] ELSE cur[k]]

\* The rows after a request that saw old and prepared new has committed.
Merged(cur, old, new) ==
  Unlinked([f \in DOMAIN cur |->
     IF f \in {"payments", "refunds", "movements"} THEN cur[f] \cup (new[f] \ old[f])
     ELSE Written(cur[f], old[f], new[f])])

\* A second row for the day, a second customer with the number.
BreaksUnique(cur, old, new) ==
  \/ \E t \in Day : ~ HasRow(old, t) /\ HasRow(new, t) /\ HasRow(cur, t)
  \/ \E c, b \in Live(Merged(cur, old, new)) :
       LET p == Merged(cur, old, new).phone IN c # b /\ p[c] = p[b] /\ p[c] # NoNumber

\* An update of a customer, or a new link to one, who was deleted meanwhile.
MissesRow(cur, old, new) ==
  \E c \in Customer :
    /\ cur.rowStatus[c] = "deleted" /\ old.rowStatus[c] = "live"
    /\ \/ \E f \in {"rowStatus", "phone", "visits", "spend"} : new[f][c] # old[f][c]
       \/ \E o \in Order : new.link[o] = c /\ old.link[o] # c

Fails(w) ==
  \/ BreaksUnique(db, req[w].loaded, req[w].new)
  \/ MissesRow(db, req[w].loaded, req[w].new)

Commit(w) ==
  /\ req[w].busy
  /\ db' = IF Fails(w) THEN db ELSE Merged(db, req[w].loaded, req[w].new)
  /\ req' = [req EXCEPT ![w] = Idle]
  /\ UNCHANGED <<started, overlapped, today>>

Midnight ==
  /\ today < LastDay
  /\ today' = today + 1
  /\ UNCHANGED <<db, req, started, overlapped>>

-----------------------------------------------------------------------------
CustomerRequest(w) ==
  \/ \E o \in Order, m \in Mobile : update_order(w, o, m)
  \/ \E m \in Mobile : CreateCustomer(w, m)
  \/ \E c \in Customer, m \in Mobile : UpdateCustomer(w, c, m)
  \/ \E c \in Customer : DeleteCustomer(w, c)
  \/ Backfill(w)

MoneyRequest(w) ==
  \/ \E o \in Order, method \in {"CASH", "DUE"}, a \in Amount : Pay(w, o, method, a)
  \/ \E o \in Order, a \in Amount : Refunding(w, o, a)

DayRequest(w) ==
  \/ \E cash \in Amount, mayReopen \in BOOLEAN : OpenDay(w, cash, mayReopen)
  \/ \E kind \in {"deposit", "expense"}, a \in Amount : AddMovement(w, kind, a)
  \/ CloseDay(w)

Next ==
  \/ \E w \in Worker : CustomerRequest(w) \/ MoneyRequest(w) \/ DayRequest(w) \/ Commit(w)
  \/ Midnight

Spec == Init /\ [][Next]_vars

-----------------------------------------------------------------------------
(* Properties *)

\* As long as requests run one at a time, every customer's visits and spend are
\* those of the settled bills of the orders linked to the customer, whatever
\* settlements, refunds, relinked orders, deletions and backfills came before.
StatsExact ==
  ~ overlapped =>
    \A c \in Live(db) :
      LET mine == {o \in Order : db.link[o] = c /\ db.status[o] = "SETTLED"}
      IN /\ db.visits[c] = Cardinality(mine)
         /\ db.spend[c] + SumFunctionOnSet(db.refunded, mine) = SumFunctionOnSet(Grand, mine)

\* However requests overlap, no customer has a number another customer has,
\* with or without its prefix: numbers are stored normalized.
OneCustomerPerNumber ==
  \A c, b \in Live(db) :
    (db.phone[c] \in Typed /\ db.phone[b] \in Typed /\ c # b)
      => db.phone[c].digits # db.phone[b].digits

\* However requests overlap, the refunded total of a bill never exceeds the
\* bill; and one at a time, it is what the refund rows add up to.
RefundsWithinBill ==
  \A o \in Order :
    /\ db.refunded[o] <= Grand[o]
    /\ ~ overlapped => db.refunded[o] = Total({r \in db.refunds : r.order = o})

\* One at a time, what a closed day says was expected in the drawer is its
\* float, the cash sales it counted and all the cash moved on that day.
ClosedDayBalances ==
  ~ overlapped =>
    \A t \in Day : db.day[t] = "closed" =>
      LET moved == {m \in db.movements : m.day = t}
      IN db.expected[t] + Total({m \in moved : m.kind # "deposit"})
           = db.opening[t] + db.sales[t] + Total({m \in moved : m.kind = "deposit"})

=============================================================================
