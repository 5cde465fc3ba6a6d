----------------------------- MODULE TableSeating -----------------------------
(***************************************************************************)
(* Orders on tables: create_order, transfer_table, the closing handlers    *)
(* and update_order of app/services/owner/order_service.py, next to the    *)
(* edits of the floor plan of app/services/owner/venue_service.py.         *)
(*                                                                         *)
(* A handler of an order reads the order (Read), then looks up the table   *)
(* and whether an open order holds it (Handle), and commits later; nothing *)
(* is locked in between, and no constraint ties a table to one open order. *)
(* The database does check that a table written to an order exists, and it *)
(* clears the table of every order when the table is deleted.              *)
(* Spec lets the requests of several workers overlap, SerialSpec does not; *)
(* in both the manager edits the floor plan at any time.                   *)
(***************************************************************************)
EXTENDS FiniteSets

CONSTANTS Order,     \* identities of orders
          Table,     \* identities of tables; one that was deleted is not reused
          Label,     \* the names tables may have
          NoTable,   \* an order's venue_table_id is NULL
          NoLabel,   \* an order's table_label_snapshot is NULL
          Worker     \* server tasks; each handles one request at a time

ASSUME SeatingAssumption == NoTable \notin Table /\ NoLabel \notin Label

VARIABLES place,     \* place[t]: whether table t exists
          label,     \* label[t]: its present name
          order,     \* the committed rows of orders
          req        \* what each worker is doing

vars == <<place, label, order, req>>

OrderStatus == {"NONE", "OPEN", "SETTLED", "CANCELLED"}

\* Delivery is treated like takeaway: neither needs a table.
Service == {"dine_in", "takeaway"}

OrderRow == [status : OrderStatus, type : Service,
             table : Table \cup {NoTable}, snapshot : Label \cup {NoLabel}]

NoOrder == [status |-> "NONE", type |-> "dine_in", table |-> NoTable, snapshot |-> NoLabel]

Idle == [pc |-> "idle"]

\* After the first SELECT: what the orders were then.
Reading == [pc : {"reading"}, seen : [Order -> OrderRow]]

\* The handler's checks passed: it loaded this row of the order and changed it.
Busy == [pc : {"busy"}, order : Order, loaded : OrderRow, new : OrderRow]

TypeOK ==
  /\ place \in [Table -> {"NONE", "THERE", "DELETED"}]
  /\ label \in [Table -> Label]
  /\ order \in [Order -> OrderRow]
  /\ req \in [Worker -> {Idle} \cup Reading \cup Busy]

Init ==
  /\ place = [t \in Table |-> "NONE"]
  /\ label \in [Table -> Label]
  /\ order = [o \in Order |-> NoOrder]
  /\ req = [w \in Worker |-> Idle]

OpenOn(t) == {o \in Order : order[o].status = "OPEN" /\ order[o].table = t}

\* Mutant of TableFree: only dine-in orders are looked for.
TableFreeDineIn(t) == \A o \in OpenOn(t) : order[o].type # "dine_in"

\* _open_order_for_table finds none; on two it raises.
TableFree(t) == OpenOn(t) = {}

\* The order takes the table and freezes its present name.
SeatAt(row, t) == [row EXCEPT !.table = t, !.snapshot = label[t]]

\* Mutant of HistoricalLabel: history follows the live table.
HistoricalLabelLive(row) ==
  IF row.table # NoTable THEN label[row.table] ELSE row.snapshot

\* historical_table_label: the name history, invoices and reports show.
HistoricalLabel(row) ==
  CASE row.snapshot # NoLabel -> row.snapshot
    [] row.snapshot = NoLabel /\ row.table # NoTable -> label[row.table]
    [] OTHER -> NoLabel

-----------------------------------------------------------------------------
(* Requests about orders *)

Read(w) ==
  /\ req[w].pc = "idle"
  /\ req' = [req EXCEPT ![w] = [pc |-> "reading", seen |-> order]]
  /\ UNCHANGED <<place, label, order>>

\* The session of worker w holds row loaded of order o and made it new.
Change(w, o, loaded, new) ==
  /\ req' = [req EXCEPT ![w] = [pc |-> "busy", order |-> o,
                                loaded |-> loaded, new |-> new]]
  /\ UNCHANGED <<place, label, order>>

\* Identities another request has already given to a row it will insert.
OrderReserved(o) == \E w \in Worker : req[w].pc = "busy" /\ req[w].order = o

\* create_order: dine-in needs a table, and the table must be free.
CreateOrder(w) ==
  \E o \in Order, type \in Service :
    /\ order[o] = NoOrder /\ ~ OrderReserved(o)
    /\ LET fresh == [NoOrder EXCEPT !.status = "OPEN", !.type = type]
       IN \/ type # "dine_in" /\ Change(w, o, NoOrder, fresh)
          \/ \E t \in Table : /\ place[t] = "THERE"
                              /\ TableFree(t)
                              /\ Change(w, o, NoOrder, SeatAt(fresh, t))

\* transfer_table: open dine-in orders, to a table that is free; to the same
\* table nothing changes.
TransferTable(w) ==
  \E o \in Order, t \in Table :
    LET row == req[w].seen[o]
    IN /\ row.status = "OPEN"
       /\ row.type = "dine_in"
       /\ place[t] = "THERE"
       /\ row.table # t
       /\ TableFree(t)
       /\ Change(w, o, row, SeatAt(row, t))

\* update_order may change the type, with or without a table.
UpdateOrder(w) ==
  \E o \in Order, type \in Service :
    LET row == req[w].seen[o]
    IN /\ row.status = "OPEN"
       /\ Change(w, o, row, [row EXCEPT !.type = type])

\* add_bill_payment and settle_bill settle the order, cancel_order cancels it;
\* only settle_bill fills a missing snapshot (_ensure_table_label_snapshot).
CloseOrder(w) ==
  \E o \in Order, status \in {"SETTLED", "CANCELLED"} :
    LET row == req[w].seen[o]
        closed == [row EXCEPT !.status = status]
    IN /\ row.status = "OPEN"
       /\ \/ Change(w, o, row, closed)
          \/ /\ status = "SETTLED"
             /\ Change(w, o, row, [closed EXCEPT !.snapshot = HistoricalLabel(row)])

Handle(w) ==
  /\ req[w].pc = "reading"
  /\ CreateOrder(w) \/ TransferTable(w) \/ UpdateOrder(w) \/ CloseOrder(w)

\* The columns that changed are written over what the row holds by then.
Merged(current, loaded, new) ==
  [c \in {"status", "type", "table", "snapshot"} |->
     IF new[c] = loaded[c] THEN current[c] ELSE new[c]]

\* What the foreign key lets this request write: the table it found, none, or
\* one that still exists.
Writable(r) ==
  {r.loaded.table, NoTable} \cup {t \in Table : place[t] = "THERE"}

Commit(w) ==
  LET r == req[w]
  IN /\ r.pc = "busy"
     /\ r.new.table \in Writable(r)
     /\ order' = [order EXCEPT ![r.order] = Merged(@, r.loaded, r.new)]
     /\ req' = [req EXCEPT ![w] = Idle]
     /\ UNCHANGED <<place, label>>

\* A check rejects the request, a statement fails or the process dies.
Abort(w) ==
  /\ req[w].pc # "idle"
  /\ req' = [req EXCEPT ![w] = Idle]
  /\ UNCHANGED <<place, label, order>>

-----------------------------------------------------------------------------
(* The manager's edits of the floor plan; orders see them when they commit *)

\* create_table, bulk_create_tables, and create_area with initial tables.
CreateTables(tables) ==
  /\ tables # {}
  /\ \A t \in tables : place[t] = "NONE"
  /\ place' = [t \in Table |-> IF t \in tables THEN "THERE" ELSE place[t]]
  /\ UNCHANGED <<label, order, req>>

\* update_table with a new name.
RenameTable(t, name) ==
  /\ place[t] = "THERE"
  /\ label' = [label EXCEPT ![t] = name]
  /\ UNCHANGED <<place, order, req>>

\* delete_table, and delete_area with all its tables: ON DELETE SET NULL.
DeleteTables(tables) ==
  /\ tables # {}
  /\ \A t \in tables : place[t] = "THERE"
  /\ place' = [t \in Table |-> IF t \in tables THEN "DELETED" ELSE place[t]]
  /\ order' = [o \in Order |-> IF order[o].table \in tables
                               THEN [order[o] EXCEPT !.table = NoTable]
                               ELSE order[o]]
  /\ UNCHANGED <<label, req>>

EditFloor ==
  \/ \E tables \in SUBSET Table : CreateTables(tables) \/ DeleteTables(tables)
  \/ \E t \in Table, name \in Label : RenameTable(t, name)

Next ==
  \/ \E w \in Worker : Read(w) \/ Handle(w) \/ Commit(w) \/ Abort(w)
  \/ EditFloor

Spec == Init /\ [][Next]_vars

\* No request about orders starts while another one is under way.
SerialNext ==
  \/ \E w \in Worker :
       \/ (\A v \in Worker : req[v].pc = "idle") /\ Read(w)
       \/ Handle(w)
       \/ Commit(w)
       \/ Abort(w)
  \/ EditFloor

SerialSpec == Init /\ [][SerialNext]_vars

-----------------------------------------------------------------------------
(* Properties *)

\* No two open orders hold one table, of whatever type they are and however
\* they came there (create_order, transfer_table). Overlapping requests break
\* it: "This table already has an open order" is checked without a lock.
OneOpenOrderPerTable == \A t \in Table : \A o, p \in OpenOn(t) : o = p

\* No order ever points to a table that is gone, although tables are deleted
\* between a handler's look at the table and its commit.
SeatedTablesExist ==
  \A o \in Order : order[o].table # NoTable => place[order[o].table] = "THERE"

Closed(o) == order[o].status \in {"SETTLED", "CANCELLED"}

\* historical_table_label: "Frozen at order open/transfer; bill history does
\* not follow venue table renames", nor their deletion.
HistoryKeepsLabel ==
  [][\A o \in Order : Closed(o) =>
       HistoricalLabel(order[o])' = HistoricalLabel(order[o])]_vars

\* Serial requests implement the abstract floor plan.
SeatedPairs ==
  {s \in Order \X Table : order[s[1]].status = "OPEN" /\ order[s[1]].table = s[2]}

Floor == INSTANCE FloorPlan WITH seated <- SeatedPairs,
                                 gone <- {o \in Order : Closed(o)}
ImplementsFloorPlan == Floor!FloorSpec
=============================================================================
