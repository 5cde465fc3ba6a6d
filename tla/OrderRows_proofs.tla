--------------------------- MODULE OrderRows_proofs ---------------------------
(***************************************************************************)
(* The row of an order, at its table and on its bill.                      *)
(*                                                                         *)
(* TableSeating, for any orders, tables, labels and workers: no order ever *)
(* points to a table that is gone; and while requests about orders do not  *)
(* overlap, a table has at most one open order, history keeps its labels,  *)
(* and the handlers implement the abstract floor plan, whatever the        *)
(* manager does.                                                           *)
(*                                                                         *)
(* PricedOrder, for any menus, tax rules, prices and discounts: the bill   *)
(* adds up the lines as they were sold, a dish costs what its default size *)
(* does, one GST rule is active, a discount stays within its cap, and the  *)
(* taxes add up, rounded as they are, and follow the lines; no total and   *)
(* no part of a tax is ever less than nothing.                             *)
(***************************************************************************)
EXTENDS TableSeating, PricedOrder, Sums, SequenceTheorems, TLAPS

-----------------------------------------------------------------------------
(* Types *)

LEMMA SeatAtType ==
  ASSUME TypeOK, NEW row \in OrderRow, NEW t \in Table
  PROVE  SeatAt(row, t) \in OrderRow
  BY DEF TypeOK, SeatAt, OrderRow

LEMMA HistoricalLabelType ==
  ASSUME TypeOK, NEW row \in OrderRow
  PROVE  HistoricalLabel(row) \in Label \cup {NoLabel}
  BY DEF TypeOK, HistoricalLabel, OrderRow

LEMMA MergedType ==
  ASSUME NEW current \in OrderRow, NEW loaded \in OrderRow, NEW new \in OrderRow
  PROVE  /\ Merged(current, loaded, new) \in OrderRow
         /\ \A c \in {"status", "type", "table", "snapshot"} :
              Merged(current, loaded, new)[c] = IF new[c] = loaded[c] THEN current[c]
                                                ELSE new[c]
  BY DEF Merged, OrderRow

LEMMA ChangeType ==
  ASSUME TypeOK, NEW w \in Worker, NEW o \in Order,
         NEW loaded \in OrderRow, NEW new \in OrderRow, Change(w, o, loaded, new)
  PROVE  TypeOK'
  BY DEF TypeOK, Change, Busy

\* What Handle does, whichever handler it is: a request becomes busy with one
\* order, and the rows are typed.
LEMMA HandleChanges ==
  ASSUME TypeOK, NEW w \in Worker, Handle(w)
  PROVE  \E o \in Order, loaded \in OrderRow, new \in OrderRow :
           Change(w, o, loaded, new)
<1>1. req[w].seen \in [Order -> OrderRow]
  BY DEF TypeOK, Handle, Idle, Reading, Busy
<1>2. NoOrder \in OrderRow
  BY DEF NoOrder, OrderRow, OrderStatus, Service
<1>3. CASE CreateOrder(w)
  <2>1. PICK o \in Order, kind \in Service :
          LET fresh == [NoOrder EXCEPT !.status = "OPEN", !.type = kind]
          IN \/ Change(w, o, NoOrder, fresh)
             \/ \E t \in Table : Change(w, o, NoOrder, SeatAt(fresh, t))
    BY <1>3 DEF CreateOrder
  <2>2. [NoOrder EXCEPT !.status = "OPEN", !.type = kind] \in OrderRow
    BY DEF NoOrder, OrderRow, OrderStatus
  <2> QED
    BY <1>2, <2>1, <2>2, SeatAtType
<1>4. CASE TransferTable(w)
  BY <1>1, <1>4, SeatAtType DEF TransferTable
<1>5. CASE UpdateOrder(w)
  <2>1. PICK o \in Order, kind \in Service :
          Change(w, o, req[w].seen[o], [req[w].seen[o] EXCEPT !.type = kind])
    BY <1>5 DEF UpdateOrder
  <2>2. [req[w].seen[o] EXCEPT !.type = kind] \in OrderRow
    BY <1>1 DEF OrderRow
  <2> QED
    BY <1>1, <2>1, <2>2
<1>6. CASE CloseOrder(w)
  <2>1. PICK o \in Order, status \in {"SETTLED", "CANCELLED"} :
          \E new \in {[req[w].seen[o] EXCEPT !.status = status],
                      [[req[w].seen[o] EXCEPT !.status = status]
                         EXCEPT !.snapshot = HistoricalLabel(req[w].seen[o])]} :
            Change(w, o, req[w].seen[o], new)
    BY <1>6 DEF CloseOrder
  <2>2. /\ [req[w].seen[o] EXCEPT !.status = status] \in OrderRow
        /\ [[req[w].seen[o] EXCEPT !.status = status]
              EXCEPT !.snapshot = HistoricalLabel(req[w].seen[o])] \in OrderRow
    BY <1>1, HistoricalLabelType DEF OrderRow, OrderStatus
  <2> QED
    BY <1>1, <2>1, <2>2
<1> QED
  BY <1>3, <1>4, <1>5, <1>6 DEF Handle

LEMMA CommitType ==
  ASSUME TypeOK, NEW w \in Worker, Commit(w)
  PROVE  TypeOK'
<1>1. req[w] \in Busy
  BY DEF TypeOK, Commit, Idle, Reading, Busy
<1>2. Merged(order[req[w].order], req[w].loaded, req[w].new) \in OrderRow
  BY <1>1, MergedType DEF TypeOK, Busy
<1> QED
  BY <1>1, <1>2 DEF TypeOK, Commit, Busy

LEMMA EditFloorType ==
  ASSUME TypeOK, EditFloor
  PROVE  TypeOK'
<1>1. ASSUME NEW tables \in SUBSET Table, CreateTables(tables) PROVE TypeOK'
  BY <1>1 DEF TypeOK, CreateTables
<1>2. ASSUME NEW tables \in SUBSET Table, DeleteTables(tables) PROVE TypeOK'
  <2>1. \A o \in Order : [order[o] EXCEPT !.table = NoTable] \in OrderRow
    BY DEF TypeOK, OrderRow
  <2> QED
    BY <1>2, <2>1 DEF TypeOK, DeleteTables
<1>3. ASSUME NEW t \in Table, NEW name \in Label, RenameTable(t, name) PROVE TypeOK'
  BY <1>3 DEF TypeOK, RenameTable
<1> QED
  BY <1>1, <1>2, <1>3 DEF EditFloor

LEMMA TypeStep ==
  ASSUME TypeOK, [Next]_vars
  PROVE  TypeOK'
<1>1. ASSUME NEW w \in Worker, Read(w) PROVE TypeOK'
  BY <1>1 DEF TypeOK, Read, Reading
<1>2. ASSUME NEW w \in Worker, Handle(w) PROVE TypeOK'
  BY <1>2, HandleChanges, ChangeType
<1>3. ASSUME NEW w \in Worker, Abort(w) PROVE TypeOK'
  BY <1>3 DEF TypeOK, Abort
<1>4. CASE UNCHANGED vars
  BY <1>4 DEF TypeOK, vars
<1> QED
  BY <1>1, <1>2, <1>3, <1>4, CommitType, EditFloorType DEF Next

LEMMA TypeInit == Init => TypeOK
  BY DEF Init, TypeOK, NoOrder, OrderRow, OrderStatus, Service

\* The variables of TableSeating keep their types, however requests overlap.
THEOREM SeatingTyped == Spec => []TypeOK
  BY TypeInit, TypeStep, PTL DEF Spec

-----------------------------------------------------------------------------
(* Overlapping requests: no order points to a table that is gone *)

LEMMA ExistStep ==
  ASSUME TypeOK, SeatedTablesExist, [Next]_vars
  PROVE  SeatedTablesExist'
<1>1. ASSUME NEW w \in Worker, Read(w) \/ Abort(w) PROVE SeatedTablesExist'
  BY <1>1 DEF SeatedTablesExist, Read, Abort
<1>2. ASSUME NEW w \in Worker, Handle(w) PROVE SeatedTablesExist'
  BY <1>2, HandleChanges DEF SeatedTablesExist, Change
<1>3. ASSUME NEW w \in Worker, Commit(w) PROVE SeatedTablesExist'
  <2> DEFINE r == req[w]
  <2>1. r \in Busy
    BY <1>3 DEF TypeOK, Commit, Idle, Reading, Busy
  <2>2. order[r.order] \in OrderRow /\ r.loaded \in OrderRow /\ r.new \in OrderRow
    BY <2>1 DEF Busy, TypeOK
  <2>3. Merged(order[r.order], r.loaded, r.new).table
          = IF r.new.table = r.loaded.table THEN order[r.order].table ELSE r.new.table
    BY <2>2, MergedType
  <2>4. r.new.table # r.loaded.table =>
          r.new.table = NoTable \/ place[r.new.table] = "THERE"
    BY <1>3 DEF Commit, Writable
  <2>5. \A o \in Order :
          order'[o] = IF o = r.order THEN Merged(order[o], r.loaded, r.new) ELSE order[o]
    BY <1>3 DEF Commit, TypeOK
  <2>6. place' = place
    BY <1>3 DEF Commit
  <2> QED
    BY <2>1, <2>3, <2>4, <2>5, <2>6 DEF SeatedTablesExist, Busy
<1>4. ASSUME NEW tables \in SUBSET Table, CreateTables(tables) PROVE SeatedTablesExist'
  BY <1>4 DEF SeatedTablesExist, CreateTables, TypeOK, OrderRow
<1>5. ASSUME NEW tables \in SUBSET Table, DeleteTables(tables) PROVE SeatedTablesExist'
  <2>1. \A o \in Order : order[o].table \in Table \cup {NoTable}
    BY DEF TypeOK, OrderRow
  <2>2. \A o \in Order :
          order'[o].table = IF order[o].table \in tables THEN NoTable ELSE order[o].table
    BY <1>5 DEF DeleteTables, TypeOK, OrderRow
  <2>3. \A t \in Table : place'[t] = IF t \in tables THEN "DELETED" ELSE place[t]
    BY <1>5 DEF DeleteTables
  <2> QED
    BY <2>1, <2>2, <2>3 DEF SeatedTablesExist
<1>6. ASSUME NEW t \in Table, NEW name \in Label, RenameTable(t, name)
      PROVE  SeatedTablesExist'
  BY <1>6 DEF SeatedTablesExist, RenameTable
<1>7. CASE UNCHANGED vars
  BY <1>7 DEF SeatedTablesExist, vars
<1> QED
  BY <1>1, <1>2, <1>3, <1>4, <1>5, <1>6, <1>7 DEF Next, EditFloor

\* The foreign key and ON DELETE SET NULL: whenever tables are deleted, also
\* between a handler's look at the table and its commit, no order points to one.
THEOREM NoDanglingSeat == Spec => []SeatedTablesExist
<1>1. Init => SeatedTablesExist
  BY DEF Init, SeatedTablesExist, NoOrder
<1> QED
  BY <1>1, TypeInit, TypeStep, ExistStep, PTL DEF Spec

-----------------------------------------------------------------------------
(* Serial requests: the inductive invariant *)

\* A row is as a session read it, but its table may have been deleted since.
Fresh(current, old) ==
  /\ current.status = old.status
  /\ current.snapshot = old.snapshot
  /\ current.table \in {old.table, NoTable}

\* A seated order has a snapshot of its table's name.
Named(row) == row.table # NoTable => row.snapshot # NoLabel

\* What a request under way is about to do: open an order, change an open one
\* without closing it, or close it where it is; a new table was free and is
\* nobody's yet.
Sound(r) ==
  /\ Fresh(order[r.order], r.loaded)
  /\ \/ r.loaded.status = "NONE" /\ r.loaded.table = NoTable /\ r.new.status = "OPEN"
     \/ r.loaded.status = "OPEN" /\ r.new.status = "OPEN"
     \/ /\ r.loaded.status = "OPEN" /\ r.new.status \in {"SETTLED", "CANCELLED"}
        /\ r.new.table = r.loaded.table
  /\ r.new.table # r.loaded.table =>
       /\ r.new.table # NoTable
       /\ r.new.snapshot # NoLabel
       /\ \A p \in OpenOn(r.new.table) : p = r.order
  /\ r.new.snapshot # r.loaded.snapshot => r.new.snapshot # NoLabel

Alone(w) == \A v \in Worker : v # w => req[v].pc = "idle"

SerialInv ==
  /\ TypeOK
  /\ OneOpenOrderPerTable
  /\ \A o \in Order : Named(order[o])
  /\ \A o \in Order : order[o].status = "NONE" => order[o].table = NoTable
  /\ \A w \in Worker : req[w].pc # "idle" => Alone(w)
  /\ \A w \in Worker : req[w].pc = "reading" =>
       \A o \in Order : Fresh(order[o], req[w].seen[o]) /\ Named(req[w].seen[o])
  /\ \A w \in Worker : req[w].pc = "busy" => Sound(req[w])

LEMMA SerialStep == [SerialNext]_vars => [Next]_vars
  BY DEF SerialNext, Next

LEMMA SerialInit == Init => SerialInv
<1> SUFFICES ASSUME Init PROVE SerialInv
  OBVIOUS
<1>1. \A o \in Order : order[o] = NoOrder
  BY DEF Init
<1>2. \A w \in Worker : req[w].pc = "idle"
  BY DEF Init, Idle
<1> QED
  BY <1>1, <1>2, TypeInit DEF SerialInv, OneOpenOrderPerTable, OpenOn, Named, NoOrder

LEMMA SerialRead ==
  ASSUME SerialInv, NEW w \in Worker, Alone(w), Read(w)
  PROVE  SerialInv'
<1>1. /\ req' = [req EXCEPT ![w] = [pc |-> "reading", seen |-> order]]
      /\ UNCHANGED <<place, label, order>>
  BY DEF Read
<1>2. TypeOK'
  BY TypeStep DEF SerialInv, Next
<1>3. /\ req'[w].pc = "reading" /\ req'[w].seen = order
      /\ \A v \in Worker : v # w => req'[v].pc = "idle"
  BY <1>1 DEF SerialInv, TypeOK, Alone
<1>4. \A o \in Order : Fresh(order[o], order[o])
  BY DEF Fresh
<1> QED
  BY <1>1, <1>2, <1>3, <1>4
     DEF SerialInv, OneOpenOrderPerTable, OpenOn, Named, Alone, Fresh

\* What the request of a handler is about to do, on rows nobody else changes.
LEMMA HandleSound ==
  ASSUME SerialInv, NEW w \in Worker, Handle(w)
  PROVE  \E o \in Order, loaded \in OrderRow, new \in OrderRow :
           /\ Change(w, o, loaded, new)
           /\ Sound([pc |-> "busy", order |-> o, loaded |-> loaded, new |-> new])
<1>1. /\ req[w].seen \in [Order -> OrderRow]
      /\ \A o \in Order : Fresh(order[o], req[w].seen[o]) /\ Named(req[w].seen[o])
  BY DEF SerialInv, TypeOK, Handle, Idle, Reading, Busy
<1>2. NoOrder \in OrderRow
  BY DEF NoOrder, OrderRow, OrderStatus, Service
<1>3. TypeOK
  BY DEF SerialInv
<1>4. CASE CreateOrder(w)
  <2>1. PICK o \in Order, kind \in Service :
          /\ order[o] = NoOrder
          /\ LET fresh == [NoOrder EXCEPT !.status = "OPEN", !.type = kind]
             IN \/ Change(w, o, NoOrder, fresh)
                \/ \E t \in Table : TableFree(t) /\ Change(w, o, NoOrder, SeatAt(fresh, t))
    BY <1>4 DEF CreateOrder
  <2> DEFINE fresh == [NoOrder EXCEPT !.status = "OPEN", !.type = kind]
  <2>2. /\ fresh \in OrderRow /\ fresh.status = "OPEN"
        /\ fresh.table = NoTable /\ fresh.snapshot = NoLabel
    BY DEF NoOrder, OrderRow, OrderStatus
  <2> HIDE DEF fresh
  <2>3. CASE Change(w, o, NoOrder, fresh)
    <3>1. Sound([pc |-> "busy", order |-> o, loaded |-> NoOrder, new |-> fresh])
      BY <2>1, <2>2 DEF Sound, Fresh, NoOrder
    <3> QED
      BY <1>2, <2>2, <2>3, <3>1
  <2>4. CASE \E t \in Table : TableFree(t) /\ Change(w, o, NoOrder, SeatAt(fresh, t))
    <3>1. PICK t \in Table : TableFree(t) /\ Change(w, o, NoOrder, SeatAt(fresh, t))
      BY <2>4
    <3>2. SeatAt(fresh, t) \in OrderRow
      BY <1>3, <2>2, SeatAtType
    <3>3. /\ SeatAt(fresh, t).status = "OPEN" /\ SeatAt(fresh, t).table = t
          /\ SeatAt(fresh, t).snapshot = label[t] /\ label[t] \in Label
      BY <1>3, <2>2 DEF SeatAt, OrderRow, TypeOK
    <3>4. Sound([pc |-> "busy", order |-> o, loaded |-> NoOrder, new |-> SeatAt(fresh, t)])
      BY <2>1, <3>1, <3>3, SeatingAssumption DEF Sound, Fresh, NoOrder, TableFree
    <3> QED
      BY <1>2, <3>1, <3>2, <3>4
  <2> QED
    BY <2>1, <2>3, <2>4 DEF fresh
<1>5. CASE TransferTable(w)
  <2>1. PICK o \in Order, t \in Table :
          /\ req[w].seen[o].status = "OPEN"
          /\ TableFree(t)
          /\ Change(w, o, req[w].seen[o], SeatAt(req[w].seen[o], t))
    BY <1>5 DEF TransferTable
  <2> DEFINE row == req[w].seen[o]
  <2>2. row \in OrderRow /\ Fresh(order[o], row)
    BY <1>1
  <2>3. SeatAt(row, t) \in OrderRow
    BY <1>3, <2>2, SeatAtType
  <2>4. /\ SeatAt(row, t).status = "OPEN" /\ SeatAt(row, t).table = t
        /\ SeatAt(row, t).snapshot = label[t] /\ label[t] \in Label
    BY <1>3, <2>1, <2>2 DEF SeatAt, OrderRow, TypeOK
  <2>5. Sound([pc |-> "busy", order |-> o, loaded |-> row, new |-> SeatAt(row, t)])
    BY <2>1, <2>2, <2>4, SeatingAssumption DEF Sound, TableFree
  <2> QED
    BY <2>1, <2>2, <2>3, <2>5
<1>6. CASE UpdateOrder(w)
  <2>1. PICK o \in Order, kind \in Service :
          /\ req[w].seen[o].status = "OPEN"
          /\ Change(w, o, req[w].seen[o], [req[w].seen[o] EXCEPT !.type = kind])
    BY <1>6 DEF UpdateOrder
  <2> DEFINE row == req[w].seen[o]
             new == [row EXCEPT !.type = kind]
  <2>2. /\ row \in OrderRow /\ Fresh(order[o], row) /\ new \in OrderRow
        /\ new.status = row.status /\ new.table = row.table /\ new.snapshot = row.snapshot
    BY <1>1 DEF OrderRow
  <2>3. Sound([pc |-> "busy", order |-> o, loaded |-> row, new |-> new])
    BY <2>1, <2>2 DEF Sound
  <2> QED
    BY <2>1, <2>2, <2>3
<1>7. CASE CloseOrder(w)
  <2>1. PICK o \in Order, status \in {"SETTLED", "CANCELLED"} :
          LET row == req[w].seen[o]
              closed == [row EXCEPT !.status = status]
          IN /\ row.status = "OPEN"
             /\ \E new \in {closed, [closed EXCEPT !.snapshot = HistoricalLabel(row)]} :
                  Change(w, o, row, new)
    BY <1>7 DEF CloseOrder
  <2> DEFINE row == req[w].seen[o]
             closed == [row EXCEPT !.status = status]
  <2>8. PICK new \in {closed, [closed EXCEPT !.snapshot = HistoricalLabel(row)]} :
          Change(w, o, row, new)
    BY <2>1
  <2>2. row \in OrderRow /\ Fresh(order[o], row) /\ Named(row)
    BY <1>1
  <2>3. HistoricalLabel(row) = row.snapshot
    BY <2>2 DEF HistoricalLabel, Named, OrderRow
  <2>4. /\ new \in OrderRow /\ new.status = status
        /\ new.table = row.table /\ new.snapshot = row.snapshot
    BY <2>2, <2>3, <2>8 DEF OrderRow, OrderStatus
  <2>5. row.status = "OPEN" /\ Change(w, o, row, new)
    BY <2>1, <2>8
  <2>6. Sound([pc |-> "busy", order |-> o, loaded |-> row, new |-> new])
    BY <2>2, <2>4, <2>5 DEF Sound
  <2> QED
    BY <2>2, <2>4, <2>5, <2>6
<1> QED
  BY <1>4, <1>5, <1>6, <1>7 DEF Handle

LEMMA SerialHandle ==
  ASSUME SerialInv, NEW w \in Worker, Handle(w)
  PROVE  SerialInv'
<1>1. PICK o \in Order, loaded \in OrderRow, new \in OrderRow :
        /\ Change(w, o, loaded, new)
        /\ Sound([pc |-> "busy", order |-> o, loaded |-> loaded, new |-> new])
  BY HandleSound
<1> DEFINE r == [pc |-> "busy", order |-> o, loaded |-> loaded, new |-> new]
<1>2. TypeOK'
  BY TypeStep DEF SerialInv, Next
<1>3. Alone(w)
  BY DEF Handle, SerialInv
<1>4. UNCHANGED <<place, label, order>> /\ req' = [req EXCEPT ![w] = r]
  BY <1>1 DEF Change
<1>5. req'[w] = r /\ \A v \in Worker : v # w => req'[v] = req[v] /\ req[v].pc = "idle"
  BY <1>3, <1>4 DEF SerialInv, TypeOK, Alone
<1> HIDE DEF r
<1>6. Sound(r)' /\ r.pc = "busy"
  BY <1>1, <1>4 DEF r, Sound, Fresh, OpenOn
<1>7. Sound(req[w])'
  BY <1>1, <1>4, <1>5, <1>6 DEF Sound, Fresh, OpenOn
<1> QED
  BY <1>2, <1>4, <1>5, <1>6, <1>7
     DEF SerialInv, OneOpenOrderPerTable, OpenOn, Named, Alone

\* What a serial commit makes of the order's row.
LEMMA CommitRow ==
  ASSUME SerialInv, NEW w \in Worker, Commit(w)
  PROVE  LET r == req[w]
             row == order'[r.order]
         IN /\ r \in Busy /\ Sound(r) /\ Alone(w)
            /\ row \in OrderRow
            /\ row.status = r.new.status
            /\ row.snapshot = r.new.snapshot
            /\ row.table = IF r.new.table = r.loaded.table THEN order[r.order].table
                           ELSE r.new.table
            /\ \A o \in Order : o # r.order => order'[o] = order[o]
<1> DEFINE r == req[w]
           row == Merged(order[r.order], r.loaded, r.new)
<1>1. r \in Busy /\ r.pc = "busy"
  BY DEF SerialInv, TypeOK, Commit, Idle, Reading, Busy
<1>2. Sound(r) /\ Alone(w)
  BY <1>1 DEF SerialInv
<1>3. order[r.order] \in OrderRow /\ r.loaded \in OrderRow /\ r.new \in OrderRow
  BY <1>1 DEF SerialInv, TypeOK, Busy
<1>4. /\ row \in OrderRow
      /\ \A c \in {"status", "type", "table", "snapshot"} :
           row[c] = IF r.new[c] = r.loaded[c] THEN order[r.order][c] ELSE r.new[c]
  BY <1>3, MergedType
<1>5. \A o \in Order : order'[o] = IF o = r.order THEN row ELSE order[o]
  BY DEF Commit, SerialInv, TypeOK
<1>6. order'[r.order] = row
  BY <1>1, <1>5 DEF Busy
<1> HIDE DEF row
<1>7. row.status = r.new.status /\ row.snapshot = r.new.snapshot
  BY <1>2, <1>4 DEF Sound, Fresh
<1> QED
  BY <1>1, <1>2, <1>4, <1>5, <1>6, <1>7

LEMMA SerialCommit ==
  ASSUME SerialInv, NEW w \in Worker, Commit(w)
  PROVE  SerialInv'
<1> DEFINE r == req[w]
           row == order'[r.order]
<1>1. /\ r.order \in Order /\ Sound(r) /\ Alone(w)
      /\ row.status = r.new.status
      /\ row.snapshot = r.new.snapshot
      /\ row.table = IF r.new.table = r.loaded.table THEN order[r.order].table
                     ELSE r.new.table
      /\ \A o \in Order : o # r.order => order'[o] = order[o]
  BY CommitRow DEF Busy
<1>2. TypeOK'
  BY TypeStep DEF SerialInv, Next
<1>3. \A v \in Worker : req'[v].pc = "idle"
  BY <1>1 DEF Commit, Alone, Idle, SerialInv, TypeOK
<1> HIDE DEF r, row
<1>4. Named(row)
  <2>1. Named(order[r.order]) /\ order[r.order].snapshot = r.loaded.snapshot
    BY <1>1 DEF SerialInv, Sound, Fresh
  <2> QED
    BY <1>1, <2>1 DEF Named, Sound
<1>5. row.status # "NONE"
  BY <1>1 DEF Sound
<1>6. ASSUME NEW t \in Table, NEW p \in Order, p # r.order,
             row.status = "OPEN", row.table = t,
             order[p].status = "OPEN", order[p].table = t
      PROVE  FALSE
  <2>1. CASE r.new.table # r.loaded.table
    BY <1>1, <1>6, <2>1 DEF Sound, OpenOn
  <2>2. CASE r.new.table = r.loaded.table
    <3>1. order[r.order].table = t
      BY <1>1, <1>6, <2>2
    <3>2. order[r.order].status \in {"NONE", "OPEN"}
      BY <1>1 DEF Sound, Fresh
    <3>3. order[r.order].status = "OPEN"
      BY <1>1, <3>1, <3>2, SeatingAssumption DEF SerialInv
    <3> QED
      BY <1>1, <1>6, <3>1, <3>3 DEF SerialInv, OneOpenOrderPerTable, OpenOn
  <2> QED
    BY <2>1, <2>2
<1>7. OneOpenOrderPerTable'
  <2> SUFFICES ASSUME NEW t \in Table, NEW o \in Order, NEW p \in Order, o # p,
                      order'[o].status = "OPEN", order'[o].table = t,
                      order'[p].status = "OPEN", order'[p].table = t
               PROVE  FALSE
    BY DEF OneOpenOrderPerTable, OpenOn
  <2>1. CASE o = r.order
    BY <1>1, <1>6, <2>1 DEF row
  <2>2. CASE p = r.order
    BY <1>1, <1>6, <2>2 DEF row
  <2>3. CASE o # r.order /\ p # r.order
    BY <1>1, <2>3 DEF SerialInv, OneOpenOrderPerTable, OpenOn
  <2> QED
    BY <2>1, <2>2, <2>3
<1>8. \A o \in Order : /\ Named(order'[o])
                       /\ order'[o].status = "NONE" => order'[o].table = NoTable
  BY <1>1, <1>4, <1>5 DEF SerialInv, row
<1> QED
  BY <1>2, <1>3, <1>7, <1>8 DEF SerialInv, Named

LEMMA SerialAbort ==
  ASSUME SerialInv, NEW w \in Worker, Abort(w)
  PROVE  SerialInv'
<1>1. TypeOK'
  BY TypeStep DEF SerialInv, Next
<1>2. UNCHANGED <<place, label, order>> /\ \A v \in Worker : req'[v].pc = "idle"
  BY DEF Abort, SerialInv, TypeOK, Alone, Idle
<1> QED
  BY <1>1, <1>2 DEF SerialInv, OneOpenOrderPerTable, OpenOn, Named

\* Deleting tables can only free places and clear what a session has read.
LEMMA SerialEdit ==
  ASSUME SerialInv, EditFloor
  PROVE  SerialInv'
<1>1. TypeOK'
  BY TypeStep DEF SerialInv, Next
<1>2. UNCHANGED req
  BY DEF EditFloor, CreateTables, DeleteTables, RenameTable
<1>3. \A o \in Order : /\ order'[o].status = order[o].status
                       /\ order'[o].snapshot = order[o].snapshot
                       /\ order'[o].table \in {order[o].table, NoTable}
  <2>1. ASSUME NEW tables \in SUBSET Table, DeleteTables(tables)
        PROVE  \A o \in Order : /\ order'[o].status = order[o].status
                                /\ order'[o].snapshot = order[o].snapshot
                                /\ order'[o].table \in {order[o].table, NoTable}
    BY <2>1 DEF DeleteTables, SerialInv, TypeOK, OrderRow
  <2>2. CASE UNCHANGED order
    BY <2>2
  <2> QED
    BY <2>1, <2>2 DEF EditFloor, CreateTables, RenameTable
<1>4. \A t \in Table : OpenOn(t)' \subseteq OpenOn(t)
  BY <1>3, SeatingAssumption DEF OpenOn
<1>5. OneOpenOrderPerTable'
  BY <1>4 DEF SerialInv, OneOpenOrderPerTable
<1>6. \A o \in Order : /\ Named(order'[o])
                       /\ order'[o].status = "NONE" => order'[o].table = NoTable
  BY <1>3 DEF SerialInv, Named
<1>7. ASSUME NEW w \in Worker, req[w].pc = "reading", NEW o \in Order
      PROVE  Fresh(order'[o], req[w].seen[o]) /\ Named(req[w].seen[o])
  BY <1>3, <1>7 DEF SerialInv, Fresh
<1>8. ASSUME NEW w \in Worker, req[w].pc = "busy"
      PROVE  Sound(req[w])'
  <2>1. /\ Sound(req[w]) /\ req[w].order \in Order
        /\ req[w].new.table \in Table \cup {NoTable}
    BY <1>8 DEF SerialInv, TypeOK, Idle, Reading, Busy, OrderRow
  <2>2. Fresh(order'[req[w].order], req[w].loaded)
    BY <1>3, <2>1 DEF Sound, Fresh
  <2>3. req[w].new.table \in Table =>
          OpenOn(req[w].new.table)' \subseteq OpenOn(req[w].new.table)
    BY <1>3, <1>4, <1>2, SeatingAssumption DEF OpenOn
  <2> QED
    BY <1>2, <2>1, <2>2, <2>3 DEF Sound
<1> QED
  BY <1>1, <1>2, <1>5, <1>6, <1>7, <1>8 DEF SerialInv, Alone, Named, Fresh

LEMMA SerialInductive ==
  ASSUME SerialInv, [SerialNext]_vars
  PROVE  SerialInv'
<1>1. CASE UNCHANGED vars
  <2>1. TypeOK'
    BY <1>1, TypeStep DEF SerialInv
  <2> QED
    BY <1>1, <2>1
       DEF SerialInv, OneOpenOrderPerTable, OpenOn, Named, Alone, Fresh, Sound, vars
<1>2. ASSUME NEW w \in Worker, \A v \in Worker : req[v].pc = "idle", Read(w)
      PROVE  SerialInv'
  BY <1>2, SerialRead DEF Alone
<1> QED
  BY <1>1, <1>2, SerialHandle, SerialCommit, SerialAbort, SerialEdit DEF SerialNext

LEMMA SerialInvariant == SerialSpec => []SerialInv
  BY SerialInit, SerialInductive, PTL DEF SerialSpec

\* While requests about orders do not overlap, no two open orders hold one
\* table, whatever the manager does to the floor plan.
THEOREM OneOrderPerTable == SerialSpec => []OneOpenOrderPerTable
  BY SerialInvariant, PTL DEF SerialInv

-----------------------------------------------------------------------------
(* Serial requests: history *)

\* What history shows of a named row is its snapshot, whatever its table is
\* called by then.
LEMMA NamedLabel ==
  ASSUME NEW row \in OrderRow, Named(row)
  PROVE  HistoricalLabel(row) = row.snapshot
  BY DEF HistoricalLabel, Named, OrderRow

\* The snapshot of a closed order is never written.
LEMMA ClosedSnapshot ==
  ASSUME SerialInv, [SerialNext]_vars, NEW o \in Order, Closed(o)
  PROVE  order'[o].snapshot = order[o].snapshot
<1>1. ASSUME NEW w \in Worker, Commit(w)
      PROVE  order'[o].snapshot = order[o].snapshot
  <2>1. Sound(req[w]) /\ \A p \in Order : p # req[w].order => order'[p] = order[p]
    BY <1>1, CommitRow
  <2>2. order[req[w].order].status \in {"NONE", "OPEN"}
    BY <2>1 DEF Sound, Fresh
  <2> QED
    BY <2>1, <2>2 DEF Closed
<1>2. ASSUME NEW tables \in SUBSET Table, DeleteTables(tables)
      PROVE  order'[o].snapshot = order[o].snapshot
  BY <1>2 DEF DeleteTables, SerialInv, TypeOK, OrderRow
<1>3. CASE UNCHANGED order
  BY <1>3
<1>4. ASSUME NEW w \in Worker, Handle(w) PROVE UNCHANGED order
  BY <1>4, HandleChanges DEF SerialInv, Change
<1> QED
  BY <1>1, <1>2, <1>3, <1>4
     DEF SerialNext, EditFloor, Read, Abort, CreateTables, RenameTable, vars

\* While requests about orders do not overlap, the table name that history shows
\* for a closed order never changes, whatever tables are renamed or deleted.
THEOREM HistoryKept == SerialSpec => HistoryKeepsLabel
<1>1. ASSUME SerialInv, [SerialNext]_vars
      PROVE  \A o \in Order : Closed(o) =>
               HistoricalLabel(order[o])' = HistoricalLabel(order[o])
  <2> SUFFICES ASSUME NEW o \in Order, Closed(o)
               PROVE  HistoricalLabel(order[o])' = HistoricalLabel(order[o])
    OBVIOUS
  <2>1. SerialInv'
    BY <1>1, SerialInductive
  <2>2. HistoricalLabel(order[o]) = order[o].snapshot
    BY <1>1, NamedLabel DEF SerialInv, TypeOK
  <2>3. order'[o] \in OrderRow /\ Named(order'[o])
    BY <2>1 DEF SerialInv, TypeOK, Named
  <2>4. HistoricalLabel(order[o])' = order'[o].snapshot
    BY <2>3 DEF HistoricalLabel, Named, OrderRow
  <2> QED
    BY <1>1, <2>2, <2>4, ClosedSnapshot
<1> QED
  BY <1>1, SerialInvariant, PTL DEF SerialSpec, HistoryKeepsLabel

-----------------------------------------------------------------------------
(* Serial requests implement the floor plan *)

Gone == {o \in Order : Closed(o)}

\* A step that neither seats, moves nor closes order o; it may open it.
KeepsSeat(o) ==
  \/ order'[o].status = order[o].status /\ order'[o].table = order[o].table
  \/ order[o].status = "NONE" /\ order'[o].status = "OPEN" /\ order'[o].table \notin Table

LEMMA SameFloor ==
  ASSUME \A o \in Order : KeepsSeat(o)
  PROVE  SeatedPairs' = SeatedPairs /\ Gone' = Gone
<1> USE DEF KeepsSeat
<1>1. Gone' = Gone
  BY DEF Gone, Closed
<1>2. ASSUME NEW s \in Order \X Table PROVE s \in SeatedPairs' <=> s \in SeatedPairs
  BY DEF SeatedPairs
<1> QED
  BY <1>1, <1>2 DEF SeatedPairs

LEMMA CommitOnFloor ==
  ASSUME SerialInv, NEW w \in Worker, Commit(w)
  PROVE  \/ \E o \in Order : Floor!Leave(o) \/ \E t \in Table : Floor!Place(o, t)
         \/ SeatedPairs' = SeatedPairs /\ Gone' = Gone
<1> DEFINE r == req[w]
           o == r.order
           row == order'[o]
<1>1. /\ o \in Order /\ Sound(r)
      /\ row.status = r.new.status
      /\ row.table = IF r.new.table = r.loaded.table THEN order[o].table
                     ELSE r.new.table
      /\ \A p \in Order : p # o => order'[p] = order[p]
      /\ r.new.table \in Table \cup {NoTable}
  BY CommitRow DEF Busy, OrderRow
<1>2. /\ order[o].status \in {"NONE", "OPEN"}
      /\ order[o].status = r.loaded.status
      /\ order[o].table \in {r.loaded.table, NoTable}
      /\ order[o].status = "NONE" => order[o].table = NoTable
  BY <1>1 DEF Sound, Fresh, SerialInv
<1> HIDE DEF r, o, row
<1>3. CASE r.new.table # r.loaded.table
  <2> DEFINE t == r.new.table
  <2>1. t \in Table /\ row.table = t /\ row.status = "OPEN"
    BY <1>1, <1>3 DEF Sound
  <2>2. \A p \in Order : ~ (order[p].status = "OPEN" /\ order[p].table = t)
    BY <1>1, <1>2, <1>3 DEF Sound, OpenOn, o
  <2> HIDE DEF t
  <2>3. ~ Floor!Taken(t)
    BY <2>1, <2>2 DEF Floor!Taken, SeatedPairs
  <2>4. o \notin Gone
    BY <1>2 DEF Gone, Closed
  <2>5. Gone' = Gone
    BY <1>1, <1>2, <2>1 DEF Gone, Closed, row
  <2>6. SeatedPairs' = (SeatedPairs \ Floor!SeatsOf(o)) \cup {<<o, t>>}
    <3>1. ASSUME NEW s \in Order \X Table
          PROVE  s \in SeatedPairs' <=> s \in (SeatedPairs \ Floor!SeatsOf(o)) \cup {<<o, t>>}
      BY <1>1, <2>1 DEF SeatedPairs, Floor!SeatsOf, row
    <3> QED
      BY <1>1, <2>1, <3>1 DEF SeatedPairs
  <2> QED
    BY <1>1, <2>1, <2>3, <2>4, <2>5, <2>6 DEF Floor!Place, Gone
<1>4. CASE r.new.table = r.loaded.table /\ row.status \in {"SETTLED", "CANCELLED"}
  <2>1. o \notin Gone
    BY <1>2 DEF Gone, Closed
  <2>2. Gone' = Gone \cup {o}
    BY <1>1, <1>4 DEF Gone, Closed, row
  <2>3. SeatedPairs' = SeatedPairs \ Floor!SeatsOf(o)
    <3>1. ASSUME NEW s \in Order \X Table
          PROVE  s \in SeatedPairs' <=> s \in SeatedPairs \ Floor!SeatsOf(o)
      BY <1>1, <1>4 DEF SeatedPairs, Floor!SeatsOf, row
    <3> QED
      BY <3>1 DEF SeatedPairs
  <2> QED
    BY <1>1, <2>1, <2>2, <2>3 DEF Floor!Leave, Gone
<1>5. CASE r.new.table = r.loaded.table /\ row.status \notin {"SETTLED", "CANCELLED"}
  <2>1. row.status = "OPEN" /\ row.table = order[o].table
    BY <1>1, <1>5 DEF Sound
  <2>2. KeepsSeat(o)
    BY <1>2, <2>1, SeatingAssumption DEF KeepsSeat, row
  <2>3. \A p \in Order : KeepsSeat(p)
    BY <1>1, <2>2 DEF KeepsSeat
  <2> QED
    BY <2>3, SameFloor
<1> QED
  BY <1>3, <1>4, <1>5

LEMMA DeleteOnFloor ==
  ASSUME SerialInv, NEW tables \in SUBSET Table, DeleteTables(tables)
  PROVE  Floor!Remove(tables)
<1>1. \A o \in Order :
        /\ order'[o].status = order[o].status
        /\ order'[o].table = IF order[o].table \in tables THEN NoTable ELSE order[o].table
  BY DEF DeleteTables, SerialInv, TypeOK, OrderRow
<1>2. Gone' = Gone
  BY <1>1 DEF Gone, Closed
<1>3. SeatedPairs' = {s \in SeatedPairs : s[2] \notin tables}
  <2>1. ASSUME NEW s \in Order \X Table
        PROVE  s \in SeatedPairs' <=> s \in SeatedPairs /\ s[2] \notin tables
    BY <1>1, SeatingAssumption DEF SeatedPairs
  <2> QED
    BY <2>1 DEF SeatedPairs
<1> QED
  BY <1>2, <1>3 DEF Floor!Remove, Gone

\* The seating handlers, one request at a time, implement the abstract floor
\* plan: a party moves to a free place, leaves once, or loses a deleted table.
THEOREM SeatingImplementsFloorPlan == SerialSpec => ImplementsFloorPlan
<1>1. Init => Floor!FloorInit
  BY DEF Init, Floor!FloorInit, SeatedPairs, Closed, NoOrder
<1>2. ASSUME SerialInv, [SerialNext]_vars
      PROVE  [Floor!FloorNext]_Floor!floorVars
  <2>1. ASSUME NEW w \in Worker, Commit(w)
        PROVE  [Floor!FloorNext]_Floor!floorVars
    BY <1>2, <2>1, CommitOnFloor DEF Floor!FloorNext, Floor!floorVars, Gone
  <2>2. ASSUME NEW tables \in SUBSET Table, DeleteTables(tables)
        PROVE  [Floor!FloorNext]_Floor!floorVars
    BY <1>2, <2>2, DeleteOnFloor DEF Floor!FloorNext
  <2>3. CASE UNCHANGED order
    BY <2>3 DEF Floor!floorVars, SeatedPairs, Closed
  <2>4. ASSUME NEW w \in Worker, Handle(w) PROVE UNCHANGED order
    BY <1>2, <2>4, HandleChanges DEF SerialInv, Change
  <2> QED
    BY <1>2, <2>1, <2>2, <2>3, <2>4
       DEF SerialNext, EditFloor, Read, Abort, CreateTables, RenameTable, vars
<1> QED
  BY <1>1, <1>2, SerialInvariant, PTL DEF SerialSpec, ImplementsFloorPlan, Floor!FloorSpec
-----------------------------------------------------------------------------
(* Prices: the invariant *)

\* The rules are a sequence of rows of the table of rules.
Ruled(rules) ==
  rules \in Seq(Range(rules)) /\ \A k \in DOMAIN rules : IsRule(rules[k])

Gst(rules, k) == rules[k].scheme = "gst" /\ rules[k].active

OneGst(rules) == \A j, k \in DOMAIN rules : Gst(rules, j) /\ Gst(rules, k) => j = k

RulesOK(rules, together) == Ruled(rules) /\ (~ together => OneGst(rules))

OutletColumns == {"category", "name", "dish", "under", "price", "diet", "available", "sizes",
                  "toppings", "type", "charge", "line", "rules", "bill"}

\* A dish with sizes has one default size, and its price is the dish's.
PricedBySize(d, i) ==
  d.sizes[i] # << >> =>
    \E k \in DOMAIN d.sizes[i] : Defaults(d.sizes[i]) = {k} /\ d.price[i] = d.sizes[i][k].price

MenuOK(d, stale) ==
  /\ DOMAIN d = OutletColumns
  /\ d.price \in [Dish -> Nat]
  /\ d.diet \in [Dish -> Diet]
  /\ d.sizes \in [Dish -> Seq(SizeRow)]
  /\ d.toppings \in [Dish -> ToppingGroup]
  /\ \A i \in Dish \ stale : PricedBySize(d, i)

WithinCap(b, max) == 2 * Hundred * b.discount <= (2 * max + 1) * b.subtotal + Hundred

\* A settled bill counts the order, an open one more beyond it; a discount that was
\* granted is within the cap as an amount and as a percentage, and the bill counts
\* no more than the order costs.
BillOK(d, max, given, more) ==
  /\ d.line \in [Line -> LineRow] /\ d.charge \in Nat /\ more \in Int
  /\ d.bill.state \in {"none", "open", "settled"}
  /\ d.bill.subtotal \in Nat /\ d.bill.discount \in Nat /\ d.bill.percent \in Nat
  /\ d.bill.state = "settled" => d.bill.subtotal = Subtotal(d)
  /\ d.bill.state = "open" => d.bill.subtotal = Subtotal(d) + more
  /\ given => /\ d.bill.state # "none" /\ d.bill.subtotal <= Subtotal(d)
              /\ WithinCap(d.bill, max)
              /\ d.bill.percent <= max

PricesInv ==
  /\ RulesOK(db.rules, switched)
  /\ MenuOK(db, repriced)
  /\ BillOK(db, policy.max, granted, beyond)
  /\ policy \in [max : 0 .. Hundred, worker : 0 .. Hundred, pin : BOOLEAN]
  /\ granted \in BOOLEAN
  /\ DOMAIN made = {"menu", "tax", "order", "policy"}
-----------------------------------------------------------------------------
(* Rounding and discounts *)

\* Rounded to two decimals, a quotient is within half a unit of the exact one.
LEMMA MoneyNear ==
  ASSUME NEW a \in Nat, NEW b \in Nat \ {0}
  PROVE  /\ money(a, b) \in Nat
         /\ 2 * (b * money(a, b)) <= 2 * a + b
         /\ 2 * a - b <= 2 * (b * money(a, b))
<1> DEFINE q == a \div b
           r == a % b
           t == b * q
<1>1. q \in Nat /\ r \in Nat /\ r < b /\ a = b * q + r
  OBVIOUS
<1>2. t \in Int /\ a = t + r /\ b * (q + 1) = t + b
  BY <1>1
<1>3. \/ money(a, b) = q /\ 2 * r <= b
      \/ money(a, b) = q + 1 /\ 2 * r >= b
  BY <1>1 DEF money
<1> HIDE DEF t, q, r
<1>4. CASE money(a, b) = q /\ 2 * r <= b
  <2>1. b * money(a, b) = t
    BY <1>4 DEF t
  <2> QED
    BY <1>1, <1>2, <1>4, <2>1
<1>5. CASE money(a, b) = q + 1 /\ 2 * r >= b
  <2>1. b * money(a, b) = t + b
    BY <1>2, <1>5
  <2> QED
    BY <1>1, <1>2, <1>5, <2>1
<1> QED
  BY <1>3, <1>4, <1>5

\* More is not rounded to less.
LEMMA MoneyMonotone ==
  ASSUME NEW a \in Nat, NEW c \in Nat, a <= c, NEW b \in Nat \ {0}
  PROVE  money(a, b) <= money(c, b)
<1> DEFINE q == a \div b
           r == a % b
           p == c \div b
           s == c % b
<1>1. q \in Nat /\ r \in Nat /\ r < b /\ a = b * q + r
  OBVIOUS
<1>2. p \in Nat /\ s \in Nat /\ s < b /\ c = b * p + s
  OBVIOUS
<1>3. money(a, b) = IF 2 * r > b \/ (2 * r = b /\ q % 2 = 1) THEN q + 1 ELSE q
  BY DEF money
<1>4. money(c, b) = IF 2 * s > b \/ (2 * s = b /\ p % 2 = 1) THEN p + 1 ELSE p
  BY DEF money
<1>5. q <= p /\ (q = p => r <= s)
  <2> HIDE DEF q, r, p, s
  <2>1. ASSUME p < q
        PROVE  FALSE
    <3>1. b * (p + 1) <= b * q
      BY <1>1, <1>2, <2>1
    <3>2. b * (p + 1) = b * p + b
      BY <1>2
    <3> DEFINE u == b * p
               v == b * q
    <3>3. u \in Int /\ v \in Int
      BY <1>1, <1>2
    <3> HIDE DEF u, v
    <3>4. u + b <= v /\ a = v + r /\ c = u + s
      BY <1>1, <1>2, <3>1, <3>2 DEF u, v
    <3> QED
      BY <1>1, <1>2, <3>3, <3>4
  <2>2. q = p => r <= s
    <3> SUFFICES ASSUME q = p PROVE r <= s
      OBVIOUS
    <3> DEFINE u == b * p
    <3>1. u \in Int /\ a = u + r /\ c = u + s
      BY <1>1, <1>2
    <3> HIDE DEF u
    <3> QED
      BY <1>1, <1>2, <3>1
  <2> QED
    BY <1>1, <1>2, <2>1, <2>2
<1> HIDE DEF q, r, p, s
<1>6. CASE q = p
  BY <1>1, <1>2, <1>3, <1>4, <1>5, <1>6
<1>7. CASE q < p
  <2>1. money(a, b) <= q + 1 /\ p <= money(c, b)
    BY <1>1, <1>2, <1>3, <1>4
  <2> QED
    BY <1>1, <1>2, <1>3, <1>4, <1>7, <2>1
<1> QED
  BY <1>1, <1>2, <1>5, <1>6, <1>7

\* A share of an amount, in the proportion of t to s, is no more than it.
LEMMA MoneyShare ==
  ASSUME NEW a \in Nat, NEW t \in Nat, NEW s \in Nat \ {0}, t <= s
  PROVE  money(a * t, s) \in Nat /\ money(a * t, s) <= a
<1> DEFINE m == money(a * t, s)
           p == a * t
<1>1. p \in Nat /\ p <= a * s
  OBVIOUS
<1>2. m \in Nat /\ 2 * (s * m) <= 2 * p + s
  BY <1>1, MoneyNear
<1> HIDE DEF m, p
<1>3. ASSUME m > a
      PROVE  FALSE
  <2>1. s * (a + 1) <= s * m
    BY <1>2, <1>3
  <2>2. s * (a + 1) = a * s + s
    OBVIOUS
  <2> DEFINE u == a * s
             v == s * m
  <2>3. u \in Int /\ v \in Int
    BY <1>2
  <2>4. u + s <= v /\ 2 * v <= 2 * p + s /\ p <= u
    BY <1>1, <1>2, <2>1, <2>2
  <2> HIDE DEF u, v
  <2> QED
    BY <1>1, <2>3, <2>4
<1> QED
  BY <1>2, <1>3 DEF m, p

\* The sum of rounded shares is within half a unit a share of the exact sum.
LEMMA RoundedSums ==
  ASSUME NEW S, IsFiniteSet(S), NEW a \in Nat, NEW b \in Nat \ {0}, NEW f, NEW g,
         \A k \in S : f[k] \in Nat /\ g[k] = money(a * f[k], b)
  PROVE  LET x == b * SumFunctionOnSet(g, S)
             y == a * SumFunctionOnSet(f, S)
             z == b * Cardinality(S)
         IN 2 * x <= 2 * y + z /\ 2 * y - z <= 2 * x
<1> DEFINE X(s) == b * SumFunctionOnSet(g, s)
           Y(s) == a * SumFunctionOnSet(f, s)
           Z(s) == b * Cardinality(s)
           Near(s) == 2 * X(s) <= 2 * Y(s) + Z(s) /\ 2 * Y(s) - Z(s) <= 2 * X(s)
           B == {s \in SUBSET S : ~ Near(s)}
<1>1. SUFFICES ASSUME B # {} PROVE FALSE
  OBVIOUS
<1>2. PICK s \in B : \A t \in B : t \subseteq s => t = s
  <2>1. B \in SUBSET SUBSET S
    OBVIOUS
  <2> HIDE DEF B
  <2> QED
    BY <1>1, <2>1, SmallestSubset
<1>3. s \in SUBSET S /\ ~ Near(s) /\ \A t \in SUBSET s : t # s => Near(t)
  <2> HIDE DEF Near
  <2> QED
    BY <1>2
<1> HIDE DEF B
<1>4. IsFiniteSet(s)
  BY <1>3, FS_Subset
<1>5. s # {}
  <2>1. SumFunctionOnSet(g, {}) = 0 /\ SumFunctionOnSet(f, {}) = 0 /\ Cardinality({}) = 0
    BY SumEmpty, FS_EmptySet
  <2>2. X({}) = 0 /\ Y({}) = 0 /\ Z({}) = 0
    BY <2>1
  <2>3. Near({})
    <3> HIDE DEF X, Y, Z
    <3> QED
      BY <2>2
  <2> HIDE DEF Near
  <2> QED
    BY <1>3, <2>3
<1>6. PICK k \in s : TRUE
  BY <1>5
<1> DEFINE t == s \ {k}
           m == money(a * f[k], b)
<1>7. f[k] \in Nat /\ g[k] = m /\ a * f[k] \in Nat
  BY <1>3
<1>8. m \in Nat /\ 2 * (b * m) <= 2 * (a * f[k]) + b /\ 2 * (a * f[k]) - b <= 2 * (b * m)
  BY <1>7, MoneyNear
<1>9. \A j \in S : f[j] \in Int /\ g[j] \in Int
  <2>1. ASSUME NEW j \in S
        PROVE  g[j] \in Int
    <3> DEFINE p == a * f[j]
    <3>1. p \in Nat /\ g[j] = money(p, b)
      OBVIOUS
    <3> HIDE DEF p
    <3>2. money(p, b) \in Nat
      BY <3>1, MoneyNear
    <3> QED
      BY <3>1, <3>2
  <2> QED
    BY <2>1
<1>10. IsFiniteSet(t) /\ Cardinality(t) \in Nat /\ Cardinality(s) = Cardinality(t) + 1
  <2>1. IsFiniteSet(t) /\ Cardinality(t) = Cardinality(s) - 1
    BY <1>4, FS_RemoveElement
  <2>2. Cardinality(s) \in Nat /\ Cardinality(t) \in Nat
    BY <1>4, <2>1, FS_CardinalityType
  <2> QED
    BY <2>1, <2>2
<1>11. /\ SumFunctionOnSet(g, s) = g[k] + SumFunctionOnSet(g, t)
       /\ SumFunctionOnSet(f, s) = f[k] + SumFunctionOnSet(f, t)
  BY <1>3, <1>4, <1>9, SumTakeOut
<1>12. SumFunctionOnSet(g, t) \in Int /\ SumFunctionOnSet(f, t) \in Int
  BY <1>3, <1>9, <1>10, SumInt
<1>13. Near(t)
  BY <1>3
<1>14. X(s) = b * m + X(t) /\ Y(s) = a * f[k] + Y(t) /\ Z(s) = b + Z(t)
  <2> HIDE DEF m, t
  <2>1. X(s) = b * m + X(t)
    BY <1>7, <1>8, <1>11, <1>12
  <2>2. Y(s) = a * f[k] + Y(t)
    BY <1>7, <1>11, <1>12
  <2>3. Z(s) = b + Z(t)
    BY <1>10
  <2> QED
    BY <2>1, <2>2, <2>3
<1>15. X(t) \in Int /\ Y(t) \in Int /\ Z(t) \in Int
  BY <1>10, <1>12
<1> DEFINE x == X(t)
           y == Y(t)
           z == Z(t)
           u == b * m
           v == a * f[k]
<1>16. 2 * x <= 2 * y + z /\ 2 * y - z <= 2 * x /\ u \in Int /\ v \in Int
  BY <1>7, <1>8, <1>13
<1>17. x \in Int /\ y \in Int /\ z \in Int
  BY <1>15
<1>18. X(s) = u + x /\ Y(s) = v + y /\ Z(s) = b + z
  BY <1>14
<1>19. 2 * u <= 2 * v + b /\ 2 * v - b <= 2 * u
  BY <1>8
<1> HIDE DEF x, y, z, u, v, t
<1>20. 2 * (u + x) <= 2 * (v + y) + (b + z) /\ 2 * (v + y) - (b + z) <= 2 * (u + x)
  BY <1>16, <1>17, <1>19
<1> QED
  BY <1>3, <1>18, <1>20

\* A discount is at most what is asked for and at most the subtotal.
LEMMA DiscountBounds ==
  ASSUME NEW sub \in Nat, NEW amount \in Nat, NEW percent \in Nat
  PROVE  /\ DiscountOf(sub, amount, percent) \in Nat
         /\ DiscountOf(sub, amount, percent) <= sub
         /\ percent = 0 => DiscountOf(sub, amount, percent) <= amount
         /\ percent > 0 =>
              2 * Hundred * DiscountOf(sub, amount, percent) <= 2 * (sub * percent) + Hundred
<1> DEFINE m == money(sub * percent, Hundred)
<1>1. sub * percent \in Nat /\ Hundred \in Nat \ {0}
  BY DEF Hundred
<1>2. m \in Nat /\ 2 * (Hundred * m) <= 2 * (sub * percent) + Hundred
  BY <1>1, MoneyNear
<1>3. DiscountOf(sub, amount, percent) =
        IF percent > 0 THEN (IF m > sub THEN sub ELSE m)
        ELSE (IF amount > sub THEN sub ELSE amount)
  BY DEF DiscountOf
<1> DEFINE x == DiscountOf(sub, amount, percent)
           p == sub * percent
<1> HIDE DEF m, x, p
<1>4. x = IF percent > 0 THEN (IF m > sub THEN sub ELSE m)
          ELSE (IF amount > sub THEN sub ELSE amount)
  BY <1>3 DEF x
<1>5. 2 * (Hundred * m) <= 2 * p + Hundred /\ p \in Nat
  BY <1>1, <1>2 DEF p
<1>6. x \in Nat /\ x <= sub /\ (percent = 0 => x <= amount)
  BY <1>2, <1>4
<1>7. percent > 0 => 2 * Hundred * x <= 2 * p + Hundred
  BY <1>2, <1>4, <1>5, <1>6 DEF Hundred
<1> QED
  BY <1>6, <1>7 DEF x, p

\* What the cap of the policy lets through on an order that costs something.
LEMMA AllowedWithinCap ==
  ASSUME NEW sub \in Nat \ {0}, NEW amount \in Nat, NEW percent \in Nat, NEW max \in Nat,
         effective_discount_percent(sub, amount, percent) <= max
  PROVE  /\ percent <= max
         /\ 2 * Hundred * DiscountOf(sub, amount, percent) <= (2 * max + 1) * sub + Hundred
<1> DEFINE x == DiscountOf(sub, amount, percent)
           n == sub * max
<1>1. /\ x \in Nat /\ x <= sub
      /\ percent = 0 => x <= amount
      /\ percent > 0 => 2 * Hundred * x <= 2 * (sub * percent) + Hundred
  BY DiscountBounds
<1>2. n \in Nat /\ (2 * max + 1) * sub = 2 * n + sub
  OBVIOUS
<1>3. CASE percent > 0
  <2>1. percent <= max
    BY <1>3 DEF effective_discount_percent
  <2>2. sub * percent <= sub * max
    BY <2>1
  <2> DEFINE p == sub * percent
  <2>3. p \in Nat /\ p <= n
    BY <2>2
  <2>4. 2 * Hundred * x <= 2 * p + Hundred
    BY <1>1, <1>3
  <2> HIDE DEF p, n, x
  <2>5. 2 * Hundred * x <= 2 * n + sub + Hundred
    BY <1>1, <1>2, <2>3, <2>4 DEF Hundred
  <2> QED
    BY <1>2, <2>1, <2>5 DEF x
<1>4. CASE percent = 0 /\ amount > 0
  <2> DEFINE a == amount * Hundred
             m == money(a, sub)
  <2>1. m <= max
    BY <1>4 DEF effective_discount_percent
  <2>2. a \in Nat /\ a = Hundred * amount
    BY DEF Hundred
  <2>3. m \in Nat /\ 2 * a - sub <= 2 * (sub * m)
    <3> HIDE DEF a
    <3> QED
      BY <2>2, MoneyNear
  <2> HIDE DEF m
  <2>4. sub * m <= n /\ sub * m \in Nat
    BY <2>1, <2>3
  <2> HIDE DEF a, n
  <2>5. 2 * a <= 2 * n + sub
    BY <1>2, <2>2, <2>3, <2>4
  <2>6. x <= amount /\ x \in Nat
    BY <1>1, <1>4
  <2> HIDE DEF x
  <2>7. 2 * Hundred * x <= 2 * n + sub + Hundred
    BY <1>2, <2>2, <2>5, <2>6 DEF Hundred
  <2> QED
    BY <1>2, <1>4, <2>7 DEF x
<1>5. CASE percent = 0 /\ amount = 0
  <2>1. x = 0
    BY <1>1, <1>5
  <2> HIDE DEF n
  <2>2. 2 * Hundred * x <= 2 * n + sub + Hundred
    BY <1>2, <2>1 DEF Hundred
  <2> QED
    BY <1>2, <1>5, <2>2
<1> QED
  BY <1>3, <1>4, <1>5
-----------------------------------------------------------------------------
(* Tax rules *)

\* A rule with another value in a column.
LEMMA EditedRule ==
  ASSUME NEW row, IsRule(row), NEW c \in DOMAIN RuleColumn, NEW v \in RuleColumn[c]
  PROVE  LET new == [row EXCEPT ![c] = v]
         IN /\ IsRule(new) /\ new[c] = v
            /\ \A b \in DOMAIN RuleColumn \ {c} : new[b] = row[b]
BY DEF IsRule, OfRule

\* A rule that is switched on or off.
LEMMA SwitchedRule ==
  ASSUME NEW row, IsRule(row), NEW yes \in BOOLEAN
  PROVE  LET new == [row EXCEPT !.active = yes]
         IN IsRule(new) /\ new.active = yes /\ new.scheme = row.scheme
<1>1. /\ "active" \in DOMAIN RuleColumn /\ yes \in RuleColumn["active"]
      /\ "scheme" \in DOMAIN RuleColumn
  BY DEF RuleColumn
<1> QED
  BY <1>1, EditedRule

\* Columns put together.
LEMMA JoinedColumns ==
  ASSUME NEW new, NEW row, OfRule(new), OfRule(row)
  PROVE  OfRule(new ++ row) /\ DOMAIN (new ++ row) = DOMAIN new \cup DOMAIN row
BY DEF OfRule, ++

\* The rate of a rule and its parts.
LEMMA FilledRates ==
  ASSUME NEW scheme, NEW slab, NEW rate \in Nat
  PROVE  LET filled == fill_rates(scheme, slab, rate)
         IN OfRule(filled) /\ DOMAIN filled = {"rate", "cgst", "sgst", "igst"}
<1> DEFINE r == IF scheme = "gst" /\ slab \in DOMAIN SlabRate THEN SlabRate[slab] ELSE rate
           half == money(r, 2)
           split == fill_gst_split(scheme, slab, r)
<1>1. r \in Nat
  BY DEF SlabRate
<1> HIDE DEF r
<1>2. half \in Nat /\ r - half \in Nat
  <2>1. half \in Nat /\ 2 * (2 * half) <= 2 * r + 2
    BY <1>1, MoneyNear
  <2> HIDE DEF half
  <2> QED
    BY <1>1, <2>1
<1> HIDE DEF half
<1>3. OfRule(split) /\ DOMAIN split = {"cgst", "sgst", "igst"}
  <2>1. \/ split = [cgst |-> 0, sgst |-> 0, igst |-> 0]
        \/ split = [cgst |-> 0, sgst |-> 0, igst |-> r]
        \/ split = [cgst |-> half, sgst |-> r - half, igst |-> 0]
    BY DEF fill_gst_split, half
  <2>2. \E a, b, c \in Nat : split = [cgst |-> a, sgst |-> b, igst |-> c]
    BY <1>1, <1>2, <2>1
  <2> QED
    BY <2>2 DEF OfRule, RuleColumn
<1>4. OfRule([rate |-> r])
  BY <1>1 DEF OfRule, RuleColumn
<1>5. fill_rates(scheme, slab, rate) = [rate |-> r] ++ split
  BY DEF fill_rates, r
<1> HIDE DEF split
<1> QED
  BY <1>3, <1>4, <1>5, JoinedColumns

\* A row added at either end or in the middle, and a row taken out.
LEMMA AppendedRules ==
  ASSUME NEW rules, Ruled(rules), NEW row, IsRule(row),
         OneGst(rules) => \A k \in DOMAIN rules : Gst(rules, k) =>
                            ~ (row.scheme = "gst" /\ row.active)
  PROVE  LET new == Append(rules, row)
         IN Ruled(new) /\ (OneGst(rules) => OneGst(new))
<1> DEFINE S == Range(rules) \cup {row}
           new == Append(rules, row)
           n == Len(rules)
<1>1. rules \in Seq(S) /\ row \in S
  BY DEF Ruled
<1> HIDE DEF S
<1>2. /\ n \in Nat /\ DOMAIN rules = 1 .. n
      /\ new \in Seq(S) /\ Len(new) = n + 1 /\ DOMAIN new = 1 .. n + 1
      /\ \A k \in 1 .. n : new[k] = rules[k]
      /\ new[n + 1] = row
  BY <1>1
<1> HIDE DEF new, n
<1>3. new \in Seq(Range(new))
  BY <1>2 DEF Range
<1>4. \A k \in DOMAIN new : IsRule(new[k])
  BY <1>2 DEF Ruled
<1>5. OneGst(rules) => OneGst(new)
  BY <1>2 DEF OneGst, Gst
<1> QED
  BY <1>3, <1>4, <1>5 DEF Ruled, new

\* A row put in between, unless it is an active GST rule.
LEMMA InsertedRules ==
  ASSUME NEW rules, Ruled(rules), NEW row, IsRule(row),
         row.active = FALSE
  PROVE  LET new == Inserted(rules, row)
         IN Ruled(new) /\ (OneGst(rules) => OneGst(new))
<1> DEFINE S == Range(rules) \cup {row}
           n == Len(rules)
           B == {k \in DOMAIN rules : rules[k].sort <= row.sort}
           p == Cardinality(B) + 1
           new == InsertAt(rules, p, row)
<1>1. rules \in Seq(S) /\ row \in S
  BY DEF Ruled
<1> HIDE DEF S
<1>2. n \in Nat /\ DOMAIN rules = 1 .. n
  BY <1>1
<1>3. p \in 1 .. n + 1
  <2>1. B \subseteq 1 .. n
    BY <1>2
  <2> HIDE DEF B, n
  <2>2. IsFiniteSet(1 .. n) /\ Cardinality(1 .. n) = n
    BY <1>2, FS_Interval
  <2>3. Cardinality(B) \in Nat /\ Cardinality(B) <= n
    BY <2>1, <2>2, FS_Subset, FS_CardinalityType
  <2> QED
    BY <1>2, <2>3
<1> HIDE DEF p
<1> DEFINE L == SubSeq(rules, 1, p - 1)
           R == SubSeq(rules, p, n)
<1>4. /\ L \in Seq(S) /\ Len(L) = p - 1 /\ \A k \in 1 .. p - 1 : L[k] = rules[k]
      /\ R \in Seq(S) /\ Len(R) = n - p + 1 /\ \A k \in 1 .. n - p + 1 : R[k] = rules[p + k - 1]
  BY <1>1, <1>2, <1>3
<1>5. new = L \o <<row>> \o R
  BY DEF InsertAt
<1> HIDE DEF L, R, new, n
<1>6. /\ new \in Seq(S) /\ DOMAIN new = 1 .. n + 1
      /\ \A k \in 1 .. p - 1 : new[k] = rules[k]
      /\ new[p] = row
      /\ \A k \in p + 1 .. n + 1 : new[k] = rules[k - 1]
  <2> DEFINE M == L \o <<row>>
  <2>1. M \in Seq(S) /\ Len(M) = p /\ (\A k \in 1 .. p - 1 : M[k] = L[k]) /\ M[p] = row
    BY <1>1, <1>2, <1>3, <1>4
  <2> HIDE DEF M
  <2>2. /\ M \o R \in Seq(S) /\ Len(M \o R) = n + 1
        /\ \A k \in 1 .. p : (M \o R)[k] = M[k]
        /\ \A k \in p + 1 .. n + 1 : (M \o R)[k] = R[k - p]
    <3>1. /\ M \o R \in Seq(S) /\ Len(M \o R) = p + Len(R)
          /\ \A k \in 1 .. p + Len(R) : (M \o R)[k] = IF k <= p THEN M[k] ELSE R[k - p]
      BY <1>4, <2>1, ConcatProperties
    <3> QED
      BY <1>2, <1>3, <1>4, <3>1
  <2>3. \A k \in p + 1 .. n + 1 : R[k - p] = rules[k - 1]
    BY <1>2, <1>3, <1>4
  <2> QED
    BY <1>2, <1>3, <1>4, <1>5, <2>1, <2>2, <2>3 DEF M
<1>7. \A k \in DOMAIN new : new[k] = row \/ \E j \in DOMAIN rules :
        new[k] = rules[j] /\ j = IF k < p THEN k ELSE k - 1
  BY <1>2, <1>3, <1>6
<1>8. new \in Seq(Range(new))
  BY <1>6, SeqOfRange
<1>9. \A k \in DOMAIN new : IsRule(new[k])
  BY <1>7 DEF Ruled
<1>10. OneGst(rules) => OneGst(new)
  <2> SUFFICES ASSUME OneGst(rules), NEW j \in DOMAIN new, NEW k \in DOMAIN new,
                      Gst(new, j), Gst(new, k)
               PROVE  j = k
    BY DEF OneGst
  <2>1. j # p /\ k # p
    BY <1>6 DEF Gst
  <2>2. \A i \in DOMAIN new : i # p =>
          LET b == IF i < p THEN i ELSE i - 1 IN b \in DOMAIN rules /\ new[i] = rules[b]
    BY <1>2, <1>3, <1>6
  <2> QED
    BY <1>2, <1>3, <1>6, <2>1, <2>2 DEF OneGst, Gst
<1> QED
  BY <1>8, <1>9, <1>10 DEF Ruled, Inserted, new, p

\* A rule that is deleted leaves the others.
LEMMA RemovedRules ==
  ASSUME NEW rules, Ruled(rules), NEW p \in DOMAIN rules
  PROVE  LET new == RemoveAt(rules, p)
         IN Ruled(new) /\ (OneGst(rules) => OneGst(new))
<1> DEFINE S == Range(rules)
           n == Len(rules)
           new == RemoveAt(rules, p)
           L == SubSeq(rules, 1, p - 1)
           R == SubSeq(rules, p + 1, n)
<1>1. rules \in Seq(S)
  BY DEF Ruled
<1> HIDE DEF S
<1>2. n \in Nat /\ DOMAIN rules = 1 .. n /\ p \in 1 .. n
  BY <1>1
<1>4. /\ L \in Seq(S) /\ Len(L) = p - 1 /\ \A k \in 1 .. p - 1 : L[k] = rules[k]
      /\ R \in Seq(S) /\ Len(R) = n - p /\ \A k \in 1 .. n - p : R[k] = rules[p + k]
  BY <1>1, <1>2
<1>5. new = L \o R
  BY DEF RemoveAt
<1> HIDE DEF L, R, new, n
<1>6. /\ new \in Seq(S) /\ DOMAIN new = 1 .. n - 1
      /\ \A k \in 1 .. p - 1 : new[k] = rules[k]
      /\ \A k \in p .. n - 1 : new[k] = rules[k + 1]
  <2>1. /\ L \o R \in Seq(S) /\ Len(L \o R) = n - 1
        /\ \A k \in 1 .. p - 1 : (L \o R)[k] = L[k]
        /\ \A k \in p .. n - 1 : (L \o R)[k] = R[k - (p - 1)]
    <3>1. /\ L \o R \in Seq(S) /\ Len(L \o R) = Len(L) + Len(R)
          /\ \A k \in 1 .. Len(L) + Len(R) :
               (L \o R)[k] = IF k <= Len(L) THEN L[k] ELSE R[k - Len(L)]
      BY <1>4, ConcatProperties
    <3> QED
      BY <1>2, <1>4, <3>1
  <2>2. ASSUME NEW k \in p .. n - 1
        PROVE  R[k - (p - 1)] = rules[k + 1]
    <3>1. k - (p - 1) \in 1 .. n - p /\ p + (k - (p - 1)) = k + 1
      BY <1>2
    <3> QED
      BY <1>4, <3>1
  <2>3. /\ new \in Seq(S) /\ Len(new) = n - 1
        /\ \A k \in 1 .. p - 1 : new[k] = L[k]
        /\ \A k \in p .. n - 1 : new[k] = R[k - (p - 1)]
    BY <1>5, <2>1
  <2>4. DOMAIN new = 1 .. n - 1
    BY <2>3
  <2> QED
    BY <1>4, <2>2, <2>3, <2>4
<1>7. \A i \in DOMAIN new :
        LET b == IF i < p THEN i ELSE i + 1 IN b \in DOMAIN rules /\ new[i] = rules[b]
  BY <1>2, <1>6
<1>8. new \in Seq(Range(new))
  BY <1>6, SeqOfRange
<1>9. \A k \in DOMAIN new : IsRule(new[k])
  BY <1>7 DEF Ruled
<1>10. OneGst(rules) => OneGst(new)
  BY <1>2, <1>6, <1>7 DEF OneGst, Gst
<1> QED
  BY <1>8, <1>9, <1>10 DEF Ruled, new

\* A GST rule that is switched on switches the others off.
LEMMA OthersSwitchedOff ==
  ASSUME NEW rules, Ruled(rules), NEW row
  PROVE  LET others == deactivate_other_gst(rules, row)
         IN /\ Ruled(others) /\ DOMAIN others = DOMAIN rules
            /\ \A k \in DOMAIN rules : Gst(others, k) =>
                 Gst(rules, k) /\ ~ (row.scheme = "gst" /\ row.active)
<1> DEFINE others == deactivate_other_gst(rules, row)
           off == [k \in DOMAIN rules |-> IF rules[k].scheme = "gst"
                                          THEN [rules[k] EXCEPT !.active = FALSE] ELSE rules[k]]
<1>1. others = IF row.scheme = "gst" /\ row.active THEN off ELSE rules
  BY DEF deactivate_other_gst
<1>2. DOMAIN rules = 1 .. Len(rules) /\ Len(rules) \in Nat
  BY DEF Ruled
<1>3. off \in Seq(Range(off)) /\ DOMAIN off = DOMAIN rules
  <2>1. DOMAIN off = 1 .. Len(rules)
    BY <1>2
  <2> HIDE DEF off
  <2>2. off = [k \in 1 .. Len(rules) |-> off[k]]
    BY <2>1 DEF off
  <2> QED
    BY <1>2, <2>1, <2>2 DEF Range
<1>4. \A k \in DOMAIN rules : IsRule(off[k]) /\ ~ Gst(off, k)
  <2> TAKE k \in DOMAIN rules
  <2> DEFINE idle == [rules[k] EXCEPT !.active = FALSE]
  <2>1. off[k] = IF rules[k].scheme = "gst" THEN idle ELSE rules[k]
    OBVIOUS
  <2>2. IsRule(rules[k])
    BY DEF Ruled
  <2>3. IsRule(idle) /\ idle.active = FALSE
    BY <2>2, SwitchedRule
  <2> HIDE DEF off, idle
  <2> QED
    BY <2>1, <2>2, <2>3 DEF Gst
<1> HIDE DEF off, others
<1> QED
  BY <1>1, <1>3, <1>4 DEF Ruled, others

\* A rule with some of its columns changed.
LEMMA ChangedRule ==
  ASSUME NEW row, IsRule(row), NEW data, OfRule(data)
  PROVE  IsRule(Updated(row, data)) /\ DishesAfter(row, data) \in SUBSET TaxedDish
<1> DEFINE joined == data ++ row
           filled == fill_rates(joined.scheme, joined.slab, joined.rate)
           rate == [rate |-> filled.rate]
           some == rate ++ data
           more == some ++ filled
<1>1. /\ OfRule(row) /\ DOMAIN row = DOMAIN RuleColumn
      /\ DOMAIN data \subseteq DOMAIN RuleColumn
  BY DEF IsRule, OfRule
<1>2. IsRule(joined)
  BY <1>1, JoinedColumns DEF IsRule
<1> HIDE DEF joined
<1>3. joined.rate \in Nat /\ joined.dishes \in SUBSET TaxedDish
  BY <1>2 DEF IsRule, OfRule, RuleColumn
<1>4. OfRule(filled) /\ DOMAIN filled = {"rate", "cgst", "sgst", "igst"}
  BY <1>3, FilledRates
<1> HIDE DEF filled
<1>5. OfRule(rate)
  BY <1>4 DEF OfRule, RuleColumn
<1> HIDE DEF rate
<1>6. OfRule(some)
  BY <1>5, JoinedColumns
<1> HIDE DEF some
<1>7. OfRule(more)
  BY <1>4, <1>6, JoinedColumns
<1> HIDE DEF more
<1>8. IsRule(more ++ row)
  <2>1. OfRule(more ++ row) /\ DOMAIN (more ++ row) = DOMAIN more \cup DOMAIN row
    BY <1>1, <1>7, JoinedColumns
  <2>2. DOMAIN more \subseteq DOMAIN RuleColumn
    BY <1>7 DEF OfRule
  <2> QED
    BY <1>1, <2>1, <2>2 DEF IsRule
<1>9. IsRule(Updated(row, data))
  BY <1>2, <1>8 DEF Updated, joined, filled, rate, some, more
<1>10. DishesAfter(row, data) \in SUBSET TaxedDish
  BY <1>3 DEF DishesAfter, joined
<1> QED
  BY <1>9, <1>10

\* What the requests about rules make of them.
LEMMA RequestedRules ==
  ASSUME NEW d, DOMAIN d = OutletColumns, Ruled(d.rules)
  PROVE  /\ LET new == ensure_gst_catalog(d).rules
            IN Ruled(new) /\ (OneGst(d.rules) => OneGst(new))
         /\ \A asks : OfRule(asks) /\ DOMAIN asks = AskedColumns =>
              LET new == create(d, asks).rules
              IN Ruled(new) /\ (OneGst(d.rules) => OneGst(new))
         /\ \A k \in DOMAIN d.rules : \A data : OfRule(data) =>
              LET new == update(d, k, data).rules
              IN Ruled(new) /\ (OneGst(d.rules) => OneGst(new))
         /\ \A k \in DOMAIN d.rules : LET new == delete(d, k).rules
                                      IN Ruled(new) /\ (OneGst(d.rules) => OneGst(new))
         /\ \A yes \in BOOLEAN : LET new == set_enabled(d, yes).rules
                                 IN Ruled(new) /\ (~ yes => OneGst(new))
<1> DEFINE rules == d.rules
<1>0. "rules" \in DOMAIN d
  BY DEF OutletColumns
<1>1. LET new == ensure_gst_catalog(d).rules
      IN Ruled(new) /\ (OneGst(rules) => OneGst(new))
  <2> DEFINE has == {rules[k].slab : k \in {i \in DOMAIN rules : rules[i].scheme = "gst"}}
             row(k) == [scheme |-> "gst", slab |-> GstCatalog[k].slab, method |-> "forward",
                        types |-> OrderType, active |-> FALSE, dishes |-> {}, sort |-> k - 1]
                       ++ fill_rates("gst", GstCatalog[k].slab, GstCatalog[k].rate)
             add(s, k) == IF GstCatalog[k].slab \in has THEN s ELSE Inserted(s, row(k))
             one == add(rules, 1)
             two == add(one, 2)
             three == add(two, 3)
             four == add(three, 4)
  <2>1. ensure_gst_catalog(d).rules = four
    BY <1>0 DEF ensure_gst_catalog
  <2>2. \A k \in 1 .. 4 : IsRule(row(k)) /\ row(k).active = FALSE
    <3> TAKE k \in 1 .. 4
    <3> DEFINE slab == GstCatalog[k].slab
               filled == fill_rates("gst", slab, GstCatalog[k].rate)
               new == [scheme |-> "gst", slab |-> slab, method |-> "forward",
                       types |-> OrderType, active |-> FALSE, dishes |-> {}, sort |-> k - 1]
    <3>1. slab \in GstSlab /\ GstCatalog[k].rate \in Nat /\ k - 1 \in Nat
      BY DEF GstCatalog, GstSlab
    <3>2. OfRule(filled) /\ DOMAIN filled = {"rate", "cgst", "sgst", "igst"}
      BY <3>1, FilledRates
    <3> HIDE DEF slab, filled
    <3>3. OfRule(new)
      <4>1. \A c \in DOMAIN new : c \in DOMAIN RuleColumn
        BY DEF RuleColumn
      <4>2. /\ new.scheme \in RuleColumn.scheme /\ new.slab \in RuleColumn.slab
            /\ new.method \in RuleColumn.method /\ new.types \in RuleColumn.types
            /\ new.active \in RuleColumn.active /\ new.dishes \in RuleColumn.dishes
            /\ new.sort \in RuleColumn.sort
        BY <3>1 DEF RuleColumn, Method
      <4>3. DOMAIN new = {"scheme", "slab", "method", "types", "active", "dishes", "sort"}
        OBVIOUS
      <4> HIDE DEF new
      <4> QED
        BY <4>1, <4>2, <4>3 DEF OfRule
    <3>4. DOMAIN new = {"scheme", "slab", "method", "types", "active", "dishes", "sort"}
          /\ new.active = FALSE
      OBVIOUS
    <3> HIDE DEF new
    <3>5. OfRule(new ++ filled) /\ DOMAIN (new ++ filled) = DOMAIN RuleColumn
      <4>1. OfRule(new ++ filled) /\ DOMAIN (new ++ filled) = DOMAIN new \cup DOMAIN filled
        BY <3>2, <3>3, JoinedColumns
      <4> QED
        BY <3>2, <3>4, <4>1 DEF RuleColumn
    <3>6. (new ++ filled).active = FALSE
      BY <3>4 DEF ++
    <3>7. row(k) = new ++ filled
      BY DEF new, filled, slab
    <3> HIDE DEF row
    <3> QED
      BY <3>5, <3>6, <3>7 DEF IsRule
  <2> HIDE DEF row
  <2>3. ASSUME NEW s, NEW k \in 1 .. 4, Ruled(s)
        PROVE  Ruled(add(s, k)) /\ (OneGst(s) => OneGst(add(s, k)))
    BY <2>2, <2>3, InsertedRules
  <2> HIDE DEF add
  <2>4. Ruled(one) /\ (OneGst(rules) => OneGst(one))
    BY <2>3
  <2>5. Ruled(two) /\ (OneGst(one) => OneGst(two))
    BY <2>3, <2>4
  <2>6. Ruled(three) /\ (OneGst(two) => OneGst(three))
    BY <2>3, <2>5
  <2>7. Ruled(four) /\ (OneGst(three) => OneGst(four))
    BY <2>3, <2>6
  <2> QED
    BY <2>1, <2>4, <2>5, <2>6, <2>7
<1>2. ASSUME NEW asks, OfRule(asks), DOMAIN asks = AskedColumns
      PROVE  LET new == create(d, asks).rules
             IN Ruled(new) /\ (OneGst(rules) => OneGst(new))
  <2> DEFINE row == fill_rates(asks.scheme, asks.slab, asks.rate)
             ++ [scheme |-> asks.scheme, slab |-> IF asks.scheme = "gst" THEN asks.slab ELSE "none",
                 method |-> asks.method, types |-> asks.types, active |-> asks.active,
                 dishes |-> IF asks.scheme = "gst" THEN {} ELSE asks.dishes,
                 sort |-> next_sort(rules)]
             others == deactivate_other_gst(rules, row)
  <2>1. create(d, asks).rules = Append(others, row)
    BY <1>0 DEF create
  <2>2. IsRule(row)
    <3> DEFINE filled == fill_rates(asks.scheme, asks.slab, asks.rate)
               slab == IF asks.scheme = "gst" THEN asks.slab ELSE "none"
               dishes == IF asks.scheme = "gst" THEN {} ELSE asks.dishes
               sort == next_sort(rules)
               rest == [scheme |-> asks.scheme, slab |-> slab, method |-> asks.method,
                        types |-> asks.types, active |-> asks.active, dishes |-> dishes,
                        sort |-> sort]
    <3>1. /\ asks.rate \in Nat /\ asks.scheme \in RuleColumn.scheme
          /\ asks.slab \in RuleColumn.slab /\ asks.method \in Method
          /\ asks.types \in SUBSET OrderType /\ asks.active \in BOOLEAN
          /\ asks.dishes \in SUBSET TaxedDish
      BY <1>2 DEF OfRule, AskedColumns, RuleColumn
    <3>2. OfRule(filled) /\ DOMAIN filled = {"rate", "cgst", "sgst", "igst"}
      BY <3>1, FilledRates
    <3>3. slab \in RuleColumn.slab /\ dishes \in SUBSET TaxedDish
      BY <3>1 DEF RuleColumn
    <3>4. sort \in Nat
      <4>1. \A k \in DOMAIN rules : rules[k].sort \in Nat
        BY DEF Ruled, IsRule, OfRule, RuleColumn
      <4>2. rules # << >> => Len(rules) \in DOMAIN rules
        BY DEF Ruled
      <4> QED
        BY <4>1, <4>2 DEF next_sort
    <3> HIDE DEF filled, slab, dishes, sort
    <3>5. OfRule(rest)
      BY <3>1, <3>3, <3>4 DEF OfRule, RuleColumn
    <3>6. DOMAIN rest = {"scheme", "slab", "method", "types", "active", "dishes", "sort"}
      OBVIOUS
    <3> HIDE DEF rest
    <3>7. OfRule(filled ++ rest) /\ DOMAIN (filled ++ rest) = DOMAIN RuleColumn
      <4>1. OfRule(filled ++ rest) /\ DOMAIN (filled ++ rest) = DOMAIN filled \cup DOMAIN rest
        BY <3>2, <3>5, JoinedColumns
      <4> QED
        BY <3>2, <3>6, <4>1 DEF RuleColumn
    <3> QED
      BY <3>7 DEF IsRule, filled, slab, dishes, sort, rest
  <2> HIDE DEF row
  <2>3. /\ Ruled(others) /\ DOMAIN others = DOMAIN rules
        /\ \A k \in DOMAIN rules : Gst(others, k) =>
             Gst(rules, k) /\ ~ (row.scheme = "gst" /\ row.active)
    BY OthersSwitchedOff
  <2> HIDE DEF others
  <2>4. Ruled(Append(others, row)) /\ (OneGst(others) => OneGst(Append(others, row)))
    BY <2>2, <2>3, AppendedRules
  <2>5. OneGst(rules) => OneGst(others)
    BY <2>3 DEF OneGst
  <2> QED
    BY <2>1, <2>4, <2>5
<1>3. ASSUME NEW k \in DOMAIN rules, NEW data, OfRule(data)
      PROVE  LET new == update(d, k, data).rules
             IN Ruled(new) /\ (OneGst(rules) => OneGst(new))
  <2> DEFINE was == Updated(rules[k], data)
             row == [was EXCEPT !.dishes = DishesAfter(rules[k], data)]
             others == deactivate_other_gst(rules, row)
             new == [others EXCEPT ![k] = row]
  <2>1. update(d, k, data).rules = new
    BY <1>0 DEF update
  <2>2. IsRule(row)
    <3> DEFINE old == rules[k]
    <3>1. IsRule(old)
      BY DEF Ruled
    <3>2. IsRule(was) /\ DishesAfter(old, data) \in SUBSET TaxedDish
      <4> HIDE DEF was, row, others, new, old
      <4> QED
        BY <1>3, <3>1, ChangedRule DEF was, old
    <3>3. "dishes" \in DOMAIN RuleColumn /\ RuleColumn["dishes"] = SUBSET TaxedDish
      BY DEF RuleColumn
    <3> HIDE DEF was, old
    <3>4. IsRule([was EXCEPT !.dishes = DishesAfter(old, data)])
      BY <3>2, <3>3, EditedRule
    <3> QED
      BY <3>4 DEF old
  <2> HIDE DEF row
  <2>3. /\ Ruled(others) /\ DOMAIN others = DOMAIN rules
        /\ \A j \in DOMAIN rules : Gst(others, j) =>
             Gst(rules, j) /\ ~ (row.scheme = "gst" /\ row.active)
    BY OthersSwitchedOff
  <2> HIDE DEF others
  <2>4. /\ DOMAIN new = DOMAIN rules /\ new[k] = row
        /\ \A j \in DOMAIN rules : j # k => new[j] = others[j]
    BY <2>3
  <2>5. new \in Seq(Range(others) \cup {row})
    <3>1. others \in Seq(Range(others) \cup {row})
      BY <2>3 DEF Ruled
    <3> QED
      BY <2>3, <3>1
  <2> HIDE DEF new
  <2>6. new \in Seq(Range(new))
    BY <2>5, SeqOfRange
  <2>7. \A j \in DOMAIN new : IsRule(new[j])
    BY <2>2, <2>3, <2>4 DEF Ruled
  <2>8. OneGst(rules) => OneGst(new)
    BY <2>3, <2>4 DEF OneGst, Gst
  <2> QED
    BY <2>1, <2>6, <2>7, <2>8 DEF Ruled
<1>4. ASSUME NEW k \in DOMAIN rules
      PROVE  LET new == delete(d, k).rules
             IN Ruled(new) /\ (OneGst(rules) => OneGst(new))
  <2>1. delete(d, k).rules = RemoveAt(rules, k)
    BY <1>0 DEF delete
  <2> QED
    BY <2>1, RemovedRules
<1>5. ASSUME NEW yes \in BOOLEAN
      PROVE  LET new == set_enabled(d, yes).rules
             IN Ruled(new) /\ (~ yes => OneGst(new))
  <2> DEFINE new == [k \in DOMAIN rules |-> [rules[k] EXCEPT !.active = yes]]
  <2>1. set_enabled(d, yes).rules = new
    BY <1>0 DEF set_enabled
  <2>2. \A k \in DOMAIN rules : IsRule(new[k]) /\ new[k].active = yes
    BY SwitchedRule DEF Ruled
  <2>3. new \in Seq(Range(new)) /\ DOMAIN new = DOMAIN rules
    <3>1. DOMAIN rules = 1 .. Len(rules) /\ Len(rules) \in Nat
      BY DEF Ruled
    <3>2. DOMAIN new = 1 .. Len(rules)
      BY <3>1
    <3> HIDE DEF new
    <3>3. new = [k \in 1 .. Len(rules) |-> new[k]]
      BY <3>2 DEF new
    <3> QED
      BY <3>1, <3>2, <3>3 DEF Range
  <2> HIDE DEF new
  <2>4. ~ yes => OneGst(new)
    BY <2>2, <2>3 DEF OneGst, Gst
  <2> QED
    BY <2>1, <2>2, <2>3, <2>4 DEF Ruled
<1> QED
  BY <1>1, <1>2, <1>3, <1>4, <1>5
-----------------------------------------------------------------------------
(* The menu *)

\* Sizes that may be saved are saved with one default, whose price is the dish's.
LEMMA NormalizedSizes ==
  ASSUME NEW sizes \in Seq(SizeRow), MayNormalize(sizes), NEW price \in Nat
  PROVE  LET saved == normalize_variations(sizes)
             base == base_price_from_variations(sizes, price)
         IN /\ saved \in Seq(SizeRow) /\ base \in Nat
            /\ saved # << >> => \E k \in DOMAIN saved : Defaults(saved) = {k} /\ base = saved[k].price
<1> DEFINE saved == normalize_variations(sizes)
           base == base_price_from_variations(sizes, price)
           first == [sizes EXCEPT ![1].default = TRUE]
<1>1. CASE sizes = << >>
  BY <1>1 DEF normalize_variations, base_price_from_variations
<1>2. CASE sizes # << >>
  <2>1. Len(sizes) \in Nat /\ 1 \in DOMAIN sizes /\ DOMAIN sizes = 1 .. Len(sizes)
    BY <1>2
  <2>2. saved \in Seq(SizeRow) /\ DOMAIN saved = DOMAIN sizes
          /\ \E k \in DOMAIN saved : Defaults(saved) = {k}
    <3>1. CASE Defaults(sizes) = {}
      <4>1. saved = first
        BY <1>2, <3>1 DEF normalize_variations
      <4>2. [sizes[1] EXCEPT !.default = TRUE] \in SizeRow
        <5>1. sizes[1] \in SizeRow
          BY <2>1
        <5> QED
          BY <5>1 DEF SizeRow
      <4>3. first \in Seq(SizeRow) /\ DOMAIN first = DOMAIN sizes /\ first[1].default
        BY <2>1, <4>2 DEF SizeRow
      <4>4. \A k \in DOMAIN sizes \ {1} : ~ first[k].default
        BY <3>1 DEF Defaults
      <4> HIDE DEF first
      <4>5. Defaults(first) = {1}
        BY <2>1, <4>3, <4>4 DEF Defaults
      <4> QED
        BY <2>1, <4>1, <4>3, <4>5
    <3>2. CASE Defaults(sizes) # {}
      <4>1. saved = sizes
        BY <3>2 DEF normalize_variations
      <4>2. Defaults(sizes) \subseteq 1 .. Len(sizes)
        BY <2>1 DEF Defaults
      <4>3. IsFiniteSet(Defaults(sizes))
        <5>1. IsFiniteSet(1 .. Len(sizes))
          BY <2>1, FS_Interval
        <5> QED
          BY <4>2, <5>1, FS_Subset
      <4>4. Cardinality(Defaults(sizes)) \in Nat /\ Cardinality(Defaults(sizes)) # 0
        BY <3>2, <4>3, FS_CardinalityType, FS_EmptySet
      <4>5. Cardinality(Defaults(sizes)) = 1
        BY <4>4 DEF MayNormalize
      <4>6. PICK k : Defaults(sizes) = {k}
        BY <4>3, <4>5, FS_Singleton
      <4>7. k \in DOMAIN sizes
        BY <4>6 DEF Defaults
      <4> QED
        BY <4>1, <4>6, <4>7
    <3> QED
      BY <3>1, <3>2
  <2>3. base = saved[CHOOSE k \in Defaults(saved) : TRUE].price
    BY <1>2 DEF base_price_from_variations
  <2> HIDE DEF saved, base
  <2>4. PICK k \in DOMAIN saved : Defaults(saved) = {k}
    BY <2>2
  <2>5. (CHOOSE j \in Defaults(saved) : TRUE) = k
    BY <2>4
  <2>6. base = saved[k].price /\ saved[k] \in SizeRow
    BY <2>2, <2>3, <2>4, <2>5
  <2>7. base \in Nat
    BY <2>6 DEF SizeRow
  <2> QED
    BY <2>2, <2>4, <2>6, <2>7 DEF saved, base
<1> QED
  BY <1>1, <1>2

\* A menu on which only one dish changed its sizes and its price, together.
LEMMA DishSaved ==
  ASSUME NEW d, NEW stale, MenuOK(d, stale), NEW e, NEW i \in Dish, DOMAIN e = OutletColumns,
         e.price \in [Dish -> Nat], e.diet \in [Dish -> Diet],
         e.sizes \in [Dish -> Seq(SizeRow)], e.toppings \in [Dish -> ToppingGroup],
         \A j \in Dish \ {i} : e.price[j] = d.price[j] /\ e.sizes[j] = d.sizes[j],
         PricedBySize(e, i)
  PROVE  MenuOK(e, stale) /\ MenuOK(e, stale \ {i})
<1>1. \A j \in Dish \ {i} : PricedBySize(d, j) => PricedBySize(e, j)
  BY DEF PricedBySize
<1>2. \A j \in Dish \ (stale \ {i}) : PricedBySize(e, j)
  BY <1>1 DEF MenuOK
<1> QED
  BY <1>2 DEF MenuOK

\* A menu on which no dish changed its sizes, toppings and price.
LEMMA MenuSame ==
  ASSUME NEW d, NEW stale, MenuOK(d, stale), NEW e, DOMAIN e = OutletColumns,
         e.price = d.price, e.sizes = d.sizes, e.toppings = d.toppings, e.diet \in [Dish -> Diet]
  PROVE  MenuOK(e, stale)
  BY DEF MenuOK, PricedBySize

\* What the requests about the menu make of it.
LEMMA RequestedMenu ==
  ASSUME NEW d, NEW stale, MenuOK(d, stale)
  PROVE  /\ \A c, n : MenuOK(create_category(d, c, n), stale)
         /\ \A c, n : MenuOK(update_category(d, c, n), stale)
         /\ \A c : \A i \in Dish, price \in Nat, diet \in Diet, sizes \in Seq(SizeRow),
               toppings \in ToppingGroup :
              MayNormalize(sizes) =>
                MenuOK(create_item(d, i, c, price, diet, sizes, toppings), stale)
         /\ \A i \in Dish, sizes \in Seq(SizeRow), toppings \in ToppingGroup :
              MayNormalize(sizes) =>
                LET e == replace_item_modifiers(d, i, sizes, toppings)
                IN MenuOK(e, stale) /\ (sizes # << >> => MenuOK(e, stale \ {i}))
         /\ \A c : \A i \in Dish : MenuOK(MoveItem(d, i, c), stale)
         /\ \A i \in Dish, diet \in Diet : MenuOK(SetDiet(d, i, diet), stale)
         /\ \A yes : \A i \in Dish : MenuOK(SetAvailable(d, i, yes), stale)
         /\ \A i \in Dish, price \in Nat : MenuOK(RepriceItem(d, i, price), stale \cup {i})
         /\ \A gone : MenuOK(DeleteDishes(d, gone), stale)
         /\ \A c : MenuOK(delete_category(d, c), stale)
<1>0. DOMAIN d = OutletColumns /\ d.diet \in [Dish -> Diet] /\ d.price \in [Dish -> Nat]
  BY DEF MenuOK
<1>1. ASSUME NEW c, NEW n
      PROVE  MenuOK(create_category(d, c, n), stale)
  <2> DEFINE e == create_category(d, c, n)
  <2>1. DOMAIN e = OutletColumns /\ e.price = d.price /\ e.sizes = d.sizes
          /\ e.toppings = d.toppings /\ e.diet = d.diet
    BY <1>0 DEF create_category, OutletColumns
  <2> HIDE DEF e
  <2> QED
    BY <1>0, <2>1, MenuSame DEF e
<1>2. ASSUME NEW c, NEW n
      PROVE  MenuOK(update_category(d, c, n), stale)
  <2> DEFINE e == update_category(d, c, n)
  <2>1. DOMAIN e = OutletColumns /\ e.price = d.price /\ e.sizes = d.sizes
          /\ e.toppings = d.toppings /\ e.diet = d.diet
    BY <1>0 DEF update_category, OutletColumns
  <2> HIDE DEF e
  <2> QED
    BY <1>0, <2>1, MenuSame DEF e
<1>3. ASSUME NEW i \in Dish, NEW c, NEW price \in Nat, NEW diet \in Diet,
             NEW sizes \in Seq(SizeRow), NEW toppings \in ToppingGroup, MayNormalize(sizes)
      PROVE  MenuOK(create_item(d, i, c, price, diet, sizes, toppings), stale)
  <2> DEFINE e == create_item(d, i, c, price, diet, sizes, toppings)
             saved == normalize_variations(sizes)
             base == base_price_from_variations(sizes, price)
  <2>1. /\ saved \in Seq(SizeRow) /\ base \in Nat
        /\ saved # << >> => \E k \in DOMAIN saved : Defaults(saved) = {k} /\ base = saved[k].price
    BY <1>3, NormalizedSizes
  <2> HIDE DEF saved, base
  <2>2. DOMAIN e = OutletColumns /\ e.price = [d.price EXCEPT ![i] = base]
          /\ e.sizes = [d.sizes EXCEPT ![i] = saved]
          /\ e.toppings = [d.toppings EXCEPT ![i] = toppings]
          /\ e.diet = [d.diet EXCEPT ![i] = diet]
    BY <1>0 DEF create_item, OutletColumns, saved, base
  <2> HIDE DEF e
  <2>3. PricedBySize(e, i)
    BY <1>0, <2>1, <2>2 DEF PricedBySize, MenuOK
  <2>4. /\ e.price \in [Dish -> Nat] /\ e.diet \in [Dish -> Diet]
        /\ e.sizes \in [Dish -> Seq(SizeRow)] /\ e.toppings \in [Dish -> ToppingGroup]
    BY <1>0, <2>1, <2>2 DEF MenuOK
  <2>5. \A j \in Dish \ {i} : e.price[j] = d.price[j] /\ e.sizes[j] = d.sizes[j]
    BY <1>0, <2>2 DEF MenuOK
  <2>6. MenuOK(e, stale)
    BY <2>2, <2>3, <2>4, <2>5, DishSaved
  <2> QED
    BY <2>6 DEF e
<1>4. ASSUME NEW i \in Dish, NEW sizes \in Seq(SizeRow), NEW toppings \in ToppingGroup,
             MayNormalize(sizes)
      PROVE  LET e == replace_item_modifiers(d, i, sizes, toppings)
             IN MenuOK(e, stale) /\ MenuOK(e, stale \ {i})
  <2> DEFINE e == replace_item_modifiers(d, i, sizes, toppings)
             saved == normalize_variations(sizes)
             base == base_price_from_variations(sizes, d.price[i])
  <2>1. /\ saved \in Seq(SizeRow) /\ base \in Nat
        /\ saved # << >> => \E k \in DOMAIN saved : Defaults(saved) = {k} /\ base = saved[k].price
    BY <1>0, <1>4, NormalizedSizes
  <2> HIDE DEF saved, base
  <2>2. DOMAIN e = OutletColumns /\ e.price = [d.price EXCEPT ![i] = base]
          /\ e.sizes = [d.sizes EXCEPT ![i] = saved]
          /\ e.toppings = [d.toppings EXCEPT ![i] = toppings] /\ e.diet = d.diet
    BY <1>0 DEF replace_item_modifiers, OutletColumns, saved, base
  <2> HIDE DEF e
  <2>3. PricedBySize(e, i)
    BY <1>0, <2>1, <2>2 DEF PricedBySize, MenuOK
  <2>4. /\ e.price \in [Dish -> Nat] /\ e.diet \in [Dish -> Diet]
        /\ e.sizes \in [Dish -> Seq(SizeRow)] /\ e.toppings \in [Dish -> ToppingGroup]
    BY <1>0, <2>1, <2>2 DEF MenuOK
  <2>5. \A j \in Dish \ {i} : e.price[j] = d.price[j] /\ e.sizes[j] = d.sizes[j]
    BY <1>0, <2>2 DEF MenuOK
  <2>6. MenuOK(e, stale) /\ MenuOK(e, stale \ {i})
    BY <2>2, <2>3, <2>4, <2>5, DishSaved
  <2> QED
    BY <2>6 DEF e
<1>5. ASSUME NEW i \in Dish
      PROVE  /\ \A c : MenuOK(MoveItem(d, i, c), stale)
             /\ \A diet \in Diet : MenuOK(SetDiet(d, i, diet), stale)
             /\ \A yes : MenuOK(SetAvailable(d, i, yes), stale)
  <2>1. ASSUME NEW c
        PROVE  MenuOK(MoveItem(d, i, c), stale)
    <3> DEFINE e == MoveItem(d, i, c)
    <3>1. DOMAIN e = OutletColumns /\ e.price = d.price /\ e.sizes = d.sizes
            /\ e.toppings = d.toppings /\ e.diet = d.diet
      BY <1>0 DEF MoveItem, OutletColumns
    <3> HIDE DEF e
    <3> QED
      BY <1>0, <3>1, MenuSame DEF e
  <2>2. ASSUME NEW diet \in Diet
        PROVE  MenuOK(SetDiet(d, i, diet), stale)
    <3> DEFINE e == SetDiet(d, i, diet)
    <3>1. DOMAIN e = OutletColumns /\ e.price = d.price /\ e.sizes = d.sizes
            /\ e.toppings = d.toppings /\ e.diet = [d.diet EXCEPT ![i] = diet]
      BY <1>0 DEF SetDiet, OutletColumns
    <3> HIDE DEF e
    <3>2. e.diet \in [Dish -> Diet]
      BY <1>0, <3>1
    <3> QED
      BY <3>1, <3>2, MenuSame DEF e
  <2>3. ASSUME NEW yes
        PROVE  MenuOK(SetAvailable(d, i, yes), stale)
    <3> DEFINE e == SetAvailable(d, i, yes)
    <3>1. DOMAIN e = OutletColumns /\ e.price = d.price /\ e.sizes = d.sizes
            /\ e.toppings = d.toppings /\ e.diet = d.diet
      BY <1>0 DEF SetAvailable, OutletColumns
    <3> HIDE DEF e
    <3> QED
      BY <1>0, <3>1, MenuSame DEF e
  <2> QED
    BY <2>1, <2>2, <2>3
<1>6. ASSUME NEW i \in Dish, NEW price \in Nat
      PROVE  MenuOK(RepriceItem(d, i, price), stale \cup {i})
  <2> DEFINE e == RepriceItem(d, i, price)
  <2>1. DOMAIN e = OutletColumns /\ e.price = [d.price EXCEPT ![i] = price] /\ e.sizes = d.sizes
          /\ e.toppings = d.toppings /\ e.diet = d.diet
    BY <1>0 DEF RepriceItem, OutletColumns
  <2> HIDE DEF e
  <2>2. \A j \in Dish \ (stale \cup {i}) : PricedBySize(e, j)
    <3>1. \A j \in Dish \ (stale \cup {i}) : PricedBySize(d, j) /\ e.price[j] = d.price[j]
      BY <1>0, <2>1 DEF MenuOK
    <3> QED
      BY <2>1, <3>1 DEF PricedBySize
  <2>3. e.price \in [Dish -> Nat]
    BY <1>0, <2>1
  <2>4. MenuOK(e, stale \cup {i})
    BY <2>1, <2>2, <2>3 DEF MenuOK
  <2> QED
    BY <2>4 DEF e
<1>7. ASSUME NEW gone
      PROVE  LET e == DeleteDishes(d, gone)
             IN /\ DOMAIN e = OutletColumns /\ e.price = d.price /\ e.sizes = d.sizes
                /\ e.toppings = d.toppings /\ e.diet = d.diet
  BY <1>0 DEF DeleteDishes, Unruled, Detached, OutletColumns
<1>8. ASSUME NEW gone
      PROVE  MenuOK(DeleteDishes(d, gone), stale)
  <2> DEFINE e == DeleteDishes(d, gone)
  <2>1. /\ DOMAIN e = OutletColumns /\ e.price = d.price /\ e.sizes = d.sizes
        /\ e.toppings = d.toppings /\ e.diet = d.diet
    BY <1>7
  <2> HIDE DEF e
  <2> QED
    BY <1>0, <2>1, MenuSame DEF e
<1>9. ASSUME NEW c
      PROVE  MenuOK(delete_category(d, c), stale)
  <2> DEFINE gone == {i \in LiveDishes(d) : d.under[i] = c}
             f == DeleteDishes(d, gone)
             e == delete_category(d, c)
  <2>1. /\ DOMAIN f = OutletColumns /\ f.price = d.price /\ f.sizes = d.sizes
        /\ f.toppings = d.toppings /\ f.diet = d.diet
    <3> HIDE DEF gone
    <3> QED
      BY <1>7
  <2>2. e = [f EXCEPT !.category[c] = "deleted"]
    BY DEF delete_category
  <2> HIDE DEF e, f
  <2>3. DOMAIN e = OutletColumns /\ e.price = d.price /\ e.sizes = d.sizes
          /\ e.toppings = d.toppings /\ e.diet = d.diet
    BY <2>1, <2>2 DEF OutletColumns
  <2> QED
    BY <1>0, <2>3, MenuSame DEF e
<1> QED
  BY <1>1, <1>2, <1>3, <1>4, <1>5, <1>6, <1>8, <1>9
-----------------------------------------------------------------------------
(* Lines and bills *)

\* What the lines of an order cost.
LinesTotal(d) == SumFunctionOnSet([l \in Line |-> line_total(d.line[l])], Active(d))

\* What an order costs is a number of paise, and depends on its lines and time alone.
LEMMA LinesNat ==
  ASSUME NEW d, d.line \in [Line -> LineRow]
  PROVE  LinesTotal(d) \in Nat
<1> DEFINE f == [l \in Line |-> line_total(d.line[l])]
<1>1. IsFiniteSet(Active(d))
  BY PricingAssumption, FS_Subset DEF Active
<1>2. \A l \in Active(d) : f[l] \in Nat
  <2> SUFFICES ASSUME NEW l \in Active(d)
               PROVE  f[l] \in Nat
    OBVIOUS
  <2>1. l \in Line /\ d.line[l] \in LineRow
    BY DEF Active
  <2>2. d.line[l].each \in Nat /\ d.line[l].quantity \in Nat
    BY <2>1 DEF LineRow
  <2> QED
    BY <2>1, <2>2 DEF line_total
<1> HIDE DEF f
<1>3. SumFunctionOnSet(f, Active(d)) \in Nat
  BY <1>1, <1>2, SumNat
<1> QED
  BY <1>3 DEF LinesTotal, f

LEMMA SubtotalNat ==
  ASSUME NEW d, d.line \in [Line -> LineRow], d.charge \in Nat
  PROVE  Subtotal(d) \in Nat
<1>1. Subtotal(d) = LinesTotal(d) + d.charge
  BY DEF Subtotal, LinesTotal
<1> QED
  BY <1>1, LinesNat

\* What lines cost is decided by their state, price and quantity.
LEMMA SubtotalSame ==
  ASSUME NEW d, NEW e, e.charge = d.charge,
         \A l \in Line : /\ e.line[l].state = d.line[l].state /\ e.line[l].each = d.line[l].each
                         /\ e.line[l].quantity = d.line[l].quantity
  PROVE  Subtotal(e) = Subtotal(d)
<1>1. Active(e) = Active(d)
  BY DEF Active
<1>2. [l \in Line |-> line_total(e.line[l])] = [l \in Line |-> line_total(d.line[l])]
  BY DEF line_total
<1> QED
  BY <1>1, <1>2 DEF Subtotal

\* An order without a line costs less by what the line cost.
LEMMA SubtotalRemoved ==
  ASSUME NEW d, d.line \in [Line -> LineRow], d.charge \in Nat, NEW l \in Active(d),
         NEW e, e.line = [d.line EXCEPT ![l] = NoLine], e.charge = d.charge
  PROVE  /\ line_total(d.line[l]) \in Nat /\ e.line \in [Line -> LineRow]
         /\ Subtotal(d) = Subtotal(e) + line_total(d.line[l])
<1> DEFINE f == [k \in Line |-> line_total(d.line[k])]
           g == [k \in Line |-> line_total(e.line[k])]
<1>1. l \in Line /\ NoLine \in LineRow /\ NoLine.state = "none"
  BY DEF Active, NoLine, LineRow, Diet
<1>2. e.line \in [Line -> LineRow]
  BY <1>1
<1>3. Active(e) = Active(d) \ {l}
  BY <1>1 DEF Active
<1>4. IsFiniteSet(Active(d)) /\ IsFiniteSet(Active(e))
  BY <1>3, PricingAssumption, FS_Subset DEF Active
<1>5. \A k \in Line : f[k] \in Nat
  <2> SUFFICES ASSUME NEW k \in Line
               PROVE  line_total(d.line[k]) \in Nat
    OBVIOUS
  <2>1. d.line[k].each \in Nat /\ d.line[k].quantity \in Nat
    BY DEF LineRow
  <2> QED
    BY <2>1 DEF line_total
<1>6. \A k \in Active(e) : g[k] = f[k]
  BY <1>1, <1>3 DEF Active
<1>7. f[l] = line_total(d.line[l])
  BY <1>1
<1>8. LinesTotal(d) = SumFunctionOnSet(f, Active(d)) /\ LinesTotal(e) = SumFunctionOnSet(g, Active(e))
  BY DEF LinesTotal
<1>9. \A k \in Active(d) : f[k] \in Int
  BY <1>5 DEF Active
<1> HIDE DEF f, g
<1>10. SumFunctionOnSet(f, Active(d)) = f[l] + SumFunctionOnSet(f, Active(d) \ {l})
  BY <1>4, <1>9, SumTakeOut
<1>11. SumFunctionOnSet(g, Active(e)) = SumFunctionOnSet(f, Active(e))
  BY <1>4, <1>6, SumSame
<1>12. LinesTotal(d) = f[l] + LinesTotal(e)
  BY <1>3, <1>8, <1>10, <1>11
<1>13. Subtotal(d) = LinesTotal(d) + d.charge /\ Subtotal(e) = LinesTotal(e) + e.charge
  BY DEF Subtotal, LinesTotal
<1>14. LinesTotal(d) \in Nat /\ LinesTotal(e) \in Nat /\ f[l] \in Nat
  BY <1>1, <1>2, <1>5, LinesNat
<1> QED
  BY <1>2, <1>7, <1>12, <1>13, <1>14

\* Taxes depend on lines, rules, type and time of an order.
LEMMA TaxSame ==
  ASSUME NEW d, NEW e, e.line = d.line, e.rules = d.rules, e.type = d.type, e.charge = d.charge
  PROVE  Subtotal(e) = Subtotal(d) /\ \A t : TaxOn(e, t) = TaxOn(d, t)
  BY DEF Subtotal, Active, TaxOn, LineTaxables, matching_profiles

\* What a bill is asked with decides what it says; the other rows stay.
LEMMA BilledRow ==
  ASSUME NEW d, DOMAIN d = OutletColumns, NEW p, NEW state
  PROVE  LET e == Billed(d, p, state)
             discount == DiscountOf(Subtotal(d), p.amount, p.percent)
         IN /\ DOMAIN e = OutletColumns
            /\ \A c \in OutletColumns \ {"bill"} : e[c] = d[c]
            /\ Subtotal(e) = Subtotal(d)
            /\ e.bill.state = state /\ e.bill.subtotal = Subtotal(d)
            /\ e.bill.discount = discount /\ e.bill.percent = p.percent
            /\ p.taxes => e.bill.tax = TaxOn(e, Subtotal(d) - discount).amount
<1> DEFINE e == Billed(d, p, state)
           b == bill_amounts(d, p)
           discount == DiscountOf(Subtotal(d), p.amount, p.percent)
<1>1. /\ b.subtotal = Subtotal(d) /\ b.discount = discount /\ b.percent = p.percent
      /\ {"subtotal", "discount", "percent", "tax"} \subseteq DOMAIN b
      /\ p.taxes => b.tax = TaxOn(d, Subtotal(d) - discount).amount
  BY DEF bill_amounts, AmountsWith
<1> HIDE DEF b, discount
<1>2. e = [d EXCEPT !.bill = [state |-> state] ++ b]
  BY DEF Billed, b
<1> HIDE DEF e
<1>3. DOMAIN e = OutletColumns /\ \A c \in OutletColumns \ {"bill"} : e[c] = d[c]
  BY <1>2
<1>4. e.bill = [state |-> state] ++ b
  BY <1>2 DEF OutletColumns
<1>5. /\ e.bill.state = state /\ e.bill.subtotal = b.subtotal /\ e.bill.discount = b.discount
      /\ e.bill.percent = b.percent /\ e.bill.tax = b.tax
  BY <1>1, <1>4 DEF ++
<1>6. e.line = d.line /\ e.rules = d.rules /\ e.type = d.type /\ e.charge = d.charge
  BY <1>3 DEF OutletColumns
<1>7. Subtotal(e) = Subtotal(d) /\ \A t : TaxOn(e, t) = TaxOn(d, t)
  BY <1>6, TaxSame
<1> QED
  BY <1>1, <1>3, <1>5, <1>7 DEF e, discount

\* A bill that is computed again keeps within the cap while the order does not
\* become cheaper, and a bill with taxes keeps its taxes.
LEMMA RefreshedRow ==
  ASSUME NEW d, DOMAIN d = OutletColumns, d.line \in [Line -> LineRow], d.charge \in Nat,
         d.bill.discount \in Nat, d.bill.percent \in Nat,
         NEW max \in Nat, NEW given \in BOOLEAN,
         given => /\ WithinCap(d.bill, max) /\ d.bill.percent <= max
                  /\ d.bill.subtotal \in Nat /\ d.bill.subtotal <= Subtotal(d),
         NEW state \in {"open", "settled"}
  PROVE  LET e == Refreshed(d, state)
         IN /\ DOMAIN e = OutletColumns
            /\ \A c \in OutletColumns \ {"bill"} : e[c] = d[c]
            /\ Subtotal(e) = Subtotal(d) /\ e.bill.state = state
            /\ BillOK(e, max, given, 0)
            /\ e.bill.subtotal = Subtotal(d)
            /\ d.bill.tax > 0 =>
                 e.bill.tax = TaxOn(e, e.bill.subtotal - e.bill.discount).amount
<1> DEFINE b == d.bill
           p == [amount |-> IF b.percent > 0 THEN 0 ELSE b.discount, percent |-> b.percent,
                 taxes |-> b.method # "none" \/ b.tax > 0 \/ b.taxPercent > 0,
                 tip |-> b.tip, rounds |-> TRUE]
           e == Refreshed(d, state)
           sub == Subtotal(d)
           x == DiscountOf(sub, p.amount, p.percent)
<1>1. e = Billed(d, p, state)
  BY DEF Refreshed
<1>2. /\ p.percent = b.percent /\ p.amount \in Nat
      /\ p.percent = 0 => p.amount = b.discount
      /\ b.tax > 0 => p.taxes
  <2>1. p.percent = b.percent
    OBVIOUS
  <2>2. p.amount = IF b.percent > 0 THEN 0 ELSE b.discount
    OBVIOUS
  <2>3. p.taxes = (b.method # "none" \/ b.tax > 0 \/ b.taxPercent > 0)
    OBVIOUS
  <2> HIDE DEF p
  <2>4. b.tax > 0 => p.taxes
    BY <2>3
  <2> HIDE DEF b
  <2>5. b.discount \in Nat /\ b.percent \in Nat
    BY DEF b
  <2> QED
    BY <2>1, <2>2, <2>4, <2>5
<1> HIDE DEF p
<1>3. /\ DOMAIN e = OutletColumns
      /\ \A c \in OutletColumns \ {"bill"} : e[c] = d[c]
      /\ Subtotal(e) = sub
      /\ e.bill.state = state /\ e.bill.subtotal = sub
      /\ e.bill.discount = x /\ e.bill.percent = p.percent
      /\ p.taxes => e.bill.tax = TaxOn(e, sub - x).amount
  BY <1>1, BilledRow
<1>4. sub \in Nat
  BY SubtotalNat
<1>5. /\ x \in Nat /\ x <= sub
      /\ p.percent = 0 => x <= p.amount
      /\ p.percent > 0 => 2 * Hundred * x <= 2 * (sub * p.percent) + Hundred
  BY <1>2, <1>4, DiscountBounds
<1>6. given => 2 * Hundred * x <= (2 * max + 1) * sub + Hundred
  <2> SUFFICES ASSUME given
               PROVE  2 * Hundred * x <= (2 * max + 1) * sub + Hundred
    OBVIOUS
  <2> HIDE DEF x, sub
  <2>1. CASE b.percent = 0
    <3>1. x <= b.discount
      BY <1>2, <1>5, <2>1
    <3>2. 2 * Hundred * b.discount <= (2 * max + 1) * b.subtotal + Hundred
      BY DEF WithinCap
    <3>3. (2 * max + 1) * b.subtotal <= (2 * max + 1) * sub
      BY <1>4 DEF sub
    <3> DEFINE m == (2 * max + 1) * b.subtotal
               n == (2 * max + 1) * sub
    <3>4. m \in Nat /\ n \in Nat
      BY <1>4
    <3> HIDE DEF m, n
    <3>5. 2 * Hundred * b.discount <= m + Hundred /\ m <= n
      BY <3>2, <3>3 DEF m, n
    <3>6. 2 * Hundred * x <= n + Hundred
      BY <1>5, <3>1, <3>4, <3>5 DEF Hundred
    <3> QED
      BY <3>6 DEF n
  <2>2. CASE b.percent > 0
    <3> DEFINE m == sub * b.percent
               n == sub * max
    <3>1. m <= n /\ m \in Nat /\ n \in Nat
      BY <1>4
    <3>2. (2 * max + 1) * sub = 2 * n + sub
      BY <1>4
    <3>3. 2 * Hundred * x <= 2 * m + Hundred
      BY <1>2, <1>5, <2>2
    <3> HIDE DEF m, n
    <3>4. 2 * Hundred * x <= 2 * n + sub + Hundred
      BY <1>4, <1>5, <3>1, <3>3 DEF Hundred
    <3> QED
      BY <3>2, <3>4
  <2> QED
    BY <2>1, <2>2
<1> HIDE DEF e, x, sub
<1>7. e.line = d.line /\ e.charge = d.charge
  BY <1>3 DEF OutletColumns
<1>8. given => WithinCap(e.bill, max) /\ e.bill.percent <= max
  BY <1>2, <1>3, <1>6 DEF WithinCap
<1>9. BillOK(e, max, given, 0)
  BY <1>2, <1>3, <1>4, <1>5, <1>7, <1>8 DEF BillOK
<1> QED
  BY <1>2, <1>3, <1>9 DEF e, sub
-----------------------------------------------------------------------------
(* Taxes *)

\* All that charging depends on is that rules have rates.
Rated(rules) == rules \in Seq(Range(rules)) /\ \A k \in DOMAIN rules : rules[k].rate \in Nat

\* c is what is charged up to each rule: nothing before the first, and a rounded
\* share of the price, or of the price with the taxes so far, for every rule.
Charged(c, rules, K, taxable, method) ==
  LET n == Len(rules)
      base(k) == IF method = "tax_on_tax" THEN taxable + c[k - 1] ELSE taxable
  IN /\ n \in Nat /\ DOMAIN rules = 1 .. n
     /\ c \in [0 .. n -> Nat] /\ c[0] = 0
     /\ \A k \in (1 .. n) \ K : c[k] = c[k - 1]
     /\ \A k \in K : c[k] = c[k - 1] + money(base(k) * rules[k].rate, Hundred)

\* Taxes on top of a price are charged rule after rule.
LEMMA ChargedStep ==
  ASSUME NEW rules, Rated(rules), NEW K \in SUBSET DOMAIN rules, NEW taxable \in Nat, NEW method
  PROVE  Charged(ChargeOnTop(taxable, rules, K, method), rules, K, taxable, method)
<1> DEFINE n == Len(rules)
           Up(k, before) ==
             IF k \notin K THEN before
             ELSE LET base == IF method = "tax_on_tax" THEN taxable + before ELSE taxable
                  IN before + money(base * rules[k].rate, Hundred)
           s == [k \in 1 .. n |-> [before \in Nat |-> Up(k, before)]]
           Step(c) == [k \in 0 .. n |-> IF k = 0 THEN 0 ELSE Up(k, c[k - 1])]
           c == ChargeOnTop(taxable, rules, K, method)
<1>1. n \in Nat /\ DOMAIN rules = 1 .. n
  BY DEF Rated
<1>2. c = CHOOSE d : d = Step(d)
  BY DEF ChargeOnTop
<1>3. \A k \in 1 .. n, before \in Nat : Up(k, before) \in Nat
  <2>1. ASSUME NEW k \in K, NEW base \in Nat
        PROVE  money(base * rules[k].rate, Hundred) \in Nat
    <3> DEFINE p == base * rules[k].rate
    <3>1. p \in Nat /\ Hundred \in Nat \ {0}
      BY DEF Rated, Hundred
    <3> HIDE DEF p
    <3> QED
      BY <3>1, MoneyNear DEF p
  <2>2. ASSUME NEW k \in K, NEW before \in Nat
        PROVE  Up(k, before) \in Nat
    <3>1. taxable + before \in Nat
      OBVIOUS
    <3>2. CASE method = "tax_on_tax"
      <4>1. money((taxable + before) * rules[k].rate, Hundred) \in Nat
        BY <2>1, <3>1
      <4> QED
        BY <3>2, <4>1
    <3>3. CASE method # "tax_on_tax"
      <4>1. money(taxable * rules[k].rate, Hundred) \in Nat
        BY <2>1
      <4> QED
        BY <3>3, <4>1
    <3> QED
      BY <3>2, <3>3
  <2> QED
    BY <2>2
<1> HIDE DEF Up, n, c
<1>4. s \in [1 .. n -> [Nat -> Nat]]
  BY <1>3
<1>5. \A k \in 1 .. n, before \in Nat : s[k][before] = Up(k, before)
  OBVIOUS
<1> HIDE DEF s
<1>6. PICK g \in [0 .. n -> Nat] : Stepwise(g, 0, n, s)
  <2>1. 0 \in Nat
    OBVIOUS
  <2> QED
      BY <1>1, <1>4, <2>1, StepByStep
<1>7. g = Step(g)
  <2>1. \A k \in 0 .. n : g[k] = Step(g)[k]
    <3>1. Step(g)[0] = 0 /\ \A k \in 1 .. n : Step(g)[k] = Up(k, g[k - 1])
      BY <1>1
    <3>2. \A k \in 1 .. n : g[k - 1] \in Nat
      BY <1>1, <1>6
    <3>3. \A k \in 1 .. n : g[k] = Up(k, g[k - 1])
      BY <1>5, <1>6, <3>2 DEF Stepwise
    <3> HIDE DEF Step
    <3> QED
      BY <1>1, <1>6, <3>1, <3>3 DEF Stepwise
  <2>2. DOMAIN g = 0 .. n /\ DOMAIN Step(g) = 0 .. n
    OBVIOUS
  <2> QED
    BY <2>1, <2>2
<1>8. c = Step(c)
  <2> HIDE DEF Step
  <2> QED
    BY <1>2, <1>7
<1>9. c[0] = 0 /\ \A k \in 1 .. n : c[k] = Up(k, c[k - 1])
  BY <1>1, <1>8
<1>10. c \in [0 .. n -> Nat]
  <2> DEFINE P == {k \in 0 .. n : c[k] \in Nat}
  <2>1. 0 \in P
    BY <1>1, <1>9
  <2>2. ASSUME NEW k \in 1 .. n, k - 1 \in P
        PROVE  k \in P
    <3>1. c[k - 1] \in Nat
      BY <2>2
    <3>2. c[k] \in Nat
      BY <1>3, <1>9, <3>1
    <3> QED
      BY <1>1, <3>2
  <2>3. P \in SUBSET (0 .. n)
    OBVIOUS
  <2> HIDE DEF P
  <2>4. P = 0 .. n
    BY <1>1, <2>1, <2>2, <2>3, UpTo
  <2>5. DOMAIN c = 0 .. n
    BY <1>8
  <2>6. c = [k \in 0 .. n |-> c[k]]
    BY <1>8, <2>5
  <2> QED
    BY <2>4, <2>6 DEF P
<1> QED
  BY <1>1, <1>9, <1>10 DEF Charged, n, c, Up

\* The columns of a rule that its tax depends on.
LEMMA RuleColumns ==
  ASSUME NEW row, IsRule(row)
  PROVE  /\ row.rate \in Nat /\ row.cgst \in Nat /\ row.sgst \in Nat /\ row.igst \in Nat
         /\ row.method \in Method /\ row.active \in BOOLEAN
  BY DEF IsRule, OfRule, RuleColumn

\* A sequence of rules has rates.
LEMMA RulesRated ==
  ASSUME NEW rules, Ruled(rules)
  PROVE  Rated(rules) /\ DOMAIN rules = 1 .. Len(rules) /\ Len(rules) \in Nat
  BY RuleColumns DEF Ruled, Rated

\* The parts of a chunk add up to it; of a rule without parts, to nothing. None
\* is less than nothing: two that are rounded exceed the exact ones by a paisa at
\* most, and the integrated one, which is what they leave, is more than nothing.
LEMMA PartsOfChunk ==
  ASSUME NEW p, IsRule(p), NEW chunk \in Int
  PROVE  LET part == allocate_chunk(p, chunk)
         IN /\ part.cgst \in Nat /\ part.sgst \in Nat /\ part.igst \in Nat
            /\ part.cgst + part.sgst + part.igst
                 = IF p.rate > 0 /\ chunk > 0 /\ p.cgst + p.sgst + p.igst > 0 THEN chunk ELSE 0
<1> DEFINE parts == p.cgst + p.sgst + p.igst
           central == money(chunk * p.cgst, parts)
           state == money(chunk * p.sgst, parts)
           part == allocate_chunk(p, chunk)
<1>1. /\ p.rate \in Nat /\ p.cgst \in Nat /\ p.sgst \in Nat /\ p.igst \in Nat /\ parts \in Nat
  BY RuleColumns
<1>2. ASSUME chunk > 0, parts > 0
      PROVE  central \in Nat /\ central <= chunk /\ state \in Nat
  <2>1. /\ chunk \in Nat /\ parts \in Nat \ {0}
        /\ p.cgst \in Nat /\ p.cgst <= parts /\ p.sgst \in Nat /\ p.sgst <= parts
    BY <1>1, <1>2
  <2> HIDE DEF parts
  <2> QED
    BY <2>1, MoneyShare
<1>3. ASSUME chunk > 0, p.igst > 0
      PROVE  central + state <= chunk
  <2> DEFINE x == chunk * p.cgst
             y == chunk * p.sgst
             whole == chunk * parts
             c == parts * central
             d == parts * state
  <2>1. parts \in Nat \ {0} /\ chunk \in Nat /\ central \in Nat /\ state \in Nat
    BY <1>1, <1>2, <1>3
  <2>2. x \in Nat /\ y \in Nat
    BY <1>1, <2>1
  <2>3. x + y < whole
    <3>1. x + y + chunk * p.igst = whole
      BY <1>1, <2>1
    <3>2. chunk * p.igst \in Nat \ {0}
      BY <1>1, <1>3, <2>1
    <3> QED
      BY <2>2, <3>1, <3>2
  <2>4. 2 * c <= 2 * x + parts /\ 2 * d <= 2 * y + parts
    <3> HIDE DEF x, y, parts
    <3> QED
      BY <2>1, <2>2, MoneyNear DEF x, y
  <2>5. ASSUME central + state >= chunk + 1
        PROVE  FALSE
    <3> HIDE DEF parts, central, state
    <3>1. parts * (central + state) >= parts * (chunk + 1)
      BY <2>1, <2>5
    <3>2. c + d >= whole + parts
      BY <2>1, <3>1
    <3>3. c \in Nat /\ d \in Nat /\ whole \in Nat
      BY <2>1
    <3> HIDE DEF c, d, whole, x, y
    <3> QED
      BY <2>1, <2>2, <2>3, <2>4, <3>2, <3>3
  <2> QED
    BY <2>1, <2>5
<1>4. part = IF p.rate <= 0 \/ chunk <= 0 \/ parts <= 0 THEN [cgst |-> 0, sgst |-> 0, igst |-> 0]
             ELSE IF p.igst > 0
             THEN [cgst |-> central, sgst |-> state, igst |-> chunk - central - state]
             ELSE [cgst |-> central, sgst |-> chunk - central, igst |-> 0]
  BY DEF allocate_chunk
<1> HIDE DEF parts, central, state, part
<1>5. CASE p.rate <= 0 \/ chunk <= 0 \/ parts <= 0
  <2>1. part.cgst = 0 /\ part.sgst = 0 /\ part.igst = 0
    BY <1>4, <1>5
  <2> QED
    BY <1>1, <1>5, <2>1 DEF part, parts
<1>6. CASE p.rate > 0 /\ chunk > 0 /\ parts > 0 /\ p.igst > 0
  <2>1. part.cgst = central /\ part.sgst = state /\ part.igst = chunk - central - state
    BY <1>1, <1>4, <1>6
  <2> QED
    BY <1>1, <1>2, <1>6, <1>3, <2>1 DEF part, parts
<1>7. CASE p.rate > 0 /\ chunk > 0 /\ parts > 0 /\ ~ (p.igst > 0)
  <2>1. part.cgst = central /\ part.sgst = chunk - central /\ part.igst = 0
    BY <1>1, <1>4, <1>7
  <2> QED
    BY <1>1, <1>2, <1>7, <2>1 DEF part, parts
<1> QED
  BY <1>1, <1>5, <1>6, <1>7

\* The positive part of a number, as the parts of a tax have it.
Positive(x) == IF x > 0 THEN x ELSE 0

\* An inclusive tax is shared out exactly; the shares that are positive exceed it
\* by at most half a paisa for every rule but the last.
LEMMA SharesAddUp ==
  ASSUME NEW rules, Ruled(rules), NEW K \in SUBSET DOMAIN rules, K # {},
         \A k \in K : rules[k].rate > 0, NEW a \in Nat
  PROVE  LET share == split_amounts(rules, K, a, CombinedRate(rules, K))
             paid == [k \in K |-> Positive(share[k])]
             sum == SumFunctionOnSet(paid, K)
         IN /\ \A k \in K : share[k] \in Int
            /\ sum \in Int /\ a <= sum /\ 2 * sum <= 2 * a + (Cardinality(K) - 1)
<1> DEFINE R == CombinedRate(rules, K)
           share == split_amounts(rules, K, a, R)
           paid == [k \in K |-> Positive(share[k])]
           last == Max(K)
           L == K \ {last}
           rate == [k \in K |-> rules[k].rate]
           g == [i \in L |-> money(a * rules[i].rate, R)]
           rest == SumFunctionOnSet(g, L)
           n == Cardinality(K)
<1>1. /\ IsFiniteSet(K) /\ K \subseteq Int
      /\ \A k \in K : rate[k] \in Nat /\ rules[k].rate = rate[k]
  <2>1. IsFiniteSet(DOMAIN rules) /\ K \subseteq Int
    BY RulesRated, FS_Interval
  <2>2. \A k \in K : rules[k].rate \in Nat
    BY RuleColumns DEF Ruled
  <2> QED
    BY <2>1, <2>2, FS_Subset
<1>2. last \in K
  <2>1. \E x \in K : \A y \in K : y <= x
    BY <1>1, Extremes
  <2> QED
    BY <1>1, <2>1 DEF Max
<1> HIDE DEF last
<1>3. IsFiniteSet(L) /\ Cardinality(L) = n - 1 /\ n \in Nat /\ Cardinality(L) \in Nat
  <2>1. IsFiniteSet(L) /\ Cardinality(L) = n - 1
    BY <1>1, <1>2, FS_RemoveElement
  <2>2. n \in Nat /\ Cardinality(L) \in Nat
    BY <1>1, <2>1, FS_CardinalityType
  <2> QED
    BY <2>1, <2>2
<1>4. R = SumFunctionOnSet(rate, K)
  <2>1. DOMAIN rate = K
    OBVIOUS
  <2> QED
    BY <2>1, SumOver DEF CombinedRate
<1>5. /\ R \in Nat \ {0} /\ SumFunctionOnSet(rate, L) \in Nat
      /\ SumFunctionOnSet(rate, L) <= R
  <2> DEFINE q == SumFunctionOnSet(rate, L)
  <2>1. q \in Nat
    <3> HIDE DEF rate
    <3> QED
      BY <1>1, <1>3, SumNat
  <2>2. R = rate[last] + q
    <3> HIDE DEF rate, R
    <3> QED
      BY <1>1, <1>2, <1>4, SumTakeOut
  <2>3. rate[last] \in Nat /\ rate[last] > 0
    BY <1>1, <1>2
  <2> HIDE DEF rate, R, q
  <2> QED
    BY <2>1, <2>2, <2>3 DEF q
<1> HIDE DEF R
<1>6. \A k \in L : g[k] \in Nat /\ g[k] = money(a * rate[k], R)
  <2> TAKE k \in L
  <2> DEFINE x == a * rate[k]
  <2>1. x \in Nat /\ g[k] = money(x, R)
    BY <1>1
  <2> HIDE DEF x, g
  <2> QED
    BY <1>5, <2>1, MoneyNear DEF x
<1>7. /\ \A k \in L : share[k] = g[k]
      /\ share[last] = a - rest
  <2>1. share = [k \in K |-> IF k # last THEN money(a * rules[k].rate, R)
                             ELSE a - SumFunction([i \in K \ {k} |-> money(a * rules[i].rate, R)])]
    BY DEF split_amounts, last
  <2>2. DOMAIN g = L /\ g = [i \in K \ {last} |-> money(a * rules[i].rate, R)]
    OBVIOUS
  <2> HIDE DEF share
  <2>3. share[last] = a - SumFunction(g)
    BY <1>2, <2>1
  <2> QED
    BY <2>1, <2>2, <2>3, SumOver
<1>8. rest \in Nat /\ 2 * rest <= 2 * a + (n - 1)
  <2>1. rest \in Nat
    <3> HIDE DEF g
    <3> QED
      BY <1>3, <1>6, SumNat
  <2> DEFINE q == SumFunctionOnSet(rate, L)
             x == R * rest
             y == a * q
             z == R * Cardinality(L)
  <2>2. 2 * x <= 2 * y + z
    <3> HIDE DEF g, L, rate
    <3>1. \A k \in L : rate[k] \in Nat /\ g[k] = money(a * rate[k], R)
      BY <1>1, <1>6 DEF L
    <3> QED
      BY <1>3, <1>5, <3>1, RoundedSums
  <2>3. y <= R * a
    <3> HIDE DEF L, rate
    <3>1. q \in Nat /\ q <= R
      BY <1>5
    <3> HIDE DEF q
    <3>2. a * q <= a * R
      BY <1>5, <3>1
    <3> QED
      BY <1>5, <3>1, <3>2
  <2> HIDE DEF q, L, rest
  <2>4. R * (2 * rest) <= R * (2 * a + (n - 1))
    <3>1. R * (2 * rest) = 2 * x
      BY <1>5, <2>1
    <3>2. R * (2 * a + (n - 1)) = 2 * (R * a) + z
      BY <1>3, <1>5
    <3>3. y \in Int /\ z \in Int /\ R * a \in Int /\ x \in Int
      BY <1>3, <1>5, <2>1 DEF q
    <3> DEFINE w == R * a
    <3>4. 2 * y <= 2 * w
      BY <2>3, <3>3
    <3> HIDE DEF x, y, z, w
    <3>5. 2 * x <= 2 * w + z
      BY <2>2, <3>3, <3>4 DEF w
    <3> QED
      BY <3>1, <3>2, <3>5 DEF w
  <2> DEFINE u == 2 * rest
             v == 2 * a + (n - 1)
  <2>5. u \in Int /\ v \in Int /\ R * u <= R * v
    BY <1>3, <2>1, <2>4
  <2> HIDE DEF u, v
  <2>6. u <= v
    <3>1. ASSUME v < u
          PROVE  FALSE
      <4>1. R * (v + 1) <= R * u /\ R * (v + 1) = R * v + R
        BY <1>5, <2>5, <3>1
      <4> DEFINE i == R * u
                 j == R * v
      <4>2. i \in Int /\ j \in Int
        BY <1>5, <2>5
      <4> HIDE DEF i, j
      <4>3. j + R <= i /\ i <= j
        BY <2>5, <4>1 DEF i, j
      <4> QED
        BY <1>5, <4>2, <4>3
    <3> QED
      BY <2>5, <3>1
  <2> QED
    BY <2>1, <2>6 DEF u, v
<1>9. SumFunctionOnSet(paid, K) = Positive(a - rest) + rest
  <2>1. paid[last] = Positive(a - rest) /\ \A k \in L : paid[k] = g[k] /\ g[k] \in Int
    <3> HIDE DEF share, rest, g
    <3> QED
      BY <1>2, <1>6, <1>7 DEF Positive
  <2> HIDE DEF paid, rest, g
  <2>2. Positive(a - rest) \in Int
    BY <1>8 DEF Positive
  <2>3. \A k \in K : paid[k] \in Int
    BY <1>2, <2>1, <2>2
  <2>4. SumFunctionOnSet(paid, K) = paid[last] + SumFunctionOnSet(paid, L)
    BY <1>1, <1>2, <2>3, SumTakeOut
  <2>5. SumFunctionOnSet(paid, L) = SumFunctionOnSet(g, L)
    <3> HIDE DEF L
    <3> QED
      BY <1>3, <2>1, SumSame
  <2> QED
    BY <2>1, <2>4, <2>5 DEF rest
<1> HIDE DEF share, rest, g
<1>10. \A k \in K : share[k] \in Int
  BY <1>2, <1>6, <1>7, <1>8
<1> DEFINE sum == SumFunctionOnSet(paid, K)
<1> HIDE DEF sum, L, n
<1>11. sum \in Int /\ a <= sum /\ 2 * sum <= 2 * a + (n - 1)
  BY <1>3, <1>8, <1>9 DEF Positive, sum
<1> QED
  BY <1>10, <1>11 DEF sum, share, R, n

\* A tax as compute_from_profiles returns it.
TaxRow == [percent : Nat, amount : Nat, cgst : Nat, sgst : Nat, igst : Nat, method : Method,
           applied : BOOLEAN, added : Nat]

\* The parts of a tax add up to this; some rules have no parts.
Parts(tax) == tax.cgst + tax.sgst + tax.igst

HasParts(rule) == rule.cgst + rule.sgst + rule.igst > 0

\* Exclusive taxes: what each rule charges adds up to what they charge together.
LEMMA OnTopAddsUp ==
  ASSUME NEW rules, Ruled(rules), NEW K \in SUBSET DOMAIN rules, NEW taxable \in Nat, NEW method
  PROVE  LET c == ChargeOnTop(taxable, rules, K, method)
             f == [k \in K |-> c[k] - c[k - 1]]
         IN /\ \A k \in K : f[k] \in Nat
            /\ c[Len(rules)] \in Nat /\ SumFunctionOnSet(f, K) = c[Len(rules)]
<1> DEFINE n == Len(rules)
           c == ChargeOnTop(taxable, rules, K, method)
           f == [k \in K |-> c[k] - c[k - 1]]
           base(k) == IF method = "tax_on_tax" THEN taxable + c[k - 1] ELSE taxable
           m(k) == money(base(k) * rules[k].rate, Hundred)
<1>1. /\ n \in Nat /\ DOMAIN rules = 1 .. n
      /\ c \in [0 .. n -> Nat] /\ c[0] = 0
      /\ \A k \in (1 .. n) \ K : c[k] = c[k - 1]
      /\ \A k \in K : c[k] = c[k - 1] + m(k)
  <2>1. Rated(rules)
    BY RulesRated
  <2>2. Charged(c, rules, K, taxable, method)
    BY <2>1, ChargedStep
  <2> HIDE DEF c
  <2> QED
    BY <2>2 DEF Charged
<1> HIDE DEF n, c
<1>2. ASSUME NEW k \in K
      PROVE  m(k) \in Nat /\ c[k - 1] \in Nat
  <2>1. k - 1 \in 0 .. n /\ c[k - 1] \in Nat
    BY <1>1
  <2> DEFINE x == base(k) * rules[k].rate
  <2>2. x \in Nat
    <3>1. rules[k].rate \in Nat
      BY RuleColumns DEF Ruled
    <3>2. base(k) \in Nat
      BY <2>1
    <3> HIDE DEF base
    <3> QED
      BY <3>1, <3>2
  <2>3. Hundred \in Nat \ {0}
    BY DEF Hundred
  <2> HIDE DEF x
  <2> QED
    BY <2>1, <2>2, <2>3, MoneyNear DEF x
<1> HIDE DEF m
<1>3. \A k \in K : f[k] \in Nat /\ f[k] = c[k] - c[k - 1]
  BY <1>1, <1>2
<1>4. K \in SUBSET (1 .. n) /\ \A k \in 0 .. n : c[k] \in Int
  BY <1>1
<1> HIDE DEF f
<1>5. SumFunctionOnSet(f, K) = c[n]
  BY <1>1, <1>3, <1>4, Telescope
<1>6. c[n] \in Nat
  BY <1>1
<1> QED
  BY <1>3, <1>5, <1>6 DEF n, c, f

\* An inclusive tax is a part of the price.
LEMMA InclusiveShare ==
  ASSUME NEW taxable \in Nat, NEW rate \in Nat
  PROVE  Inclusive(taxable, rate) \in Nat /\ Inclusive(taxable, rate) <= taxable
<1> DEFINE s == Hundred + rate
<1>1. s \in Nat \ {0} /\ rate <= s
  BY DEF Hundred
<1> HIDE DEF s
<1> QED
  BY <1>1, MoneyShare DEF Inclusive, s

\* The rates that are charged together.
LEMMA CombinedNat ==
  ASSUME NEW rules, Ruled(rules), NEW K \in SUBSET DOMAIN rules
  PROVE  CombinedRate(rules, K) \in Nat
<1> DEFINE f == [k \in K |-> rules[k].rate]
<1>1. IsFiniteSet(K)
  <2>1. IsFiniteSet(DOMAIN rules)
    BY RulesRated, FS_Interval
  <2> QED
    BY <2>1, FS_Subset
<1>2. \A k \in K : f[k] \in Nat
  BY RuleColumns DEF Ruled
<1>3. DOMAIN f = K
  OBVIOUS
<1> HIDE DEF f
<1>4. SumFunctionOnSet(f, K) \in Nat
  BY <1>1, <1>2, SumNat
<1> QED
  BY <1>3, <1>4, SumOver DEF CombinedRate, f

\* What rules charge, and what its parts are.
LEMMA ComputedTax ==
  ASSUME NEW rules, Ruled(rules), NEW K \in SUBSET DOMAIN rules, NEW taxable \in Nat
  PROVE  LET on == Charging(rules, K)
             tax == compute_from_profiles(taxable, rules, K)
             method == rules[Min(on)].method
         IN /\ on = {} => tax = NoTax
            /\ on # {} =>
                 /\ tax \in TaxRow
                 /\ tax.method = method
                 /\ tax.applied <=> tax.amount > 0
                 /\ tax.amount = IF method = "backward"
                                 THEN Inclusive(taxable, CombinedRate(rules, on))
                                 ELSE ChargeOnTop(taxable, rules, on, method)[Len(rules)]
                 /\ 2 * Parts(tax) <= 2 * tax.amount
                      + (IF method = "backward" THEN Cardinality(on) - 1 ELSE 0)
                 /\ (\A k \in on : HasParts(rules[k])) => Parts(tax) >= tax.amount
<1> DEFINE on == Charging(rules, K)
           tax == compute_from_profiles(taxable, rules, K)
           method == rules[Min(on)].method
           rate == CombinedRate(rules, on)
           amount == IF method = "backward" THEN Inclusive(taxable, rate)
                     ELSE ChargeOnTop(taxable, rules, on, method)[Len(rules)]
           chunk == Chunks(taxable, rules, on, method)
           part == [k \in on |-> allocate_chunk(rules[k], chunk[k])]
           cgst == [k \in on |-> part[k].cgst]
           sgst == [k \in on |-> part[k].sgst]
           igst == [k \in on |-> part[k].igst]
<1>1. tax = IF on = {} THEN NoTax
            ELSE [percent |-> rate, amount |-> amount, cgst |-> SumFunction(cgst),
                  sgst |-> SumFunction(sgst), igst |-> SumFunction(igst),
                  method |-> method, applied |-> amount > 0,
                  added |-> IF method = "backward" THEN 0 ELSE amount]
  BY DEF compute_from_profiles
<1>2. /\ on \in SUBSET DOMAIN rules /\ on \subseteq Int /\ IsFiniteSet(on)
      /\ \A k \in on : rules[k].rate > 0 /\ IsRule(rules[k])
  <2>1. IsFiniteSet(DOMAIN rules) /\ DOMAIN rules \subseteq Int
    BY RulesRated, FS_Interval
  <2> QED
    BY <2>1, FS_Subset DEF Charging, Ruled
<1> HIDE DEF on, tax
<1>3. SUFFICES ASSUME on # {}
               PROVE  /\ tax \in TaxRow
                      /\ tax.method = method
                      /\ tax.applied <=> tax.amount > 0
                      /\ tax.amount = amount
                      /\ 2 * Parts(tax) <= 2 * tax.amount
                           + (IF method = "backward" THEN Cardinality(on) - 1 ELSE 0)
                      /\ (\A k \in on : HasParts(rules[k])) => Parts(tax) >= tax.amount
  BY <1>1 DEF on, tax
<1>4. method \in Method
  <2>1. \E x \in on : \A y \in on : x <= y
    BY <1>2, <1>3, Extremes
  <2>2. Min(on) \in on
    BY <2>1 DEF Min
  <2> QED
    BY <1>2, <2>2, RuleColumns
<1> HIDE DEF method
<1>5. rate \in Nat
  BY <1>2, CombinedNat
<1> DEFINE paid == [k \in on |-> Positive(chunk[k])]
           sum == SumFunctionOnSet(paid, on)
           spare == IF method = "backward" THEN Cardinality(on) - 1 ELSE 0
<1>6. /\ amount \in Nat /\ \A k \in on : chunk[k] \in Int
      /\ sum \in Int /\ amount <= sum /\ 2 * sum <= 2 * amount + spare
  <2>1. CASE method = "backward"
    <3> DEFINE a == Inclusive(taxable, rate)
    <3>1. a \in Nat
      <4> HIDE DEF rate
      <4> QED
        BY <1>5, InclusiveShare
    <3>2. chunk = split_amounts(rules, on, a, CombinedRate(rules, on)) /\ amount = a
      BY <2>1 DEF Chunks
    <3> HIDE DEF a, chunk, amount, rate
    <3>3. /\ \A k \in on : chunk[k] \in Int
          /\ sum \in Int /\ a <= sum /\ 2 * sum <= 2 * a + (Cardinality(on) - 1)
      BY <1>2, <1>3, <3>1, <3>2, SharesAddUp
    <3> QED
      BY <2>1, <3>1, <3>2, <3>3
  <2>2. CASE method # "backward"
    <3> DEFINE c == ChargeOnTop(taxable, rules, on, method)
               f == [k \in on |-> c[k] - c[k - 1]]
    <3>1. /\ \A k \in on : f[k] \in Nat
          /\ c[Len(rules)] \in Nat /\ SumFunctionOnSet(f, on) = c[Len(rules)]
      BY <1>2, OnTopAddsUp
    <3>2. chunk = f /\ amount = c[Len(rules)]
      BY <2>2 DEF Chunks
    <3> HIDE DEF c, f, chunk, amount
    <3>3. \A k \in on : paid[k] = f[k]
      BY <3>1, <3>2 DEF Positive
    <3>4. sum = SumFunctionOnSet(f, on)
      <4> HIDE DEF paid
      <4> QED
        BY <1>2, <3>3, SumSame
    <3> QED
      BY <2>2, <3>1, <3>2, <3>4
  <2> QED
    BY <2>1, <2>2
<1> HIDE DEF amount, chunk, rate
<1>7. ASSUME NEW k \in on
      PROVE  /\ cgst[k] \in Nat /\ sgst[k] \in Nat /\ igst[k] \in Nat
             /\ cgst[k] + sgst[k] + igst[k] =
                  IF chunk[k] > 0 /\ HasParts(rules[k]) THEN chunk[k] ELSE 0
  <2> DEFINE p == rules[k]
             x == chunk[k]
             q == allocate_chunk(p, x)
  <2>1. x \in Int /\ IsRule(p) /\ p.rate > 0
    BY <1>2, <1>6
  <2>2. cgst[k] = q.cgst /\ sgst[k] = q.sgst /\ igst[k] = q.igst
    OBVIOUS
  <2> HIDE DEF p, x, cgst, sgst, igst
  <2>3. /\ q.cgst \in Nat /\ q.sgst \in Nat /\ q.igst \in Nat
        /\ q.cgst + q.sgst + q.igst
             = IF p.rate > 0 /\ x > 0 /\ p.cgst + p.sgst + p.igst > 0 THEN x ELSE 0
    BY <2>1, PartsOfChunk
  <2> QED
    BY <2>1, <2>2, <2>3 DEF HasParts, p, x
<1> DEFINE both == [k \in on |-> cgst[k] + sgst[k]]
           all == [k \in on |-> both[k] + igst[k]]
<1>8. /\ SumFunction(cgst) \in Nat /\ SumFunction(sgst) \in Nat /\ SumFunction(igst) \in Nat
      /\ SumFunctionOnSet(all, on) = SumFunction(cgst) + SumFunction(sgst) + SumFunction(igst)
  <2>1. DOMAIN cgst = on /\ DOMAIN sgst = on /\ DOMAIN igst = on
    OBVIOUS
  <2> HIDE DEF cgst, sgst, igst
  <2>2. \A k \in on : /\ cgst[k] \in Nat /\ sgst[k] \in Nat /\ igst[k] \in Nat
                      /\ both[k] = cgst[k] + sgst[k] /\ both[k] \in Int
                      /\ all[k] = both[k] + igst[k]
    BY <1>7
  <2> HIDE DEF both, all
  <2>3. SumFunctionOnSet(all, on) = SumFunctionOnSet(both, on) + SumFunctionOnSet(igst, on)
    BY <1>2, <2>2, SumPlus
  <2>4. SumFunctionOnSet(both, on) = SumFunctionOnSet(cgst, on) + SumFunctionOnSet(sgst, on)
    BY <1>2, <2>2, SumPlus
  <2>5. /\ SumFunctionOnSet(cgst, on) \in Nat /\ SumFunctionOnSet(sgst, on) \in Nat
        /\ SumFunctionOnSet(igst, on) \in Nat
    BY <1>2, <2>2, SumNat
  <2>6. /\ SumFunction(cgst) = SumFunctionOnSet(cgst, on)
        /\ SumFunction(sgst) = SumFunctionOnSet(sgst, on)
        /\ SumFunction(igst) = SumFunctionOnSet(igst, on)
    BY <2>1, SumOver
  <2> QED
    BY <2>3, <2>4, <2>5, <2>6
<1>9. \A k \in on : /\ all[k] \in Int /\ paid[k] \in Int /\ all[k] <= paid[k]
                    /\ HasParts(rules[k]) => all[k] = paid[k]
  <2> TAKE k \in on
  <2>1. all[k] = IF chunk[k] > 0 /\ HasParts(rules[k]) THEN chunk[k] ELSE 0
    <3> HIDE DEF cgst, sgst, igst
    <3> QED
      BY <1>7
  <2>2. paid[k] = Positive(chunk[k]) /\ chunk[k] \in Int
    BY <1>6
  <2> HIDE DEF all, paid
  <2> QED
    BY <2>1, <2>2 DEF Positive
<1> DEFINE parts == SumFunctionOnSet(all, on)
<1>10. parts <= sum /\ ((\A k \in on : HasParts(rules[k])) => parts = sum)
  <2> HIDE DEF all, paid
  <2>1. parts <= sum
    BY <1>2, <1>9, SumMonotone
  <2>2. ASSUME \A k \in on : HasParts(rules[k])
        PROVE  parts = sum
    <3>1. \A k \in on : all[k] = paid[k]
      BY <1>9, <2>2
    <3> QED
      BY <1>2, <3>1, SumSame
  <2> QED
    BY <2>1, <2>2
<1> DEFINE c == SumFunction(cgst)
           s == SumFunction(sgst)
           i == SumFunction(igst)
<1>11. tax = [percent |-> rate, amount |-> amount, cgst |-> c, sgst |-> s, igst |-> i,
              method |-> method, applied |-> amount > 0,
              added |-> IF method = "backward" THEN 0 ELSE amount]
  BY <1>1, <1>3
<1>12. c \in Nat /\ s \in Nat /\ i \in Nat /\ parts = c + s + i
  BY <1>8
<1> HIDE DEF c, s, i, parts, sum, spare
<1>13. /\ tax \in TaxRow /\ tax.method = method /\ tax.amount = amount
       /\ tax.applied <=> tax.amount > 0
  <2>1. (amount > 0) \in BOOLEAN
    BY <1>6
  <2> QED
    BY <1>4, <1>5, <1>6, <1>11, <1>12, <2>1 DEF TaxRow
<1>14. Parts(tax) = parts /\ parts \in Int
  BY <1>11, <1>12 DEF Parts
<1>15. 2 * Parts(tax) <= 2 * amount + spare
  <2>1. spare \in Int
    BY <1>2, FS_CardinalityType DEF spare
  <2> QED
    BY <1>6, <1>10, <1>14, <2>1
<1>16. (\A k \in on : HasParts(rules[k])) => Parts(tax) >= amount
  BY <1>6, <1>10, <1>14
<1> QED
  BY <1>13, <1>15, <1>16 DEF spare

\* An exclusive tax is within half a paisa a rule of the exact one.
LEMMA ForwardNear ==
  ASSUME NEW rules, Ruled(rules), NEW K \in SUBSET DOMAIN rules, NEW taxable \in Nat
  PROVE  LET amount == ChargeOnTop(taxable, rules, K, "forward")[Len(rules)]
             exact == taxable * CombinedRate(rules, K)
             spare == Hundred * Cardinality(K)
         IN 2 * (Hundred * amount) <= 2 * exact + spare /\ 2 * exact - spare <= 2 * (Hundred * amount)
<1> DEFINE n == Len(rules)
           c == ChargeOnTop(taxable, rules, K, "forward")
           f == [k \in K |-> c[k] - c[k - 1]]
           rate == [k \in K |-> rules[k].rate]
<1>1. Charged(c, rules, K, taxable, "forward")
  BY RulesRated, ChargedStep
<1>2. SumFunctionOnSet(f, K) = c[n]
  BY OnTopAddsUp
<1> HIDE DEF c
<1>3. \A k \in K : rate[k] \in Nat /\ f[k] = money(taxable * rate[k], Hundred)
  <2> TAKE k \in K
  <2>1. rules[k].rate \in Nat
    BY RuleColumns DEF Ruled
  <2> DEFINE m == money(taxable * rules[k].rate, Hundred)
  <2>2. m \in Nat
    <3> DEFINE x == taxable * rules[k].rate
    <3>1. x \in Nat /\ Hundred \in Nat \ {0}
      BY <2>1 DEF Hundred
    <3> HIDE DEF x
    <3> QED
      BY <3>1, MoneyNear DEF x
  <2>3. c[k] = c[k - 1] + m /\ c[k - 1] \in Nat
    BY <1>1 DEF Charged
  <2> HIDE DEF m
  <2> QED
    BY <2>1, <2>2, <2>3 DEF m
<1>4. IsFiniteSet(K)
  <2>1. IsFiniteSet(DOMAIN rules)
    BY RulesRated, FS_Interval
  <2> QED
    BY <2>1, FS_Subset
<1>5. DOMAIN rate = K
  OBVIOUS
<1> HIDE DEF f, rate
<1>6. Hundred \in Nat \ {0}
  BY DEF Hundred
<1>7. LET x == Hundred * SumFunctionOnSet(f, K)
          y == taxable * SumFunctionOnSet(rate, K)
          z == Hundred * Cardinality(K)
      IN 2 * x <= 2 * y + z /\ 2 * y - z <= 2 * x
  BY <1>3, <1>4, <1>6, RoundedSums
<1>8. CombinedRate(rules, K) = SumFunctionOnSet(rate, K)
  BY <1>5, SumOver DEF CombinedRate, rate
<1> QED
  BY <1>2, <1>7, <1>8 DEF c, n

\* Tax on tax is no less than tax on the price alone.
LEMMA TaxOnTaxMore ==
  ASSUME NEW rules, Ruled(rules), NEW K \in SUBSET DOMAIN rules, NEW taxable \in Nat
  PROVE  ChargeOnTop(taxable, rules, K, "forward")[Len(rules)]
           <= ChargeOnTop(taxable, rules, K, "tax_on_tax")[Len(rules)]
<1> DEFINE n == Len(rules)
           c == ChargeOnTop(taxable, rules, K, "forward")
           d == ChargeOnTop(taxable, rules, K, "tax_on_tax")
           P == {k \in 0 .. n : c[k] <= d[k]}
<1>1. Rated(rules)
  BY RulesRated
<1>2. Charged(c, rules, K, taxable, "forward")
  BY <1>1, ChargedStep
<1>3. Charged(d, rules, K, taxable, "tax_on_tax")
  BY <1>1, ChargedStep
<1> HIDE DEF c, d
<1>4. n \in Nat /\ 0 \in P
  BY <1>2, <1>3 DEF Charged
<1>5. ASSUME NEW k \in 1 .. n, k - 1 \in P
      PROVE  k \in P
  <2>1. c[k - 1] \in Nat /\ d[k - 1] \in Nat /\ c[k - 1] <= d[k - 1] /\ k \in 0 .. n
    BY <1>2, <1>3, <1>4, <1>5 DEF Charged
  <2>2. CASE k \notin K
    <3>1. c[k] = c[k - 1] /\ d[k] = d[k - 1]
      BY <1>2, <1>3, <2>2 DEF Charged
    <3> QED
      BY <2>1, <3>1
  <2>3. CASE k \in K
    <3> DEFINE r == rules[k].rate
               x == taxable * r
               y == (taxable + d[k - 1]) * r
    <3>1. r \in Nat
      BY <1>1, <2>3 DEF Rated
    <3>2. c[k] = c[k - 1] + money(x, Hundred) /\ d[k] = d[k - 1] + money(y, Hundred)
      BY <1>2, <1>3, <2>3 DEF Charged
    <3> HIDE DEF r
    <3>3. x \in Nat /\ y \in Nat /\ x <= y /\ Hundred \in Nat \ {0}
      <4>1. y = x + d[k - 1] * r /\ d[k - 1] * r \in Nat /\ x \in Nat
        BY <2>1, <3>1
      <4> HIDE DEF x, y
      <4> QED
        BY <4>1 DEF Hundred
    <3> HIDE DEF x, y
    <3>4. /\ money(x, Hundred) \in Nat /\ money(y, Hundred) \in Nat
          /\ money(x, Hundred) <= money(y, Hundred)
      BY <3>3, MoneyNear, MoneyMonotone
    <3> QED
      BY <2>1, <3>2, <3>4
  <2> QED
    BY <2>2, <2>3
<1>6. P \in SUBSET (0 .. n)
  OBVIOUS
<1> HIDE DEF P
<1>7. P = 0 .. n
  BY <1>4, <1>5, <1>6, UpTo
<1>8. n \in P
  BY <1>4, <1>7
<1> QED
  BY <1>8 DEF P, c, d, n

\* The tax on what an inclusive price is without its tax is that tax, to the
\* paisa and one more for every 200 % of the rate.
LEMMA InclusiveNear ==
  ASSUME NEW taxable \in Nat, NEW rate \in Nat
  PROVE  LET net == taxable - Inclusive(taxable, rate)
             near == 1 + rate \div (2 * Hundred)
         IN net + money(net * rate, Hundred) - taxable \in -near .. near
<1> DEFINE a == Inclusive(taxable, rate)
           net == taxable - a
           s == Hundred + rate
           p == taxable * rate
           q == net * rate
           m == money(q, Hundred)
           w == 2 * Hundred
           t == rate \div w
<1>1. a \in Nat /\ a <= taxable
  BY InclusiveShare
<1>2. p \in Nat /\ s \in Nat \ {0}
  BY DEF Hundred
<1>3. 2 * (s * a) <= 2 * p + s /\ 2 * p - s <= 2 * (s * a)
  <2>1. a = money(p, s)
    BY DEF Inclusive
  <2> HIDE DEF a, p, s
  <2> QED
    BY <1>2, <2>1, MoneyNear
<1> HIDE DEF a
<1>4. net \in Nat /\ q \in Nat
  <2>1. net \in Nat
    BY <1>1
  <2> HIDE DEF net
  <2> QED
    BY <2>1
<1>5. m \in Nat /\ 2 * (Hundred * m) <= 2 * q + Hundred /\ 2 * q - Hundred <= 2 * (Hundred * m)
  <2>1. Hundred \in Nat \ {0}
    BY DEF Hundred
  <2> HIDE DEF q
  <2> QED
    BY <1>4, <2>1, MoneyNear
<1>6. q = p - a * rate /\ s * a = Hundred * a + a * rate /\ a * rate \in Nat
  BY <1>1 DEF Hundred
<1>7. w \in Nat \ {0} /\ t \in Nat /\ rate < w * (t + 1)
  BY DEF Hundred
<1> DEFINE u == a * rate
           near == 1 + t
<1>8. /\ q = p - u /\ s * a = Hundred * a + u /\ u \in Nat
  BY <1>6
<1> HIDE DEF m, q, p, u
<1>9. /\ 2 * (Hundred * m) - 2 * (Hundred * a) <= 2 * Hundred + rate
      /\ 2 * (Hundred * a) - 2 * (Hundred * m) <= 2 * Hundred + rate
  BY <1>1, <1>2, <1>3, <1>4, <1>5, <1>8 DEF Hundred
<1>10. rate < 20000 * (t + 1) /\ t \in Nat
  BY <1>7 DEF Hundred
<1> HIDE DEF t, w
<1>11. m - a <= near /\ a - m <= near
  <2>1. 20000 * (m - a) <= 20000 + rate /\ 20000 * (a - m) <= 20000 + rate
    BY <1>1, <1>5, <1>9 DEF Hundred
  <2> QED
    BY <1>1, <1>5, <1>10, <2>1
<1>12. net + m - taxable = m - a
  BY <1>1, <1>5
<1>13. m - a \in -near .. near
  BY <1>1, <1>5, <1>10, <1>11
<1> QED
  BY <1>12, <1>13 DEF m, q, t, w, a

\* A rule on its own charges its rate of what it taxes, to half a paisa at most
\* more, by either method.
LEMMA SingleTax ==
  ASSUME NEW rules, Ruled(rules), NEW k \in DOMAIN rules, NEW base \in Nat
  PROVE  LET tax == compute_from_profiles(base, rules, {k})
         IN tax.amount \in Nat /\ 2 * (Hundred * tax.amount) <= 2 * (base * rules[k].rate) + Hundred
<1> DEFINE tax == compute_from_profiles(base, rules, {k})
           on == Charging(rules, {k})
           r == rules[k].rate
           x == tax.amount
           p == base * r
<1>1. r \in Nat /\ p \in Nat /\ {k} \in SUBSET DOMAIN rules
  <2>1. r \in Nat
    BY RuleColumns DEF Ruled
  <2> HIDE DEF r
  <2> QED
    BY <2>1
<1>2. on \in SUBSET {k}
  BY DEF Charging
<1>3. CASE on = {}
  <2>1. tax = NoTax
    BY <1>1, <1>3, ComputedTax
  <2>2. x = 0
    BY <2>1 DEF NoTax
  <2> HIDE DEF x, p
  <2> QED
    BY <1>1, <2>2 DEF Hundred, x, p
<1>4. CASE on = {k}
  <2> DEFINE method == rules[Min(on)].method
             c == ChargeOnTop(base, rules, on, method)
             a == Inclusive(base, CombinedRate(rules, on))
  <2>1. tax \in TaxRow /\ x = IF method = "backward" THEN a ELSE c[Len(rules)]
    BY <1>1, <1>4, ComputedTax
  <2>2. x \in Nat
    BY <2>1 DEF TaxRow
  <2> HIDE DEF x, method
  <2>3. CASE method = "backward"
    <3> DEFINE f == [j \in on |-> rules[j].rate]
               s == Hundred + r
    <3>1. CombinedRate(rules, on) = r
      <4>1. DOMAIN f = {k} /\ f[k] = r
        BY <1>4
      <4>2. CombinedRate(rules, on) = SumFunctionOnSet(f, {k})
        <5>1. DOMAIN f = {k} /\ CombinedRate(rules, on) = SumFunction(f)
          BY <1>4 DEF CombinedRate
        <5> HIDE DEF f
        <5> QED
          BY <5>1, SumOver
      <4> HIDE DEF f, r
      <4> QED
        BY <1>1, <4>1, <4>2, SumSingleton
    <3>2. x = money(p, s)
      BY <2>1, <2>3, <3>1 DEF Inclusive
    <3>3. s \in Nat \ {0} /\ s = Hundred + r
      BY <1>1 DEF Hundred
    <3> HIDE DEF p, s, r
    <3>4. 2 * (s * x) <= 2 * p + s
      BY <1>1, <3>2, <3>3, MoneyNear
    <3>5. s * x = Hundred * x + r * x /\ r * x \in Nat
      BY <1>1, <2>2, <3>3 DEF Hundred
    <3>6. x = 0 \/ r <= r * x
      <4>1. CASE x # 0
        <5> DEFINE y == x - 1
        <5>1. y \in Nat /\ x = y + 1
          BY <2>2, <4>1
        <5> HIDE DEF y
        <5>2. r * (y + 1) = r * y + r /\ r * y \in Nat
          BY <1>1, <5>1
        <5>3. r <= r * (y + 1)
          BY <1>1, <5>2
        <5> QED
          BY <5>1, <5>3
      <4> QED
        BY <4>1
    <3> DEFINE u == r * x
               v == Hundred * x
    <3>7. v \in Nat /\ s * x = v + u /\ u \in Nat /\ (x = 0 \/ r <= u) /\ (x = 0 => v = 0)
      BY <2>2, <3>5, <3>6 DEF Hundred
    <3> HIDE DEF u, v
    <3>8. 2 * v <= 2 * p + Hundred
      BY <1>1, <2>2, <3>3, <3>4, <3>7 DEF Hundred
    <3> QED
      BY <2>2, <3>8 DEF v, p, x, r
  <2>4. CASE method # "backward"
    <3> DEFINE n == Len(rules)
               f == [j \in on |-> c[j] - c[j - 1]]
               P == {j \in 0 .. n : j < k => c[j] = 0}
    <3>1. x = c[n] /\ on \in SUBSET DOMAIN rules
      BY <1>1, <1>4, <2>1, <2>4
    <3>2. SumFunctionOnSet(f, on) = c[n] /\ \A j \in on : f[j] \in Nat
      BY <3>1, OnTopAddsUp
    <3>3. Charged(c, rules, on, base, method)
      BY <3>1, RulesRated, ChargedStep
    <3> HIDE DEF c
    <3>4. n \in Nat /\ k \in 1 .. n /\ 0 \in P /\ P \in SUBSET (0 .. n)
      BY <3>3 DEF Charged
    <3>5. ASSUME NEW j \in 1 .. n, j - 1 \in P
          PROVE  j \in P
      <4>1. SUFFICES ASSUME j < k
                     PROVE  c[j] = 0
        BY <3>4
      <4>2. c[j - 1] = 0
        BY <3>4, <3>5, <4>1
      <4>3. j \in (1 .. n) \ on
        <5> HIDE DEF on, n
        <5> QED
          BY <1>4, <4>1
      <4> HIDE DEF P, on
      <4>4. c[j] = c[j - 1]
        BY <3>3, <4>3 DEF Charged
      <4> QED
        BY <4>2, <4>4
    <3> HIDE DEF P
    <3>6. P = 0 .. n
      BY <3>4, <3>5, UpTo
    <3>7. c[k - 1] = 0
      BY <3>4, <3>6 DEF P
    <3>8. f[k] = c[k] - c[k - 1] /\ k \in on /\ c[k] \in Nat
      <4>1. k \in on /\ k \in 0 .. n
        <5> HIDE DEF on, n
        <5> QED
          BY <1>4, <3>4
      <4>2. c[k] \in Nat
        BY <3>3, <4>1 DEF Charged
      <4> QED
        BY <4>1, <4>2
    <3> HIDE DEF f, on
    <3>9. x = f[k]
      <4>1. SumFunctionOnSet(f, on) = f[k]
        <5>1. f[k] \in Int
          BY <3>2, <3>8
        <5> QED
          BY <1>4, <5>1, SumSingleton
      <4> QED
        BY <3>1, <3>2, <4>1
    <3>10. x = money(p, Hundred)
      <4>1. c[k] = c[k - 1] + money((IF method = "tax_on_tax" THEN base + c[k - 1] ELSE base) * r,
                                    Hundred)
        BY <3>3, <3>8 DEF Charged
      <4>2. base + 0 = base
        OBVIOUS
      <4>3. c[k] = 0 + money(base * r, Hundred)
        BY <3>7, <4>1, <4>2
      <4>4. money(p, Hundred) \in Nat
        <5>1. Hundred \in Nat \ {0}
          BY DEF Hundred
        <5> HIDE DEF p
        <5> QED
          BY <1>1, <5>1, MoneyNear
      <4> QED
        BY <3>7, <3>8, <3>9, <4>3, <4>4
    <3>11. Hundred \in Nat \ {0}
      BY DEF Hundred
    <3> HIDE DEF p
    <3>12. 2 * (Hundred * x) <= 2 * p + Hundred
      BY <1>1, <3>10, <3>11, MoneyNear
    <3> QED
      BY <2>2, <3>12 DEF p, x
  <2> QED
    BY <2>3, <2>4
<1> QED
  BY <1>2, <1>3, <1>4

\* What a tax is worth decides whether it counts as applied.
Tax == {x \in TaxRow : x.applied <=> x.amount > 0}

\* Taxes put together: one that comes to nothing is left out, with its parts.
LEMMA MergedTax ==
  ASSUME NEW left \in Tax, NEW right \in Tax
  PROVE  LET both == merge_tax(left, right)
         IN /\ both \in Tax
            /\ both.amount = left.amount + right.amount
            /\ Parts(left) \in Int /\ Parts(right) \in Int
            /\ Parts(both) = IF right.amount = 0 THEN Parts(left)
                             ELSE IF left.amount = 0 THEN Parts(right)
                             ELSE Parts(left) + Parts(right)
<1> DEFINE both == merge_tax(left, right)
           sum == [left EXCEPT !.percent = left.percent + right.percent,
                               !.amount = left.amount + right.amount,
                               !.cgst = left.cgst + right.cgst, !.sgst = left.sgst + right.sgst,
                               !.igst = left.igst + right.igst, !.added = left.added + right.added]
<1>1. /\ left \in TaxRow /\ right \in TaxRow
      /\ left.amount \in Nat /\ right.amount \in Nat
      /\ left.applied <=> left.amount > 0
      /\ right.applied <=> right.amount > 0
  BY DEF Tax, TaxRow
<1>2. both = IF ~ right.applied THEN left ELSE IF ~ left.applied THEN right ELSE sum
  BY <1>1 DEF merge_tax, TaxRow
<1>3. Parts(left) \in Int /\ Parts(right) \in Int
  BY <1>1 DEF TaxRow, Parts
<1>4. /\ sum \in TaxRow /\ sum.amount = left.amount + right.amount /\ sum.applied = left.applied
      /\ Parts(sum) = Parts(left) + Parts(right)
  <2>1. /\ left.percent \in Nat /\ left.added \in Nat /\ right.percent \in Nat /\ right.added \in Nat
        /\ left.cgst \in Nat /\ left.sgst \in Nat /\ left.igst \in Nat
        /\ right.cgst \in Nat /\ right.sgst \in Nat /\ right.igst \in Nat
    BY <1>1 DEF TaxRow
  <2>2. sum \in TaxRow
    <3> DEFINE p == left.percent + right.percent
               a == left.amount + right.amount
               x == left.cgst + right.cgst
               y == left.sgst + right.sgst
               z == left.igst + right.igst
               e == left.added + right.added
    <3>1. p \in Nat /\ a \in Nat /\ x \in Nat /\ y \in Nat /\ z \in Nat /\ e \in Nat
      BY <1>1, <2>1
    <3> HIDE DEF p, a, x, y, z, e
    <3>2. [left EXCEPT !.percent = p, !.amount = a, !.cgst = x, !.sgst = y, !.igst = z, !.added = e]
            \in TaxRow
      BY <1>1, <3>1 DEF TaxRow
    <3> QED
      BY <3>2 DEF p, a, x, y, z, e
  <2>3. /\ sum.amount = left.amount + right.amount /\ sum.applied = left.applied
        /\ sum.cgst = left.cgst + right.cgst /\ sum.sgst = left.sgst + right.sgst
        /\ sum.igst = left.igst + right.igst
    BY <1>1 DEF TaxRow
  <2> HIDE DEF sum
  <2> QED
    BY <2>1, <2>2, <2>3 DEF Parts
<1> HIDE DEF both, sum
<1>5. CASE ~ right.applied
  BY <1>1, <1>2, <1>3, <1>5 DEF both
<1>6. CASE right.applied /\ ~ left.applied
  BY <1>1, <1>2, <1>3, <1>6 DEF both
<1>7. CASE right.applied /\ left.applied
  <2>1. both = sum
    BY <1>2, <1>7
  <2>2. both \in Tax
    <3>1. sum.amount > 0
      BY <1>1, <1>4, <1>7
    <3>2. sum.applied
      BY <1>4, <1>7
    <3> QED
      BY <1>4, <2>1, <3>1, <3>2 DEF Tax
  <2> QED
    BY <1>1, <1>3, <1>4, <1>7, <2>1, <2>2 DEF both
<1> QED
  BY <1>5, <1>6, <1>7

\* What any rules charge on a price is a tax.
LEMMA ComputedIsTax ==
  ASSUME NEW rules, Ruled(rules), NEW K \in SUBSET DOMAIN rules, NEW taxable \in Nat
  PROVE  compute_from_profiles(taxable, rules, K) \in Tax
<1> DEFINE tax == compute_from_profiles(taxable, rules, K)
<1>1. CASE Charging(rules, K) = {}
  <2>1. tax = NoTax
    BY <1>1, ComputedTax
  <2>2. NoTax \in Tax
    BY DEF NoTax, Tax, TaxRow, Method
  <2> QED
    BY <2>1, <2>2
<1>2. CASE Charging(rules, K) # {}
  <2>1. tax \in TaxRow /\ (tax.applied <=> tax.amount > 0)
    BY <1>2, ComputedTax
  <2> HIDE DEF tax
  <2>2. tax \in Tax
    BY <2>1 DEF Tax
  <2> QED
    BY <2>2 DEF tax
<1> QED
  BY <1>1, <1>2

\* t is the tax of a bill, rule after rule: first, and at each rule for dishes
\* what it charges besides.
Merging(t, n, first, right, ofDishes) ==
  /\ t[0] = first
  /\ \A k \in (1 .. n) \ ofDishes : t[k] = t[k - 1]
  /\ \A k \in ofDishes : t[k] = merge_tax(t[k - 1], right[k])

\* Of the rules that charge, those for dishes, and GST.
OfDishes(rules, on) == {k \in on : rules[k].scheme # "gst" /\ rules[k].dishes # {}}

OfGst(rules, on) == {k \in on : rules[k].scheme = "gst"}

\* The tax of a bill, rule after rule.
LEMMA BillUnfolded ==
  ASSUME NEW rules, Ruled(rules), NEW K \in SUBSET DOMAIN rules, NEW taxable \in Nat,
         NEW lines, \A k \in K : RuleBase(rules[k], lines) \in Nat
  PROVE  LET n == Len(rules)
             on == Charging(rules, K)
             first == compute_from_profiles(taxable, rules, OfGst(rules, on))
             right == [k \in on |-> compute_from_profiles(RuleBase(rules[k], lines), rules, {k})]
         IN \E t \in [0 .. n -> Tax] :
              /\ Merging(t, n, first, right, OfDishes(rules, on))
              /\ compute_for_bill(taxable, lines, rules, K) = t[n]
<1> DEFINE n == Len(rules)
           on == Charging(rules, K)
           D == OfDishes(rules, on)
           first == compute_from_profiles(taxable, rules, OfGst(rules, on))
           charge(k) == compute_from_profiles(RuleBase(rules[k], lines), rules, {k})
           right == [k \in on |-> charge(k)]
           Up(k, before) == IF k \notin D THEN before ELSE merge_tax(before, charge(k))
           Step(c) == [k \in 0 .. n |-> IF k = 0 THEN first ELSE Up(k, c[k - 1])]
           s == [k \in 1 .. n |-> [before \in Tax |-> Up(k, before)]]
           t == CHOOSE d : d = Step(d)
<1>1. compute_for_bill(taxable, lines, rules, K) = t[n]
  BY DEF compute_for_bill, OfDishes, OfGst
<1>2. n \in Nat /\ DOMAIN rules = 1 .. n /\ on \in SUBSET K /\ D \in SUBSET on
  BY RulesRated DEF Charging, OfDishes
<1>3. first \in Tax
  <2>1. OfGst(rules, on) \in SUBSET DOMAIN rules
    BY <1>2 DEF OfGst
  <2> QED
    BY <2>1, ComputedIsTax
<1>4. \A k \in D : charge(k) \in Tax
  <2> TAKE k \in D
  <2>1. {k} \in SUBSET DOMAIN rules /\ RuleBase(rules[k], lines) \in Nat
    BY <1>2
  <2> QED
    BY <2>1, ComputedIsTax
<1> HIDE DEF first, charge, on, D, n
<1>5. \A k \in 1 .. n, before \in Tax : Up(k, before) \in Tax
  BY <1>4, MergedTax
<1> HIDE DEF Up
<1>6. s \in [1 .. n -> [Tax -> Tax]]
  BY <1>5
<1>7. \A k \in 1 .. n, before \in Tax : s[k][before] = Up(k, before)
  OBVIOUS
<1> HIDE DEF s, t
<1>8. PICK g \in [0 .. n -> Tax] : Stepwise(g, first, n, s)
  BY <1>2, <1>3, <1>6, StepByStep
<1>9. g = Step(g)
  <2>1. Step(g)[0] = first /\ \A k \in 1 .. n : Step(g)[k] = Up(k, g[k - 1])
    BY <1>2
  <2>2. \A k \in 1 .. n : g[k - 1] \in Tax
    BY <1>2, <1>8
  <2>3. \A k \in 1 .. n : g[k] = Up(k, g[k - 1])
    BY <1>7, <1>8, <2>2 DEF Stepwise
  <2>4. g[0] = first
    BY <1>8 DEF Stepwise
  <2>5. DOMAIN g = 0 .. n /\ DOMAIN Step(g) = 0 .. n
    OBVIOUS
  <2>6. Step(g) = [k \in 0 .. n |-> Step(g)[k]] /\ g = [k \in 0 .. n |-> g[k]]
    OBVIOUS
  <2> HIDE DEF Step
  <2>7. \A k \in 0 .. n : g[k] = Step(g)[k]
    BY <1>2, <2>1, <2>3, <2>4
  <2> QED
    BY <2>6, <2>7
<1>10. t = Step(t)
  <2> HIDE DEF Step
  <2> QED
    BY <1>9 DEF t
<1>11. t[0] = first /\ \A k \in 1 .. n : t[k] = Up(k, t[k - 1])
  BY <1>2, <1>10
<1>12. t \in [0 .. n -> Tax]
  <2> DEFINE P == {k \in 0 .. n : t[k] \in Tax}
  <2>1. 0 \in P
    BY <1>2, <1>3, <1>11
  <2>2. ASSUME NEW k \in 1 .. n, k - 1 \in P
        PROVE  k \in P
    <3>1. t[k - 1] \in Tax
      BY <2>2
    <3>2. t[k] \in Tax
      BY <1>5, <1>11, <3>1
    <3> QED
      BY <1>2, <3>2
  <2>3. P \in SUBSET (0 .. n)
    OBVIOUS
  <2> HIDE DEF P
  <2>4. P = 0 .. n
    BY <1>2, <2>1, <2>2, <2>3, UpTo
  <2>5. DOMAIN t = 0 .. n
    BY <1>10
  <2>6. t = [k \in 0 .. n |-> t[k]]
    BY <1>10, <2>5
  <2> QED
    BY <2>4, <2>6 DEF P
<1>13. Merging(t, n, first, right, D)
  <2>1. \A k \in D : k \in 1 .. n /\ k \in on /\ right[k] = charge(k)
    BY <1>2
  <2> HIDE DEF right
  <2> QED
    BY <1>11, <2>1 DEF Merging, Up
<1> QED
  BY <1>1, <1>12, <1>13 DEF n, first, charge, on, D

\* What a rule for dishes adds: in its parts no more than it charges, and it
\* charges no more than its rate on what its dishes cost, to half a paisa.
LEMMA DishRuleTax ==
  ASSUME NEW rules, Ruled(rules), NEW K \in SUBSET DOMAIN rules, NEW k \in Charging(rules, K),
         NEW base \in Nat, NEW cost \in Nat, base <= cost
  PROVE  LET tax == compute_from_profiles(base, rules, {k})
         IN /\ tax \in Tax
            /\ 2 * Parts(tax) <= 2 * tax.amount
            /\ HasParts(rules[k]) => Parts(tax) >= tax.amount
            /\ 2 * Hundred * tax.amount <= 2 * rules[k].rate * cost + Hundred
<1> DEFINE tax == compute_from_profiles(base, rules, {k})
           on == Charging(rules, {k})
           r == rules[k].rate
<1>1. k \in DOMAIN rules /\ {k} \in SUBSET DOMAIN rules /\ on = {k}
  BY DEF Charging
<1>2. tax \in Tax
  BY <1>1, ComputedIsTax
<1>3. Cardinality(on) = 1
  BY <1>1, FS_Singleton
<1>4. /\ 2 * Parts(tax) <= 2 * tax.amount + (IF rules[Min(on)].method = "backward"
                                            THEN Cardinality(on) - 1 ELSE 0)
      /\ (\A j \in on : HasParts(rules[j])) => Parts(tax) >= tax.amount
  BY <1>1, ComputedTax
<1>5. tax.amount \in Nat /\ 2 * (Hundred * tax.amount) <= 2 * (base * r) + Hundred
  BY <1>1, SingleTax
<1>6. r \in Nat
  BY <1>1, RuleColumns DEF Ruled
<1> HIDE DEF tax, on, r
<1>7. 2 * Parts(tax) <= 2 * tax.amount
  BY <1>3, <1>4, <1>5
<1>8. 2 * Hundred * tax.amount <= 2 * r * cost + Hundred
  <2> DEFINE u == base * r
             v == cost * r
             x == tax.amount
  <2>1. u \in Nat /\ v \in Nat /\ u <= v
    BY <1>6
  <2>2. 2 * r * cost = 2 * v
    BY <1>6
  <2>3. x \in Nat /\ 2 * (Hundred * x) <= 2 * u + Hundred
    BY <1>5
  <2> HIDE DEF u, v, x
  <2>4. 2 * Hundred * x <= 2 * v + Hundred
    BY <2>1, <2>3 DEF Hundred
  <2> QED
    BY <2>2, <2>4 DEF x
<1> QED
  BY <1>1, <1>2, <1>4, <1>7, <1>8 DEF tax, r

\* What the taxes of a bill and their parts add up to.
LEMMA BillTax ==
  ASSUME NEW rules, Ruled(rules), NEW K \in SUBSET DOMAIN rules, NEW taxable \in Nat,
         NEW lines, NEW cost,
         \A k \in K : /\ cost[k] \in Nat
                      /\ RuleBase(rules[k], lines) \in Nat /\ RuleBase(rules[k], lines) <= cost[k]
  PROVE  LET on == Charging(rules, K)
             gst == OfGst(rules, on)
             first == compute_from_profiles(taxable, rules, gst)
             tax == compute_for_bill(taxable, lines, rules, K)
             spare == IF gst # {} /\ first.method = "backward" THEN Cardinality(gst) - 1 ELSE 0
             bound == [k \in on \ gst |-> 2 * rules[k].rate * cost[k] + Hundred]
         IN /\ 2 * Parts(tax) <= 2 * tax.amount + spare
            /\ (\A k \in on : HasParts(rules[k])) => Parts(tax) >= tax.amount
            /\ 2 * Hundred * (tax.amount - first.amount) <= SumFunctionOnSet(bound, on \ gst)
<1> DEFINE n == Len(rules)
           on == Charging(rules, K)
           gst == OfGst(rules, on)
           D == OfDishes(rules, on)
           first == compute_from_profiles(taxable, rules, gst)
           charge(k) == compute_from_profiles(RuleBase(rules[k], lines), rules, {k})
           right == [k \in on |-> charge(k)]
           tax == compute_for_bill(taxable, lines, rules, K)
           spare == IF gst # {} /\ first.method = "backward" THEN Cardinality(gst) - 1 ELSE 0
           bound == [k \in on \ gst |-> 2 * rules[k].rate * cost[k] + Hundred]
           whole == \A k \in on : HasParts(rules[k])
           Below(k) == {j \in D : j <= k}
           B(k) == SumFunctionOnSet(bound, Below(k))
<1>1. PICK t \in [0 .. n -> Tax] : Merging(t, n, first, right, D) /\ tax = t[n]
  BY BillUnfolded
<1>2. /\ n \in Nat /\ DOMAIN rules = 1 .. n /\ IsFiniteSet(on)
      /\ on \in SUBSET K /\ gst \in SUBSET on /\ D \in SUBSET (on \ gst)
  <2>1. IsFiniteSet(1 .. n) /\ n \in Nat /\ DOMAIN rules = 1 .. n
    BY RulesRated, FS_Interval
  <2>2. on \in SUBSET K
    BY DEF Charging
  <2>3. IsFiniteSet(on)
    BY <2>1, <2>2, FS_Subset
  <2> QED
    BY <2>1, <2>2, <2>3 DEF OfDishes, OfGst
<1>3. ASSUME NEW k \in D
      PROVE  /\ k \in on /\ right[k] = charge(k) /\ charge(k) \in Tax
             /\ 2 * Parts(charge(k)) <= 2 * charge(k).amount
             /\ HasParts(rules[k]) => Parts(charge(k)) >= charge(k).amount
             /\ 2 * Hundred * charge(k).amount <= bound[k]
  <2>1. k \in on /\ k \in K /\ k \in on \ gst
    BY <1>2
  <2> DEFINE base == RuleBase(rules[k], lines)
             y == 2 * rules[k].rate * cost[k] + Hundred
  <2>2. base \in Nat /\ cost[k] \in Nat /\ base <= cost[k]
    BY <2>1
  <2>3. bound[k] = y
    BY <2>1
  <2> HIDE DEF bound, base
  <2>4. /\ charge(k) \in Tax
        /\ 2 * Parts(charge(k)) <= 2 * charge(k).amount
        /\ HasParts(rules[k]) => Parts(charge(k)) >= charge(k).amount
        /\ 2 * Hundred * charge(k).amount <= y
    BY <2>1, <2>2, DishRuleTax DEF base
  <2> QED
    BY <2>1, <2>3, <2>4
<1>4. \A k \in on \ gst : bound[k] \in Nat
  <2> TAKE k \in on \ gst
  <2> DEFINE x == 2 * rules[k].rate * cost[k]
  <2>1. rules[k].rate \in Nat /\ cost[k] \in Nat
    BY <1>2, RuleColumns DEF Ruled
  <2>2. x \in Nat
    BY <2>1
  <2>3. bound[k] = x + Hundred
    OBVIOUS
  <2> HIDE DEF x, bound
  <2> QED
    BY <2>2, <2>3 DEF Hundred
<1>5. /\ first \in Tax /\ spare \in Nat
      /\ 2 * Parts(first) <= 2 * first.amount + spare
      /\ whole => Parts(first) >= first.amount
  <2>1. gst \in SUBSET DOMAIN rules /\ Charging(rules, gst) = gst
    BY <1>2 DEF OfGst, Charging
  <2>2. first \in Tax
    BY <2>1, ComputedIsTax
  <2>3. Cardinality(gst) \in Nat /\ (gst # {} => Cardinality(gst) > 0)
    <3>1. IsFiniteSet(gst)
      BY <1>2, FS_Subset
    <3> QED
      BY <3>1, FS_CardinalityType, FS_EmptySet
  <2>4. CASE gst = {}
    <3>1. first = NoTax
      BY <2>1, <2>4, ComputedTax
    <3>2. first.amount = 0 /\ Parts(first) = 0
      BY <3>1 DEF NoTax, Parts
    <3> HIDE DEF first, gst
    <3> QED
      BY <2>2, <2>4, <3>2
  <2>5. CASE gst # {}
    <3> DEFINE method == rules[Min(gst)].method
    <3>1. /\ first.method = method
          /\ 2 * Parts(first) <= 2 * first.amount
               + (IF method = "backward" THEN Cardinality(gst) - 1 ELSE 0)
          /\ (\A k \in gst : HasParts(rules[k])) => Parts(first) >= first.amount
      BY <2>1, <2>5, ComputedTax
    <3>2. whole => Parts(first) >= first.amount
      BY <1>2, <3>1
    <3> HIDE DEF first, gst, method, whole
    <3> QED
      BY <2>2, <2>3, <2>5, <3>1, <3>2
  <2> QED
    BY <2>4, <2>5
<1>6. \A k \in D : k \in 1 .. n /\ k \in Int
  BY <1>2
<1>7. \A k \in 0 .. n : IsFiniteSet(Below(k)) /\ Below(k) \subseteq on \ gst /\ B(k) \in Nat
  <2> TAKE k \in 0 .. n
  <2>1. IsFiniteSet(Below(k)) /\ Below(k) \subseteq on \ gst
    BY <1>2, FS_Subset
  <2>2. \A j \in Below(k) : bound[j] \in Nat
    BY <1>4, <2>1
  <2> HIDE DEF bound, Below
  <2> QED
    BY <2>1, <2>2, SumNat
<1> DEFINE P == {k \in 0 .. n :
                   /\ 2 * Parts(t[k]) <= 2 * t[k].amount + spare
                   /\ whole => Parts(t[k]) >= t[k].amount
                   /\ 2 * Hundred * (t[k].amount - first.amount) <= B(k)}
<1> HIDE DEF n, on, gst, D, first, charge, right, tax, spare, bound, whole
<1>8. 0 \in P
  <2>1. t[0] = first
    BY <1>1 DEF Merging
  <2>2. first.amount \in Nat
    BY <1>5 DEF Tax, TaxRow
  <2>3. 0 \in 0 .. n
    BY <1>2
  <2> HIDE DEF B
  <2>4. B(0) \in Nat
    BY <1>7, <2>3
  <2> QED
    BY <1>5, <2>1, <2>2, <2>3, <2>4 DEF Hundred
<1>9. ASSUME NEW k \in 1 .. n, k - 1 \in P
      PROVE  k \in P
  <2> DEFINE l == t[k - 1]
             r == charge(k)
             both == t[k]
             b == B(k - 1)
  <2>1. /\ l \in Tax /\ both \in Tax
        /\ 2 * Parts(l) <= 2 * l.amount + spare
        /\ whole => Parts(l) >= l.amount
        /\ 2 * Hundred * (l.amount - first.amount) <= b
        /\ k \in 0 .. n /\ k - 1 \in 0 .. n
    BY <1>1, <1>2, <1>9
  <2>2. CASE k \notin D
    <3>1. both = l
      BY <1>1, <2>2 DEF Merging
    <3>2. Below(k) = Below(k - 1)
      <4>1. \A j \in D : j <= k <=> j <= k - 1
        BY <1>6, <2>2
      <4> QED
        BY <4>1
    <3>3. B(k) = b
      BY <3>2
    <3> HIDE DEF B
    <3> QED
      BY <2>1, <3>1, <3>3
  <2>3. CASE k \in D
    <3>1. both = merge_tax(l, r)
      BY <1>1, <1>3, <2>3 DEF Merging
    <3>2. /\ k \in on /\ r \in Tax
          /\ 2 * Parts(r) <= 2 * r.amount
          /\ HasParts(rules[k]) => Parts(r) >= r.amount
          /\ 2 * Hundred * r.amount <= bound[k]
      BY <1>3, <2>3
    <3>3. B(k) = bound[k] + b
      <4>1. Below(k) = Below(k - 1) \cup {k} /\ k \notin Below(k - 1)
        <5>1. \A j \in D : j <= k <=> j <= k - 1 \/ j = k
          BY <1>6
        <5>2. k \notin Below(k - 1)
          OBVIOUS
        <5>3. \A j : j \in Below(k) <=> j \in Below(k - 1) \cup {k}
          BY <2>3, <5>1
        <5> QED
          BY <5>2, <5>3
      <4>2. \A j \in Below(k - 1) \cup {k} : bound[j] \in Int
        <5>1. Below(k - 1) \subseteq on \ gst /\ k \in on \ gst
          BY <1>2, <1>7, <2>1, <2>3
        <5> HIDE DEF Below
        <5>2. \A j \in Below(k - 1) \cup {k} : bound[j] \in Nat
          BY <1>4, <5>1
        <5> QED
          BY <5>2
      <4>3. IsFiniteSet(Below(k - 1))
        BY <1>7, <2>1
      <4> HIDE DEF Below
      <4> QED
        BY <4>1, <4>2, <4>3, SumAdd
    <3>4. b \in Nat /\ bound[k] \in Nat /\ first.amount \in Nat
      <4>1. k \in on \ gst
        BY <1>2, <2>3
      <4> QED
        BY <1>4, <1>5, <1>7, <2>1, <4>1 DEF Tax, TaxRow
    <3>5. /\ both.amount = l.amount + r.amount
          /\ Parts(l) \in Int /\ Parts(r) \in Int
          /\ Parts(both) = IF r.amount = 0 THEN Parts(l)
                           ELSE IF l.amount = 0 THEN Parts(r) ELSE Parts(l) + Parts(r)
      <4>1. l \in Tax /\ r \in Tax
        BY <2>1, <3>2
      <4> HIDE DEF l, r, both
      <4> QED
        BY <3>1, <4>1, MergedTax
    <3>6. l.amount \in Nat /\ r.amount \in Nat
      BY <2>1, <3>2 DEF Tax, TaxRow
    <3>7. whole => HasParts(rules[k])
      BY <3>2 DEF whole
    <3> HIDE DEF l, r, both, b, B
    <3>8. 2 * Parts(both) <= 2 * both.amount + spare
      BY <1>5, <2>1, <3>2, <3>5, <3>6
    <3>9. whole => Parts(both) >= both.amount
      BY <2>1, <3>2, <3>5, <3>6, <3>7
    <3>10. 2 * Hundred * (both.amount - first.amount) <= B(k)
      <4> DEFINE x == l.amount
                 y == r.amount
                 z == first.amount
                 u == bound[k]
      <4>1. /\ x \in Nat /\ y \in Nat /\ z \in Nat /\ u \in Nat /\ b \in Nat
            /\ 2 * Hundred * (x - z) <= b /\ 2 * Hundred * y <= u
            /\ both.amount = x + y /\ B(k) = u + b
        BY <2>1, <3>2, <3>3, <3>4, <3>5, <3>6
      <4> HIDE DEF x, y, z, u
      <4>2. 2 * Hundred * (x + y - z) <= u + b
        BY <4>1 DEF Hundred
      <4> QED
        BY <4>1, <4>2 DEF z
    <3> QED
      BY <2>1, <3>8, <3>9, <3>10 DEF both
  <2> QED
    BY <2>2, <2>3
<1>10. P \in SUBSET (0 .. n)
  OBVIOUS
<1> HIDE DEF P
<1>11. P = 0 .. n
  BY <1>2, <1>8, <1>9, <1>10, UpTo
<1>12. /\ 2 * Parts(tax) <= 2 * tax.amount + spare
       /\ whole => Parts(tax) >= tax.amount
       /\ 2 * Hundred * (tax.amount - first.amount) <= B(n)
  <2>1. n \in P
    BY <1>2, <1>11
  <2> QED
    BY <1>1, <2>1 DEF P
<1>13. B(n) <= SumFunctionOnSet(bound, on \ gst)
  <2>1. Below(n) \in SUBSET (on \ gst) /\ IsFiniteSet(on \ gst)
    <3>1. n \in 0 .. n
      BY <1>2
    <3>2. IsFiniteSet(on \ gst)
      BY <1>2, FS_Subset
    <3> QED
      BY <1>7, <3>1, <3>2
  <2> HIDE DEF Below
  <2> QED
    BY <1>4, <2>1, SumSubset
<1>14. 2 * Hundred * (tax.amount - first.amount) <= SumFunctionOnSet(bound, on \ gst)
  <2> DEFINE x == SumFunctionOnSet(bound, on \ gst)
             y == 2 * Hundred * (tax.amount - first.amount)
  <2>1. x \in Nat
    <3>1. IsFiniteSet(on \ gst)
      BY <1>2, FS_Subset
    <3> QED
      BY <1>4, <3>1, SumNat
  <2>2. B(n) \in Nat /\ y \in Int
    <3>1. n \in 0 .. n /\ t[n] \in Tax
      BY <1>1, <1>2
    <3>2. B(n) \in Nat
      BY <1>7, <3>1
    <3>3. tax.amount \in Nat /\ first.amount \in Nat
      BY <1>1, <1>5, <3>1 DEF Tax, TaxRow
    <3> HIDE DEF B
    <3> QED
      BY <3>2, <3>3 DEF Hundred
  <2>3. y <= B(n)
    BY <1>12
  <2> HIDE DEF x, y, B
  <2>4. y <= x
    BY <1>13, <2>1, <2>2, <2>3 DEF x
  <2> QED
    BY <2>4 DEF x, y
<1> QED
  BY <1>12, <1>14 DEF on, gst, first, tax, spare, bound, whole

\* What a rule for dishes taxes is no more than what its dishes cost: each line
\* counts with its share of the discounted order.
LEMMA DishBase ==
  ASSUME NEW d, d.line \in [Line -> LineRow], d.charge \in Nat,
         NEW taxable \in Nat, taxable <= Subtotal(d), NEW rule
  PROVE  LET lines == IF Subtotal(d) = 0 THEN {} ELSE LineTaxables(d, taxable)
             linked == {l \in Active(d) : d.line[l].dish \in rule.dishes}
             cost == SumFunction([l \in linked |-> line_total(d.line[l])])
         IN cost \in Nat /\ RuleBase(rule, lines) \in Nat /\ RuleBase(rule, lines) <= cost
<1> DEFINE sub == Subtotal(d)
           linked == {l \in Active(d) : d.line[l].dish \in rule.dishes}
           f == [l \in linked |-> line_total(d.line[l])]
           cost == SumFunction(f)
<1>1. IsFiniteSet(linked)
  BY PricingAssumption, FS_Subset DEF Active
<1>2. \A l \in linked : line_total(d.line[l]) \in Nat
  <2> TAKE l \in linked
  <2>1. d.line[l] \in LineRow
    BY DEF Active
  <2>2. d.line[l].each \in Nat /\ d.line[l].quantity \in Nat
    BY <2>1 DEF LineRow
  <2> QED
    BY <2>2 DEF line_total
<1>3. cost = SumFunctionOnSet(f, linked) /\ cost \in Nat
  <2>1. DOMAIN f = linked /\ \A l \in linked : f[l] \in Nat
    BY <1>2
  <2> HIDE DEF f, linked
  <2> QED
    BY <1>1, <2>1, SumOver, SumNat
<1>4. sub \in Nat
  BY SubtotalNat
<1>5. CASE sub = 0
  <2> DEFINE taxed == {line \in {} : line.dish \in rule.dishes}
             g == [line \in taxed |-> line.amount]
  <2>1. RuleBase(rule, {}) = SumFunction(g)
    BY DEF RuleBase
  <2>2. SumFunction(g) = SumFunctionOnSet(g, {})
    BY SumOver
  <2> HIDE DEF g
  <2>3. RuleBase(rule, {}) = 0
    BY <2>1, <2>2, SumEmpty
  <2> HIDE DEF cost
  <2> QED
    BY <1>3, <1>5, <2>3 DEF cost
<1>6. CASE sub # 0
  <2> DEFINE row(l) == [line |-> l, dish |-> d.line[l].dish,
                        amount |-> money(line_total(d.line[l]) * taxable, sub)]
             h == [l \in linked |-> row(l)]
             taxed == {line \in LineTaxables(d, taxable) : line.dish \in rule.dishes}
             g == [line \in taxed |-> line.amount]
             a == [l \in linked |-> money(line_total(d.line[l]) * taxable, sub)]
  <2>1. taxed = {h[l] : l \in linked}
    BY DEF LineTaxables
  <2>2. RuleBase(rule, LineTaxables(d, taxable)) = SumFunctionOnSet(g, taxed)
    <3>1. RuleBase(rule, LineTaxables(d, taxable)) = SumFunction(g)
      BY DEF RuleBase
    <3> QED
      BY <3>1, SumOver
  <2>3. \A l \in linked : h[l] \in taxed /\ g[h[l]] = a[l]
    BY <2>1
  <2>4. \A l, m \in linked : h[l] = h[m] => l = m
    OBVIOUS
  <2>5. \A l \in linked : a[l] \in Nat /\ a[l] <= f[l] /\ f[l] \in Nat
    <3> TAKE l \in linked
    <3> DEFINE x == line_total(d.line[l])
    <3>1. x \in Nat
      BY <1>2
    <3> HIDE DEF x, sub
    <3>2. money(x * taxable, sub) \in Nat /\ money(x * taxable, sub) <= x
      BY <1>4, <1>6, <3>1, MoneyShare DEF sub
    <3> QED
      BY <3>1, <3>2 DEF x
  <2> HIDE DEF h, g, a, f, linked, taxed
  <2>6. SumFunctionOnSet(g, taxed) = SumFunctionOnSet(a, linked)
    <3>1. \A l \in linked : a[l] \in Int
      BY <2>5
    <3> QED
      BY <1>1, <2>1, <2>3, <2>4, <3>1, SumReindex
  <2>7. SumFunctionOnSet(a, linked) \in Nat
    BY <1>1, <2>5, SumNat
  <2>8. SumFunctionOnSet(a, linked) <= SumFunctionOnSet(f, linked)
    <3>1. \A l \in linked : a[l] \in Int /\ f[l] \in Int /\ a[l] <= f[l]
      BY <2>5
    <3> QED
      BY <1>1, <3>1, SumMonotone
  <2>9. RuleBase(rule, LineTaxables(d, taxable)) \in Nat
        /\ RuleBase(rule, LineTaxables(d, taxable)) <= cost
    BY <1>3, <2>2, <2>6, <2>7, <2>8
  <2> QED
    BY <1>3, <1>6, <2>9 DEF f, linked
<1> QED
  BY <1>5, <1>6

\* The GST of an order, inclusive or not, is near the exact one.
LEMMA GstFits ==
  ASSUME Ruled(db.rules), TaxableNow \in Nat
  PROVE  GstNearExact
<1> DEFINE rules == db.rules
           gst == GstNow
           rate == CombinedRate(rules, gst)
           net == TaxableNow - GstTax.amount
           near == 1 + rate \div (2 * Hundred)
           spare == Hundred * Cardinality(gst)
           onTop == ChargeOnTop(TaxableNow, rules, gst, "forward")
           last == Len(rules)
<1>1. gst \in SUBSET DOMAIN rules /\ Charging(rules, gst) = gst
  BY DEF GstNow, RulesNow, Charging, matching_profiles
<1> HIDE DEF gst
<1>2. rate \in Nat
  BY <1>1, CombinedNat
<1>3. SUFFICES ASSUME gst # {}
               PROVE  /\ GstTax.method = "backward"
                           => net + money(net * rate, Hundred) - TaxableNow \in -near .. near
                      /\ GstTax.method = "forward" =>
                           2 * Hundred * GstTax.amount - 2 * TaxableNow * rate \in -spare .. spare
                      /\ GstTax.method = "tax_on_tax" => GstTax.amount >= onTop[last]
  BY DEF GstNearExact, InclusiveGst, gst
<1>4. /\ GstTax.method = rules[Min(gst)].method
      /\ GstTax.amount = IF GstTax.method = "backward" THEN Inclusive(TaxableNow, rate)
                         ELSE ChargeOnTop(TaxableNow, rules, gst, GstTax.method)[last]
      /\ GstTax.amount \in Nat
  <2> DEFINE tax == compute_from_profiles(TaxableNow, rules, gst)
             method == rules[Min(gst)].method
  <2>1. GstTax = tax
    BY DEF GstTax, gst
  <2>2. /\ tax.method = method /\ tax \in TaxRow
        /\ tax.amount = IF method = "backward" THEN Inclusive(TaxableNow, rate)
                        ELSE ChargeOnTop(TaxableNow, rules, gst, method)[last]
    BY <1>1, <1>3, ComputedTax
  <2>3. tax.amount \in Nat
    BY <2>2 DEF TaxRow
  <2> HIDE DEF tax, method
  <2> QED
    BY <2>1, <2>2, <2>3 DEF method
<1>5. GstTax.method = "backward" => net + money(net * rate, Hundred) - TaxableNow \in -near .. near
  <2> SUFFICES ASSUME GstTax.method = "backward"
               PROVE  net + money(net * rate, Hundred) - TaxableNow \in -near .. near
    OBVIOUS
  <2>1. GstTax.amount = Inclusive(TaxableNow, rate)
    BY <1>4
  <2> HIDE DEF rate
  <2> QED
    BY <1>2, <2>1, InclusiveNear
<1>6. GstTax.method = "forward" =>
        2 * Hundred * GstTax.amount - 2 * TaxableNow * rate \in -spare .. spare
  <2> SUFFICES ASSUME GstTax.method = "forward"
               PROVE  2 * Hundred * GstTax.amount - 2 * TaxableNow * rate \in -spare .. spare
    OBVIOUS
  <2> DEFINE amount == GstTax.amount
             exact == TaxableNow * rate
  <2>1. amount = onTop[last]
    BY <1>4
  <2>2. 2 * (Hundred * amount) <= 2 * exact + spare /\ 2 * exact - spare <= 2 * (Hundred * amount)
    BY <1>1, <2>1, ForwardNear
  <2>3. exact \in Nat /\ 2 * TaxableNow * rate = 2 * exact /\ amount \in Nat
    BY <1>2, <1>4
  <2>4. spare \in Nat
    <3>1. IsFiniteSet(gst)
      <4>1. IsFiniteSet(1 .. last) /\ DOMAIN rules = 1 .. last
        BY RulesRated, FS_Interval
      <4> HIDE DEF last
      <4> QED
        BY <1>1, <4>1, FS_Subset
    <3>2. Cardinality(gst) \in Nat
      BY <3>1, FS_CardinalityType
    <3> QED
      BY <3>2 DEF Hundred
  <2> HIDE DEF amount, exact, spare, rate
  <2>5. 2 * Hundred * amount - 2 * exact \in -spare .. spare
    BY <2>2, <2>3, <2>4 DEF Hundred
  <2> QED
    BY <2>3, <2>5 DEF amount
<1>7. GstTax.method = "tax_on_tax" => GstTax.amount >= onTop[last]
  <2> SUFFICES ASSUME GstTax.method = "tax_on_tax"
               PROVE  GstTax.amount >= onTop[last]
    OBVIOUS
  <2>1. GstTax.amount = ChargeOnTop(TaxableNow, rules, gst, "tax_on_tax")[last]
    BY <1>4
  <2>2. onTop[last] <= ChargeOnTop(TaxableNow, rules, gst, "tax_on_tax")[last]
    BY <1>1, TaxOnTaxMore
  <2>3. onTop[last] \in Nat
    BY <1>1, OnTopAddsUp
  <2> QED
    BY <1>4, <2>1, <2>2, <2>3
<1> QED
  BY <1>5, <1>6, <1>7

\* The tax of an order, its parts and what rules for dishes add to it.
LEMMA TaxFits ==
  ASSUME Ruled(db.rules), db.line \in [Line -> LineRow], db.charge \in Nat, TaxableNow \in Nat,
         TaxableNow <= Subtotal(db)
  PROVE  PartsOfTax /\ DishRulesOnlyTheirDishes
<1> DEFINE rules == db.rules
           K == matching_profiles(db, db.type)
           lines == IF Subtotal(db) = 0 THEN {} ELSE LineTaxables(db, TaxableNow)
           linked(k) == {l \in Active(db) : db.line[l].dish \in db.rules[k].dishes}
           cost == [k \in K |-> SumFunction([l \in linked(k) |-> line_total(db.line[l])])]
           tax == compute_for_bill(TaxableNow, lines, rules, K)
           spare == IF GstNow # {} /\ GstTax.method = "backward" THEN Cardinality(GstNow) - 1 ELSE 0
           rest == RulesNow \ GstNow
           bound == [k \in rest |-> 2 * rules[k].rate * cost[k] + Hundred]
<1>1. K \in SUBSET DOMAIN rules
  BY DEF matching_profiles
<1>2. \A k \in K : /\ cost[k] \in Nat
                   /\ RuleBase(rules[k], lines) \in Nat /\ RuleBase(rules[k], lines) <= cost[k]
  BY DishBase
<1>3. /\ RulesNow = Charging(rules, K) /\ GstNow = OfGst(rules, RulesNow)
      /\ GstTax = compute_from_profiles(TaxableNow, rules, GstNow)
      /\ tax = TaxOn(db, TaxableNow)
  BY DEF RulesNow, GstNow, GstTax, OfGst, TaxOn
<1>4. rest \subseteq K
  BY <1>3 DEF Charging
<1> HIDE DEF cost, K, lines
<1>5. /\ 2 * Parts(tax) <= 2 * tax.amount + spare
      /\ (\A k \in RulesNow : HasParts(rules[k])) => Parts(tax) >= tax.amount
      /\ 2 * Hundred * (tax.amount - GstTax.amount) <= SumFunctionOnSet(bound, rest)
  BY <1>1, <1>2, <1>3, BillTax
<1>6. PartsOfTax
  <2> HIDE DEF tax
  <2> QED
    BY <1>3, <1>5 DEF PartsOfTax, InclusiveGst, Parts, HasParts
<1>7. DishRulesOnlyTheirDishes
  <2> DEFINE same == [k \in RulesNow \ GstNow |->
                        2 * rules[k].rate * SumFunction([l \in linked(k) |-> line_total(db.line[l])])
                          + Hundred]
  <2>1. bound = same
    BY <1>4 DEF cost
  <2>2. SumFunction(same) = SumFunctionOnSet(bound, rest)
    <3>1. DOMAIN same = rest
      OBVIOUS
    <3> HIDE DEF same, rest
    <3> QED
      BY <2>1, <3>1, SumOver
  <2> HIDE DEF tax, bound, rest
  <2>3. 2 * Hundred * (TaxOn(db, TaxableNow).amount - GstTax.amount) <= SumFunction(same)
    BY <1>3, <1>5, <2>2
  <2> QED
    BY <2>3 DEF DishRulesOnlyTheirDishes
<1> QED
  BY <1>6, <1>7
-----------------------------------------------------------------------------
(* The requests *)

\* What the next request does to the tax of a bill, as TaxedBillStaysTaxed has it.
TaxKept ==
  (asked /\ db.bill.tax > 0 /\ db.bill.state = "open" /\ db'.line # db.line /\ made'["order"] # made["order"])
    => db'.bill.tax = TaxOn([db' EXCEPT !.line = Counted(db.line, db'.line)],
                            db'.bill.subtotal - db'.bill.discount).amount

\* A request leaves its rows and counts as one of its kind.
LEMMA CountedRequest ==
  ASSUME PricesInv, NEW kind \in {"menu", "tax", "order", "policy"}, NEW new, Request(kind, new)
  PROVE  /\ db' = new /\ DOMAIN made' = {"menu", "tax", "order", "policy"}
         /\ kind # "order" => made'["order"] = made["order"]
  BY DEF Request, PricesInv

\* Bills that are left alone, while the lines cost what they did.
LEMMA BillSame ==
  ASSUME NEW d, NEW e, NEW max, NEW given, NEW more, BillOK(d, max, given, more),
         e.bill = d.bill, e.charge = d.charge, e.line \in [Line -> LineRow],
         \A l \in Line : /\ e.line[l].state = d.line[l].state /\ e.line[l].each = d.line[l].each
                         /\ e.line[l].quantity = d.line[l].quantity
  PROVE  BillOK(e, max, given, more)
<1>1. Subtotal(e) = Subtotal(d)
  BY SubtotalSame
<1> QED
  BY <1>1 DEF BillOK

\* Rules that keep what they are and whether they are active.
LEMMA RulesSame ==
  ASSUME NEW rules, NEW new, NEW together, RulesOK(rules, together),
         DOMAIN new = DOMAIN rules, new = [k \in DOMAIN rules |-> new[k]],
         \A k \in DOMAIN rules : /\ IsRule(new[k])
                                 /\ new[k].scheme = rules[k].scheme
                                 /\ new[k].active = rules[k].active
  PROVE  RulesOK(new, together)
<1>1. DOMAIN rules = 1 .. Len(rules) /\ Len(rules) \in Nat
  BY DEF RulesOK, Ruled
<1>2. new \in Seq(Range(new))
  BY <1>1 DEF Range
<1>3. OneGst(rules) => OneGst(new)
  BY DEF OneGst, Gst
<1> QED
  BY <1>2, <1>3 DEF RulesOK, Ruled

\* The rows that a request about the menu does not edit.
LEMMA RestOfMenu ==
  ASSUME NEW d, DOMAIN d = OutletColumns
  PROVE  LET Rest(e) == /\ e.line = d.line /\ e.rules = d.rules
                          /\ e.bill = d.bill /\ e.charge = d.charge
         IN /\ \A c, n : Rest(create_category(d, c, n)) /\ Rest(update_category(d, c, n))
            /\ \A i, c, price, diet, sizes, toppings :
                 Rest(create_item(d, i, c, price, diet, sizes, toppings))
            /\ \A i, sizes, toppings : Rest(replace_item_modifiers(d, i, sizes, toppings))
            /\ \A i, c : Rest(MoveItem(d, i, c))
            /\ \A i, x : /\ Rest(SetDiet(d, i, x)) /\ Rest(SetAvailable(d, i, x))
                         /\ Rest(RepriceItem(d, i, x))
<1> DEFINE Rest(e) == /\ e.line = d.line /\ e.rules = d.rules
                          /\ e.bill = d.bill /\ e.charge = d.charge
<1>1. \A c, n : Rest(create_category(d, c, n)) /\ Rest(update_category(d, c, n))
  BY DEF create_category, update_category
<1>2. \A i, c, price, diet, sizes, toppings :
        Rest(create_item(d, i, c, price, diet, sizes, toppings))
  BY DEF create_item
<1>3. \A i, sizes, toppings : Rest(replace_item_modifiers(d, i, sizes, toppings))
  BY DEF replace_item_modifiers
<1>4. \A i, c : Rest(MoveItem(d, i, c))
  BY DEF MoveItem
<1>5. \A i, x : /\ Rest(SetDiet(d, i, x)) /\ Rest(SetAvailable(d, i, x))
                /\ Rest(RepriceItem(d, i, x))
  BY DEF SetDiet, SetAvailable, RepriceItem
<1> QED
  BY <1>1, <1>2, <1>3, <1>4, <1>5

\* Deleted dishes: the lines keep what they cost, the rules what they are.
LEMMA RestOfDeleted ==
  ASSUME NEW d, DOMAIN d = OutletColumns, NEW max, NEW given, NEW more,
         BillOK(d, max, given, more),
         NEW together, RulesOK(d.rules, together)
  PROVE  /\ \A gone : LET e == DeleteDishes(d, gone)
                      IN BillOK(e, max, given, more) /\ RulesOK(e.rules, together)
         /\ \A c : LET e == delete_category(d, c)
                   IN BillOK(e, max, given, more) /\ RulesOK(e.rules, together)
<1>1. ASSUME NEW gone
      PROVE  LET e == DeleteDishes(d, gone)
             IN BillOK(e, max, given, more) /\ RulesOK(e.rules, together)
  <2> DEFINE e == DeleteDishes(d, gone)
             lines == [l \in DOMAIN d.line |->
                         IF d.line[l].dish \in gone THEN [d.line[l] EXCEPT !.dish = "nothing"]
                         ELSE d.line[l]]
             rules == [k \in DOMAIN d.rules |->
                         [d.rules[k] EXCEPT !.dishes = d.rules[k].dishes \ gone]]
  <2>1. e.line = lines /\ e.rules = rules /\ e.bill = d.bill /\ e.charge = d.charge
    <3> DEFINE f == Detached(d, gone)
               g == Unruled(f, gone)
    <3>1. /\ DOMAIN f = OutletColumns /\ f.line = lines /\ f.rules = d.rules
          /\ f.bill = d.bill /\ f.charge = d.charge
      BY DEF Detached, OutletColumns
    <3> HIDE DEF f, lines
    <3>2. g.line = lines /\ g.rules = rules /\ g.bill = d.bill /\ g.charge = d.charge
      BY <3>1 DEF Unruled, OutletColumns
    <3>3. e = [g EXCEPT !.dish = [i \in Dish |-> IF i \in gone THEN "deleted" ELSE g.dish[i]]]
      BY DEF DeleteDishes, f
    <3> HIDE DEF g, e, rules
    <3> QED
      BY <3>2, <3>3
  <2>2. DOMAIN d.line = Line /\ d.line \in [Line -> LineRow]
    BY DEF BillOK
  <2>3. /\ lines \in [Line -> LineRow]
        /\ \A l \in Line : /\ lines[l].state = d.line[l].state /\ lines[l].each = d.line[l].each
                           /\ lines[l].quantity = d.line[l].quantity
    BY <2>2 DEF LineRow
  <2> HIDE DEF lines, e
  <2>4. BillOK(e, max, given, more)
    BY <2>1, <2>3, BillSame
  <2>5. \A k \in DOMAIN d.rules : /\ IsRule(rules[k])
                                  /\ rules[k].scheme = d.rules[k].scheme
                                  /\ rules[k].active = d.rules[k].active
    <3> TAKE k \in DOMAIN d.rules
    <3> DEFINE row == d.rules[k]
               left == row.dishes \ gone
    <3>1. /\ {"dishes", "scheme", "active"} \subseteq DOMAIN RuleColumn
          /\ RuleColumn["dishes"] = SUBSET TaxedDish
      BY DEF RuleColumn
    <3>2. IsRule(row)
      BY DEF RulesOK, Ruled
    <3>3. left \in SUBSET TaxedDish
      BY <3>1, <3>2 DEF IsRule, OfRule
    <3>4. rules[k] = [row EXCEPT !.dishes = left]
      OBVIOUS
    <3> HIDE DEF left, row, rules
    <3>5. LET new == [row EXCEPT !.dishes = left]
          IN IsRule(new) /\ new.scheme = row.scheme /\ new.active = row.active
      <4>1. "dishes" \in DOMAIN RuleColumn /\ left \in RuleColumn["dishes"]
        BY <3>1, <3>3
      <4>2. LET new == [row EXCEPT !["dishes"] = left]
            IN /\ IsRule(new)
               /\ \A b \in DOMAIN RuleColumn \ {"dishes"} : new[b] = row[b]
        BY <3>2, <4>1, EditedRule
      <4> QED
        BY <3>1, <4>2
    <3> QED
      BY <3>4, <3>5 DEF row
  <2>6. DOMAIN rules = DOMAIN d.rules /\ rules = [k \in DOMAIN d.rules |-> rules[k]]
    OBVIOUS
  <2> HIDE DEF rules
  <2>7. RulesOK(e.rules, together)
    BY <2>1, <2>5, <2>6, RulesSame
  <2> QED
    BY <2>4, <2>7 DEF e
<1>2. ASSUME NEW c
      PROVE  LET e == delete_category(d, c)
             IN BillOK(e, max, given, more) /\ RulesOK(e.rules, together)
  <2> DEFINE gone == {i \in LiveDishes(d) : d.under[i] = c}
             f == DeleteDishes(d, gone)
             e == delete_category(d, c)
  <2>1. BillOK(f, max, given, more) /\ RulesOK(f.rules, together)
    <3> HIDE DEF gone
    <3> QED
      BY <1>1
  <2>2. e = [f EXCEPT !.category[c] = "deleted"]
    BY DEF delete_category
  <2> HIDE DEF f, e
  <2>3. e.line = f.line /\ e.rules = f.rules /\ e.bill = f.bill /\ e.charge = f.charge
    BY <2>2
  <2>4. e.line \in [Line -> LineRow]
    BY <2>1, <2>3 DEF BillOK
  <2>5. BillOK(e, max, given, more)
    BY <2>1, <2>3, <2>4, BillSame
  <2> QED
    BY <2>1, <2>3, <2>5 DEF e
<1> QED
  BY <1>1, <1>2

\* Percentages are natural numbers.
LEMMA PercentNat ==
  ASSUME NEW x \in 0 .. Hundred
  PROVE  x \in Nat
  BY DEF Hundred

LEMMA PolicyMax ==
  ASSUME PricesInv
  PROVE  policy.max \in Nat
<1>1. policy.max \in 0 .. Hundred
  BY DEF PricesInv
<1> QED
  BY <1>1, PercentNat

\* A request about the menu keeps the invariant if the rows it leaves do.
LEMMA MenuStep ==
  ASSUME PricesInv, NEW new, MenuRequest(new), MenuOK(new, repriced),
         BillOK(new, policy.max, granted, beyond), RulesOK(new.rules, switched)
  PROVE  PricesInv' /\ TaxKept
<1>1. Request("menu", new) /\ UNCHANGED <<policy, repriced, switched, granted, beyond>>
  BY DEF MenuRequest
<1>2. /\ db' = new /\ DOMAIN made' = {"menu", "tax", "order", "policy"}
      /\ made'["order"] = made["order"]
  BY <1>1, CountedRequest
<1> QED
  BY <1>1, <1>2 DEF PricesInv, TaxKept

\* A request about the rules keeps the invariant if the rules it leaves do.
LEMMA TaxStep ==
  ASSUME PricesInv, NEW new, TaxRequest(new), NEW rules, new = [db EXCEPT !.rules = rules],
         RulesOK(rules, switched')
  PROVE  PricesInv' /\ TaxKept
<1>1. Request("tax", new) /\ UNCHANGED <<policy, repriced, granted, beyond>>
  BY DEF TaxRequest
<1>2. /\ db' = new /\ DOMAIN made' = {"menu", "tax", "order", "policy"}
      /\ made'["order"] = made["order"]
  BY <1>1, CountedRequest
<1>3. DOMAIN db = OutletColumns
  BY DEF PricesInv, MenuOK
<1>4. /\ DOMAIN new = OutletColumns /\ new.rules = rules
      /\ \A c \in OutletColumns \ {"rules"} : new[c] = db[c]
  BY <1>3 DEF OutletColumns
<1>5. /\ new.line = db.line /\ new.bill = db.bill /\ new.charge = db.charge /\ new.price = db.price /\ new.sizes = db.sizes
      /\ new.toppings = db.toppings /\ new.diet = db.diet
  BY <1>4 DEF OutletColumns
<1> HIDE DEF OutletColumns
<1>6. MenuOK(new, repriced)
  <2>1. MenuOK(db, repriced) /\ new.diet \in [Dish -> Diet] /\ DOMAIN new = OutletColumns
    BY <1>4, <1>5 DEF PricesInv, MenuOK
  <2> QED
    BY <1>5, <2>1, MenuSame
<1>7. BillOK(new, policy.max, granted, beyond)
  <2>1. BillOK(db, policy.max, granted, beyond)
    BY DEF PricesInv
  <2>2. new.line \in [Line -> LineRow]
    BY <1>5, <2>1 DEF BillOK
  <2> QED
    BY <1>5, <2>1, <2>2, BillSame
<1> QED
  BY <1>1, <1>2, <1>4, <1>6, <1>7 DEF PricesInv, TaxKept

\* A bill whose tax is that of the lines it counts.
LEMMA CountedTax ==
  ASSUME NEW e, DOMAIN e = OutletColumns, db' = e, NEW d,
         d.line = Counted(db.line, e.line),
         d.rules = e.rules, d.type = e.type, d.charge = e.charge,
         db.bill.tax > 0 /\ db.bill.state = "open" =>
           e.bill.tax = TaxOn(d, e.bill.subtotal - e.bill.discount).amount
  PROVE  TaxKept
<1> DEFINE f == [e EXCEPT !.line = Counted(db.line, e.line)]
           t == e.bill.subtotal - e.bill.discount
<1>1. f.line = Counted(db.line, e.line) /\ f.rules = e.rules /\ f.type = e.type /\ f.charge = e.charge
  BY DEF OutletColumns
<1> HIDE DEF f
<1>2. TaxOn(f, t) = TaxOn(d, t)
  BY <1>1, TaxSame
<1> QED
  BY <1>2 DEF TaxKept, f, t

\* A line that is added or changed: the open bill is computed again.
LEMMA LineStep ==
  ASSUME PricesInv, NEW l \in Line, NEW row \in LineRow, row.state # "none",
         LineRequest(WithLine(l, row))
  PROVE  PricesInv' /\ TaxKept
<1> DEFINE d == [db EXCEPT !.line[l] = row]
           e == WithLine(l, row)
           given == granted /\ Subtotal(e) >= Subtotal(db)
<1>1. /\ Request("order", e) /\ db.bill.state # "settled"
      /\ UNCHANGED <<policy, repriced, switched>> /\ granted' = given /\ beyond' = 0
  BY DEF LineRequest, StalingRequest, OrderRequest
<1>2. db' = e /\ DOMAIN made' = {"menu", "tax", "order", "policy"}
  BY <1>1, CountedRequest
<1>3. DOMAIN db = OutletColumns /\ db.line \in [Line -> LineRow] /\ db.charge \in Nat
  BY DEF PricesInv, MenuOK, BillOK
<1>4. /\ DOMAIN d = OutletColumns /\ d.line = [db.line EXCEPT ![l] = row]
      /\ \A c \in OutletColumns \ {"line"} : d[c] = db[c]
  BY <1>3 DEF OutletColumns
<1>5. /\ d.bill = db.bill /\ d.rules = db.rules /\ d.charge = db.charge
      /\ d.line \in [Line -> LineRow]
  BY <1>3, <1>4 DEF OutletColumns
<1>6. e = IF db.bill.state = "open" THEN Refreshed(d, "open") ELSE d
  BY <1>5 DEF WithLine, maybe_refresh_open_bill
<1> HIDE DEF d, e
<1>7. Subtotal(d) \in Nat /\ Subtotal(db) \in Nat
  BY <1>3, <1>5, SubtotalNat
<1>8. policy.max \in Nat /\ policy' = policy
  BY <1>1, PolicyMax
<1>9. /\ DOMAIN e = OutletColumns
      /\ \A c \in OutletColumns \ {"line", "bill"} : e[c] = db[c]
      /\ BillOK(e, policy.max, given, 0)
      /\ e.line = d.line
      /\ db.bill.tax > 0 /\ db.bill.state = "open" =>
           e.bill.tax = TaxOn(e, e.bill.subtotal - e.bill.discount).amount
  <2>1. CASE db.bill.state = "open"
    <3>1. e = Refreshed(d, "open")
      BY <1>6, <2>1
    <3>2. /\ d.bill.discount \in Nat /\ d.bill.percent \in Nat /\ d.bill.subtotal \in Nat
          /\ granted => /\ WithinCap(d.bill, policy.max) /\ d.bill.percent <= policy.max
                        /\ d.bill.subtotal <= Subtotal(db)
      BY <1>5, <2>1 DEF PricesInv, BillOK
    <3> DEFINE kept == granted /\ Subtotal(d) >= Subtotal(db)
    <3>3. kept => /\ WithinCap(d.bill, policy.max) /\ d.bill.percent <= policy.max
                  /\ d.bill.subtotal \in Nat /\ d.bill.subtotal <= Subtotal(d)
      BY <1>7, <3>2
    <3>4. kept \in BOOLEAN
      OBVIOUS
    <3> HIDE DEF kept
    <3>5. /\ DOMAIN e = OutletColumns
          /\ \A c \in OutletColumns \ {"bill"} : e[c] = d[c]
          /\ Subtotal(e) = Subtotal(d)
          /\ BillOK(e, policy.max, kept, 0)
          /\ d.bill.tax > 0 =>
               e.bill.tax = TaxOn(e, e.bill.subtotal - e.bill.discount).amount
      BY <1>3, <1>4, <1>5, <1>8, <3>1, <3>2, <3>3, <3>4, RefreshedRow
    <3>6. given = kept
      BY <3>5 DEF kept
    <3>7. e.line = d.line
      BY <3>5 DEF OutletColumns
    <3> QED
      BY <1>4, <1>5, <3>5, <3>6, <3>7
  <2>2. CASE db.bill.state # "open"
    <3>1. e = d /\ db.bill.state = "none"
      BY <1>1, <1>6, <2>2 DEF PricesInv, BillOK
    <3>2. ~ granted
      BY <3>1 DEF PricesInv, BillOK
    <3>3. BillOK(e, policy.max, given, 0)
      BY <1>5, <3>1, <3>2 DEF PricesInv, BillOK
    <3> QED
      BY <1>4, <1>5, <2>2, <3>1, <3>3
  <2> QED
    BY <2>1, <2>2
<1>10. e.rules = db.rules /\ MenuOK(e, repriced)
  <2>1. /\ e.rules = db.rules /\ e.price = db.price /\ e.sizes = db.sizes
        /\ e.toppings = db.toppings /\ e.diet = db.diet
    BY <1>9 DEF OutletColumns
  <2> QED
    BY <1>9, <2>1, MenuSame DEF PricesInv, MenuOK
<1>11. PricesInv'
  BY <1>1, <1>2, <1>8, <1>9, <1>10 DEF PricesInv
<1>12. TaxKept
  <2>1. NoLine.state = "none"
    BY DEF NoLine
  <2>2. \A k \in Line : e.line[k] = NoLine => db.line[k] = NoLine
    BY <1>3, <1>4, <1>9, <2>1
  <2>3. e.line = Counted(db.line, e.line)
    <3>1. e.line \in [Line -> LineRow]
      BY <1>5, <1>9
    <3> QED
      BY <2>2, <3>1 DEF Counted
  <2> QED
    BY <1>2, <1>9, <2>3, CountedTax
<1> QED
  BY <1>11, <1>12

\* A line that is removed: the open bill is computed again with it.
LEMMA RemoveStep ==
  ASSUME PricesInv, NEW l \in Line, RemoveLine(l)
  PROVE  PricesInv' /\ TaxKept
<1> DEFINE f == maybe_refresh_open_bill(db)
           e == [f EXCEPT !.line[l] = NoLine]
           cost == line_total(db.line[l])
           given == granted /\ Subtotal(e) >= Subtotal(db)
<1>1. /\ Request("order", e) /\ db.bill.state # "settled" /\ db.line[l].state = "active"
      /\ UNCHANGED <<policy, repriced, switched>> /\ granted' = given
      /\ beyond' = IF db.bill.state = "open" THEN cost ELSE 0
  BY DEF RemoveLine, StalingRequest, OrderRequest
<1>2. db' = e /\ DOMAIN made' = {"menu", "tax", "order", "policy"}
  BY <1>1, CountedRequest
<1>3. /\ DOMAIN db = OutletColumns /\ db.line \in [Line -> LineRow] /\ db.charge \in Nat
      /\ db.bill.subtotal \in Nat /\ db.bill.discount \in Nat /\ db.bill.percent \in Nat
      /\ db.bill.state \in {"none", "open", "settled"}
  BY DEF PricesInv, MenuOK, BillOK
<1>4. policy.max \in Nat /\ policy' = policy /\ Subtotal(db) \in Nat
  BY <1>1, <1>3, PolicyMax, SubtotalNat
<1>5. /\ DOMAIN f = OutletColumns
      /\ \A c \in OutletColumns \ {"bill"} : f[c] = db[c]
      /\ db.bill.state # "open" => f.bill = db.bill
      /\ db.bill.state = "open" =>
           /\ BillOK(f, policy.max, granted, 0) /\ f.bill.state = "open"
           /\ f.bill.subtotal = Subtotal(db)
           /\ db.bill.tax > 0 => f.bill.tax = TaxOn(f, f.bill.subtotal - f.bill.discount).amount
  <2>1. CASE db.bill.state = "open"
    <3>1. f = Refreshed(db, "open")
      BY <2>1 DEF maybe_refresh_open_bill
    <3>2. granted => /\ WithinCap(db.bill, policy.max) /\ db.bill.percent <= policy.max
                     /\ db.bill.subtotal <= Subtotal(db)
      BY DEF PricesInv, BillOK
    <3>3. granted \in BOOLEAN
      BY DEF PricesInv
    <3> HIDE DEF f
    <3> QED
      BY <1>3, <1>4, <2>1, <3>1, <3>2, <3>3, RefreshedRow
  <2>2. CASE db.bill.state # "open"
    BY <1>3, <2>2 DEF maybe_refresh_open_bill
  <2> QED
    BY <2>1, <2>2
<1> HIDE DEF f
<1>6. /\ f.line = db.line /\ f.charge = db.charge /\ f.type = db.type /\ f.rules = db.rules
      /\ f.price = db.price /\ f.sizes = db.sizes /\ f.toppings = db.toppings /\ f.diet = db.diet
  BY <1>5 DEF OutletColumns
<1>7. /\ DOMAIN e = OutletColumns /\ e.line = [db.line EXCEPT ![l] = NoLine]
      /\ e.charge = db.charge /\ e.type = db.type /\ e.rules = db.rules /\ e.bill = f.bill
      /\ e.price = db.price /\ e.sizes = db.sizes /\ e.toppings = db.toppings /\ e.diet = db.diet
  BY <1>5, <1>6 DEF OutletColumns
<1> HIDE DEF e
<1>8. l \in Active(db)
  BY <1>1 DEF Active
<1>9. /\ cost \in Nat /\ e.line \in [Line -> LineRow]
      /\ Subtotal(db) = Subtotal(e) + cost
  BY <1>3, <1>7, <1>8, SubtotalRemoved
<1>10. Subtotal(e) \in Nat
  BY <1>3, <1>7, <1>9, SubtotalNat
<1>11. BillOK(e, policy.max, given, beyond')
  <2>1. CASE db.bill.state = "open"
    <3>1. beyond' = cost /\ e.bill.subtotal = Subtotal(e) + cost /\ e.bill.state = "open"
      BY <1>1, <1>5, <1>7, <1>9, <2>1
    <3>2. /\ e.bill.subtotal \in Nat /\ e.bill.discount \in Nat /\ e.bill.percent \in Nat
          /\ granted => WithinCap(e.bill, policy.max) /\ e.bill.percent <= policy.max
      BY <1>5, <1>7, <2>1 DEF BillOK
    <3>3. given => e.bill.subtotal <= Subtotal(e)
      BY <1>4, <1>5, <1>7, <1>10, <2>1
    <3> HIDE DEF given, cost
    <3>4. given => granted
      BY DEF given
    <3> QED
      BY <1>3, <1>7, <1>9, <3>1, <3>2, <3>3, <3>4 DEF BillOK
  <2>2. CASE db.bill.state # "open"
    <3>1. /\ beyond' = 0 /\ e.bill = db.bill /\ db.bill.state = "none"
      BY <1>1, <1>3, <1>5, <1>7, <2>2
    <3>2. ~ given
      BY <3>1 DEF PricesInv, BillOK
    <3> HIDE DEF given
    <3> QED
      BY <1>3, <1>7, <1>9, <3>1, <3>2 DEF BillOK
  <2> QED
    BY <2>1, <2>2
<1>12. MenuOK(e, repriced)
  BY <1>7, MenuSame DEF PricesInv, MenuOK
<1>13. PricesInv'
  <2>1. granted' \in BOOLEAN
    BY <1>1
  <2> HIDE DEF given
  <2> QED
    BY <1>1, <1>2, <1>4, <1>7, <1>11, <1>12, <2>1 DEF PricesInv
<1>14. TaxKept
  <2>1. f.line = Counted(db.line, e.line)
    BY <1>3, <1>6, <1>7 DEF Counted
  <2> QED
    BY <1>2, <1>5, <1>6, <1>7, <2>1, CountedTax
<1> QED
  BY <1>13, <1>14

\* Another type or another charge: the bill stays, and is wrong by the charge.
LEMMA TypeAndTimeStep ==
  ASSUME PricesInv, NEW kind, NEW charge \in Charge, UpdateTypeAndTime(kind, charge)
  PROVE  PricesInv' /\ TaxKept
<1> DEFINE e == [db EXCEPT !.type = kind, !.charge = charge]
           given == granted /\ Subtotal(e) >= Subtotal(db)
<1>1. /\ Request("order", e) /\ db.bill.state # "settled"
      /\ UNCHANGED <<policy, repriced, switched>> /\ granted' = given
      /\ beyond' = IF db.bill.state = "open" THEN beyond + db.charge - charge ELSE 0
  BY DEF UpdateTypeAndTime, StalingRequest, OrderRequest
<1>2. db' = e /\ DOMAIN made' = {"menu", "tax", "order", "policy"}
  BY <1>1, CountedRequest
<1>3. /\ DOMAIN db = OutletColumns /\ db.line \in [Line -> LineRow] /\ db.charge \in Nat
      /\ db.bill.subtotal \in Nat /\ db.bill.discount \in Nat /\ db.bill.percent \in Nat
      /\ db.bill.state \in {"none", "open", "settled"} /\ beyond \in Int
      /\ db.bill.state = "open" => db.bill.subtotal = Subtotal(db) + beyond
      /\ granted => /\ WithinCap(db.bill, policy.max) /\ db.bill.percent <= policy.max
                    /\ db.bill.subtotal <= Subtotal(db) /\ db.bill.state # "none"
  BY DEF PricesInv, MenuOK, BillOK
<1>4. charge \in Nat /\ policy' = policy
  BY <1>1, PricingAssumption
<1>5. /\ DOMAIN e = OutletColumns /\ e.line = db.line /\ e.bill = db.bill /\ e.charge = charge
      /\ e.rules = db.rules
      /\ e.price = db.price /\ e.sizes = db.sizes /\ e.toppings = db.toppings /\ e.diet = db.diet
  BY <1>3 DEF OutletColumns
<1> HIDE DEF e
<1>6. Subtotal(db) = LinesTotal(db) + db.charge /\ Subtotal(e) = LinesTotal(db) + charge
  BY <1>5 DEF Subtotal, LinesTotal, Active
<1>7. LinesTotal(db) \in Nat
  BY <1>3, LinesNat
<1>8. BillOK(e, policy.max, given, beyond')
  <2>1. given => e.bill.subtotal <= Subtotal(e)
    BY <1>3, <1>4, <1>5, <1>6, <1>7
  <2>2. e.bill.state = "open" => e.bill.subtotal = Subtotal(e) + beyond'
    BY <1>1, <1>3, <1>4, <1>5, <1>6, <1>7
  <2>3. beyond' \in Int
    BY <1>1, <1>3, <1>4
  <2>4. given => granted
    OBVIOUS
  <2> HIDE DEF given
  <2> QED
    BY <1>1, <1>3, <1>4, <1>5, <2>1, <2>2, <2>3, <2>4 DEF BillOK
<1>9. MenuOK(e, repriced)
  BY <1>5, MenuSame DEF PricesInv, MenuOK
<1>10. PricesInv'
  <2>1. granted' \in BOOLEAN
    BY <1>1
  <2> HIDE DEF given
  <2> QED
    BY <1>1, <1>2, <1>4, <1>5, <1>8, <1>9, <2>1 DEF PricesInv
<1>11. TaxKept
  BY <1>2, <1>5 DEF TaxKept
<1> QED
  BY <1>10, <1>11

\* A bill that is asked for: its discount was let through by the policy.
LEMMA AskedStep ==
  ASSUME PricesInv, NEW p \in Preview, NEW role, NEW knowsPin, NEW state \in {"open", "settled"},
         Asked(p, role, knowsPin, state)
  PROVE  PricesInv' /\ TaxKept
<1> DEFINE e == Billed(db, p, state)
           sub == Subtotal(db)
           x == DiscountOf(sub, p.amount, p.percent)
<1>1. /\ Request("order", e) /\ UNCHANGED <<policy, repriced, switched>>
      /\ granted' = (sub > 0) /\ beyond' = 0
      /\ LET eff == effective_discount_percent(sub, p.amount, p.percent)
         IN eff <= 0 \/ eff <= policy.max
  BY DEF Asked, OrderRequest, assert_discount_allowed
<1>2. db' = e /\ DOMAIN made' = {"menu", "tax", "order", "policy"}
  BY <1>1, CountedRequest
<1>3. DOMAIN db = OutletColumns /\ db.line \in [Line -> LineRow] /\ db.charge \in Nat
  BY DEF PricesInv, MenuOK, BillOK
<1>4. p.amount \in Nat /\ p.percent \in Nat /\ policy.max \in Nat
  <2>1. p.amount \in Nat /\ p.percent \in 0 .. Hundred
    BY PricingAssumption
  <2> QED
    BY <2>1, PercentNat, PolicyMax
<1>5. sub \in Nat
  BY <1>3, SubtotalNat
<1>6. /\ DOMAIN e = OutletColumns
      /\ \A c \in OutletColumns \ {"bill"} : e[c] = db[c]
      /\ Subtotal(e) = sub
      /\ e.bill.state = state /\ e.bill.subtotal = sub
      /\ e.bill.discount = x /\ e.bill.percent = p.percent
  BY <1>3, BilledRow
<1>7. x \in Nat /\ x <= sub
  BY <1>4, <1>5, DiscountBounds
<1>8. sub > 0 => p.percent <= policy.max
                 /\ 2 * Hundred * x <= (2 * policy.max + 1) * sub + Hundred
  <2> SUFFICES ASSUME sub > 0
               PROVE  p.percent <= policy.max
                      /\ 2 * Hundred * x <= (2 * policy.max + 1) * sub + Hundred
    OBVIOUS
  <2> DEFINE eff == effective_discount_percent(sub, p.amount, p.percent)
  <2>1. eff \in Int
    <3>1. p.amount * Hundred \in Nat /\ sub \in Nat \ {0}
      BY <1>4, <1>5 DEF Hundred
    <3>2. money(p.amount * Hundred, sub) \in Nat
      BY <3>1, MoneyNear
    <3> QED
      BY <1>4, <3>2 DEF effective_discount_percent
  <2> HIDE DEF eff
  <2>2. eff <= policy.max
    BY <1>1, <1>4, <2>1 DEF eff
  <2>3. sub \in Nat \ {0}
    BY <1>5
  <2> HIDE DEF sub
  <2> QED
    BY <1>4, <2>2, <2>3, AllowedWithinCap DEF eff
<1> HIDE DEF e, x, sub
<1>9. /\ e.line = db.line /\ e.charge = db.charge /\ e.rules = db.rules /\ e.price = db.price /\ e.sizes = db.sizes
      /\ e.toppings = db.toppings /\ e.diet = db.diet
  BY <1>6 DEF OutletColumns
<1>10. MenuOK(e, repriced)
  BY <1>6, <1>9, MenuSame DEF PricesInv, MenuOK
<1>11. BillOK(e, policy.max, sub > 0, 0)
  BY <1>3, <1>4, <1>5, <1>6, <1>7, <1>8, <1>9 DEF BillOK, WithinCap
<1>12. PricesInv'
  BY <1>1, <1>2, <1>6, <1>9, <1>10, <1>11 DEF PricesInv
<1>13. TaxKept
  BY <1>2, <1>9 DEF TaxKept
<1> QED
  BY <1>12, <1>13

\* A bill that is paid is computed again first.
LEMMA PaidStep ==
  ASSUME PricesInv, PayInFull
  PROVE  PricesInv' /\ TaxKept
<1> DEFINE e == Refreshed(db, "settled")
<1>1. /\ Request("order", e) /\ db.bill.state = "open"
      /\ UNCHANGED <<policy, repriced, switched>>
      /\ granted' = (granted /\ Subtotal(e) >= Subtotal(db)) /\ beyond' = 0
  BY DEF PayInFull, LineRequest, StalingRequest, OrderRequest
<1>2. db' = e /\ DOMAIN made' = {"menu", "tax", "order", "policy"}
  BY <1>1, CountedRequest
<1>3. DOMAIN db = OutletColumns /\ db.line \in [Line -> LineRow] /\ db.charge \in Nat
  BY DEF PricesInv, MenuOK, BillOK
<1>4. Subtotal(db) \in Nat /\ policy.max \in Nat
  BY <1>3, SubtotalNat, PolicyMax
<1>5. /\ db.bill.discount \in Nat /\ db.bill.percent \in Nat
      /\ granted => /\ WithinCap(db.bill, policy.max) /\ db.bill.percent <= policy.max
                    /\ db.bill.subtotal \in Nat /\ db.bill.subtotal <= Subtotal(db)
  BY <1>1, <1>4 DEF PricesInv, BillOK
<1>6. /\ DOMAIN e = OutletColumns
      /\ \A c \in OutletColumns \ {"bill"} : e[c] = db[c]
      /\ Subtotal(e) = Subtotal(db)
      /\ BillOK(e, policy.max, granted, 0)
  <2>1. granted \in BOOLEAN /\ "settled" \in {"open", "settled"}
    BY DEF PricesInv
  <2> QED
    BY <1>3, <1>4, <1>5, <2>1, RefreshedRow
<1> HIDE DEF e
<1>7. /\ e.line = db.line /\ e.rules = db.rules /\ e.price = db.price /\ e.sizes = db.sizes
      /\ e.toppings = db.toppings /\ e.diet = db.diet
  BY <1>6 DEF OutletColumns
<1>8. MenuOK(e, repriced)
  BY <1>6, <1>7, MenuSame DEF PricesInv, MenuOK
<1>9. granted' = granted
  <2>1. Subtotal(e) >= Subtotal(db)
    BY <1>4, <1>6
  <2>2. granted \in BOOLEAN
    BY DEF PricesInv
  <2> QED
    BY <1>1, <2>1, <2>2
<1>10. PricesInv'
  BY <1>1, <1>2, <1>6, <1>7, <1>8, <1>9 DEF PricesInv
<1>11. TaxKept
  BY <1>2, <1>7 DEF TaxKept
<1> QED
  BY <1>10, <1>11

\* A new cap: what was granted stays granted only if the cap was not lowered.
LEMMA PolicyStep ==
  ASSUME PricesInv, NEW caps \in Policy, UpdatePolicy(caps.max, caps.worker)
  PROVE  PricesInv' /\ TaxKept
<1>1. /\ Request("policy", db)
      /\ policy' = [policy EXCEPT !.max = caps.max, !.worker = caps.worker]
      /\ granted' = (granted /\ caps.max >= policy.max) /\ UNCHANGED <<repriced, switched, beyond>>
  BY DEF UpdatePolicy
<1>2. db' = db /\ DOMAIN made' = {"menu", "tax", "order", "policy"}
  BY <1>1, CountedRequest
<1>3. policy' \in [max : 0 .. Hundred, worker : 0 .. Hundred, pin : BOOLEAN] /\ policy'.max = caps.max
  BY <1>1, PricingAssumption DEF PricesInv
<1> DEFINE sub == db.bill.subtotal
           x == db.bill.discount
           m == policy.max
           n == caps.max
<1>4. m \in Nat /\ n \in Nat
  <2>1. n \in 0 .. Hundred
    BY PricingAssumption
  <2> HIDE DEF n
  <2> QED
    BY <2>1, PercentNat, PolicyMax
<1>5. granted' => /\ n >= m /\ x \in Nat /\ db.bill.percent \in Nat /\ sub \in Nat
                  /\ 2 * Hundred * x <= (2 * m + 1) * sub + Hundred /\ db.bill.percent <= m
                  /\ db.bill.state # "none" /\ sub <= Subtotal(db)
  BY <1>1, SubtotalNat DEF PricesInv, BillOK, WithinCap
<1> HIDE DEF sub, x, m, n
<1>6. granted' => 2 * Hundred * x <= (2 * n + 1) * sub + Hundred /\ db.bill.percent <= n
  <2> SUFFICES ASSUME granted'
               PROVE  2 * Hundred * x <= (2 * n + 1) * sub + Hundred /\ db.bill.percent <= n
    OBVIOUS
  <2> DEFINE a == (2 * m + 1) * sub
             b == (2 * n + 1) * sub
             k == 2 * Hundred * x
  <2>1. a <= b /\ a \in Nat /\ b \in Nat /\ k \in Nat
    BY <1>4, <1>5 DEF Hundred
  <2>2. k <= a + Hundred
    BY <1>5
  <2> HIDE DEF a, b, k
  <2>3. k <= b + Hundred
    BY <2>1, <2>2 DEF Hundred
  <2> QED
    BY <1>4, <1>5, <2>3 DEF b, k
<1>7. BillOK(db, policy'.max, granted', beyond)
  BY <1>3, <1>5, <1>6 DEF PricesInv, BillOK, WithinCap, sub, x, n
<1>8. granted' \in BOOLEAN
  BY <1>1
<1> QED
  BY <1>1, <1>2, <1>3, <1>7, <1>8 DEF PricesInv, TaxKept

LEMMA PinStep ==
  ASSUME PricesInv, SetManagerPin
  PROVE  PricesInv' /\ TaxKept
<1>1. /\ Request("policy", db) /\ policy' = [policy EXCEPT !.pin = TRUE]
      /\ UNCHANGED <<repriced, switched, granted, beyond>>
  BY DEF SetManagerPin
<1>2. db' = db /\ DOMAIN made' = {"menu", "tax", "order", "policy"}
  BY <1>1, CountedRequest
<1>3. policy' \in [max : 0 .. Hundred, worker : 0 .. Hundred, pin : BOOLEAN]
      /\ policy'.max = policy.max
  BY <1>1 DEF PricesInv
<1> QED
  BY <1>1, <1>2, <1>3 DEF PricesInv, TaxKept
-----------------------------------------------------------------------------
(* Types of menu and bill *)

\* The parts of PricingTypeOK that no other invariant needs.
PlacesTyped(d) ==
  /\ d.category \in [Category -> RowState] /\ d.name \in [Category -> CategoryName]
  /\ d.dish \in [Dish -> RowState] /\ d.under \in [Dish -> Category]
  /\ d.available \in [Dish -> BOOLEAN] /\ d.type \in OrderType

TypesInv ==
  /\ PricesInv /\ PlacesTyped(db) /\ db.bill \in BillRow
  /\ repriced \subseteq Dish
  /\ switched \in BOOLEAN /\ asked \in BOOLEAN

SamePlaces(e, d) ==
  /\ e.category = d.category /\ e.name = d.name
  /\ e.dish = d.dish /\ e.under = d.under /\ e.available = d.available
  /\ e.type = d.type

\* What the rules charge on an order is a tax.
LEMMA TaxOnIsTax ==
  ASSUME NEW d, d.line \in [Line -> LineRow], d.charge \in Nat, Ruled(d.rules), NEW taxable \in Nat,
         taxable <= Subtotal(d)
  PROVE  TaxOn(d, taxable) \in Tax
<1> DEFINE rules == d.rules
           K == matching_profiles(d, d.type)
           lines == IF Subtotal(d) = 0 THEN {} ELSE LineTaxables(d, taxable)
<1>1. K \in SUBSET DOMAIN rules
  BY DEF matching_profiles
<1>2. \A k \in K : RuleBase(rules[k], lines) \in Nat
  BY DishBase
<1>3. TaxOn(d, taxable) = compute_for_bill(taxable, lines, rules, K)
  BY DEF TaxOn
<1> HIDE DEF K, lines, rules
<1>4. compute_for_bill(taxable, lines, rules, K) \in Tax
  <2>1. Ruled(rules)
    BY DEF rules
  <2>2. PICK t \in [0 .. Len(rules) -> Tax] :
          compute_for_bill(taxable, lines, rules, K) = t[Len(rules)]
    BY <1>1, <1>2, <2>1, BillUnfolded
  <2>3. Len(rules) \in Nat
    BY <2>1, RulesRated
  <2> QED
    BY <2>2, <2>3
<1> QED
  BY <1>3, <1>4

\* What a bill is asked with is typed, and so is the bill: a guest never pays
\* less than nothing, and no part of a tax is less than nothing.
LEMMA BilledTyped ==
  ASSUME NEW d, DOMAIN d = OutletColumns, d.line \in [Line -> LineRow], d.charge \in Nat,
         Ruled(d.rules),
         NEW p, p.amount \in Nat, p.percent \in Nat, p.tip \in Nat,
         p.taxes \in BOOLEAN, p.rounds \in BOOLEAN, NEW state \in {"open", "settled"}
  PROVE  Billed(d, p, state).bill \in BillRow
<1> DEFINE sub == Subtotal(d)
           x == DiscountOf(sub, p.amount, p.percent)
           tax == IF p.taxes THEN TaxOn(d, sub - x) ELSE NoTax
           pays == guest_pays(sub - x, tax, p.tip)
           off == IF p.rounds THEN RoundOff(pays) ELSE 0
           b == AmountsWith(d, p, x, tax)
<1>1. sub \in Nat /\ x \in Nat /\ x <= sub
  BY SubtotalNat, DiscountBounds
<1>2. Billed(d, p, state).bill = [state |-> state] ++ b
  BY DEF Billed, bill_amounts, OutletColumns
<1>3. b = [subtotal |-> sub, discount |-> x, percent |-> p.percent,
           taxPercent |-> tax.percent, tax |-> tax.amount,
           cgst |-> tax.cgst, sgst |-> tax.sgst, igst |-> tax.igst,
           method |-> IF tax.applied THEN tax.method ELSE "none",
           tip |-> p.tip, roundOff |-> off, grand |-> pays + off]
  BY DEF AmountsWith
<1>4. tax \in Tax
  <2>1. sub - x \in Nat /\ sub - x <= Subtotal(d)
    BY <1>1
  <2>2. TaxOn(d, sub - x) \in Tax
    <3> HIDE DEF x
    <3> QED
      BY <2>1, TaxOnIsTax
  <2>3. NoTax \in Tax
    BY DEF NoTax, Tax, TaxRow, Method
  <2> QED
    BY <2>2, <2>3
<1> HIDE DEF sub, x, tax, b
<1>5. /\ tax.percent \in Nat /\ tax.amount \in Nat /\ tax.added \in Nat
      /\ tax.cgst \in Nat /\ tax.sgst \in Nat /\ tax.igst \in Nat
      /\ tax.method \in Method /\ tax.applied \in BOOLEAN
  BY <1>4 DEF Tax, TaxRow
<1>6. pays \in Nat
  BY <1>1, <1>5 DEF guest_pays
<1> HIDE DEF pays
<1>7. off \in Int /\ pays + off \in Nat
  <2>1. money(pays, 100) \in Nat
    BY <1>6, MoneyNear
  <2>2. RoundOff(pays) \in Int /\ pays + RoundOff(pays) \in Nat
    BY <1>6, <2>1 DEF RoundOff
  <2> QED
    BY <1>6, <2>2
<1> DEFINE grand == pays + off
           method == IF tax.applied THEN tax.method ELSE "none"
<1>8. method \in Method \cup {"none"} /\ grand \in Nat
  BY <1>5, <1>7
<1>9. [state |-> state] ++ b =
        [state |-> state, subtotal |-> sub, discount |-> x, percent |-> p.percent,
         taxPercent |-> tax.percent, tax |-> tax.amount,
         cgst |-> tax.cgst, sgst |-> tax.sgst, igst |-> tax.igst,
         method |-> method, tip |-> p.tip, roundOff |-> off, grand |-> grand]
  BY <1>3 DEF ++
<1> HIDE DEF off, grand, method
<1> QED
  BY <1>1, <1>2, <1>5, <1>7, <1>8, <1>9 DEF BillRow

\* A bill that is computed again stays a bill; the other rows stay.
LEMMA RefreshedTyped ==
  ASSUME NEW d, DOMAIN d = OutletColumns, d.line \in [Line -> LineRow], d.charge \in Nat,
         Ruled(d.rules),
         d.bill \in BillRow, NEW state \in {"open", "settled"}
  PROVE  /\ Refreshed(d, state).bill \in BillRow
         /\ SamePlaces(Refreshed(d, state), d)
<1> DEFINE b == d.bill
           p == [amount |-> IF b.percent > 0 THEN 0 ELSE b.discount, percent |-> b.percent,
                 taxes |-> b.method # "none" \/ b.tax > 0 \/ b.taxPercent > 0,
                 tip |-> b.tip, rounds |-> TRUE]
           e == Refreshed(d, state)
<1>1. e = Billed(d, p, state)
  BY DEF Refreshed
<1>2. /\ p.amount \in Nat /\ p.percent \in Nat /\ p.tip \in Nat
      /\ p.taxes \in BOOLEAN /\ p.rounds \in BOOLEAN
  <2>1. b.discount \in Nat /\ b.percent \in Nat /\ b.tip \in Nat
    BY DEF BillRow
  <2> HIDE DEF b
  <2> QED
    BY <2>1
<1> HIDE DEF p
<1>3. Billed(d, p, state).bill \in BillRow
  BY <1>2, BilledTyped
<1>4. \A c \in OutletColumns \ {"bill"} : Billed(d, p, state)[c] = d[c]
  BY BilledRow
<1> QED
  BY <1>1, <1>3, <1>4 DEF SamePlaces, OutletColumns

\* What the requests about the menu make of the rest of it.
LEMMA RequestedPlaces ==
  ASSUME NEW d, DOMAIN d = OutletColumns, PlacesTyped(d)
  PROVE  /\ \A c \in Category, n \in CategoryName : /\ PlacesTyped(create_category(d, c, n))
                                                    /\ PlacesTyped(update_category(d, c, n))
         /\ \A c \in Category : /\ PlacesTyped(delete_category(d, c))
                                /\ delete_category(d, c).bill = d.bill
         /\ \A i \in Dish, c \in Category : \A price, diet, sizes, toppings :
              PlacesTyped(create_item(d, i, c, price, diet, sizes, toppings))
         /\ \A i, sizes, toppings : PlacesTyped(replace_item_modifiers(d, i, sizes, toppings))
         /\ \A i \in Dish, c \in Category : PlacesTyped(MoveItem(d, i, c))
         /\ \A i \in Dish, yes \in BOOLEAN : PlacesTyped(SetAvailable(d, i, yes))
         /\ \A i, x : PlacesTyped(SetDiet(d, i, x)) /\ PlacesTyped(RepriceItem(d, i, x))
         /\ \A gone : PlacesTyped(DeleteDishes(d, gone)) /\ DeleteDishes(d, gone).bill = d.bill
<1> USE DEF PlacesTyped
<1>1. "live" \in RowState /\ "deleted" \in RowState
  BY DEF RowState
<1>2. \A c \in Category, n \in CategoryName : /\ PlacesTyped(create_category(d, c, n))
                                              /\ PlacesTyped(update_category(d, c, n))
  BY <1>1 DEF create_category, update_category, OutletColumns
<1>3. \A i \in Dish, c \in Category : \A price, diet, sizes, toppings :
        PlacesTyped(create_item(d, i, c, price, diet, sizes, toppings))
  BY <1>1 DEF create_item, OutletColumns
<1>4. \A i, sizes, toppings : PlacesTyped(replace_item_modifiers(d, i, sizes, toppings))
  BY DEF replace_item_modifiers, OutletColumns
<1>5. \A i \in Dish, c \in Category : PlacesTyped(MoveItem(d, i, c))
  BY DEF MoveItem, OutletColumns
<1>6. \A i \in Dish, yes \in BOOLEAN : PlacesTyped(SetAvailable(d, i, yes))
  BY DEF SetAvailable, OutletColumns
<1>7. \A i, x : PlacesTyped(SetDiet(d, i, x)) /\ PlacesTyped(RepriceItem(d, i, x))
  BY DEF SetDiet, RepriceItem, OutletColumns
<1>8. ASSUME NEW gone
      PROVE  LET e == DeleteDishes(d, gone)
             IN PlacesTyped(e) /\ e.bill = d.bill /\ DOMAIN e = OutletColumns
  <2> DEFINE g == Unruled(Detached(d, gone), gone)
             dishes == [i \in Dish |-> IF i \in gone THEN "deleted" ELSE g.dish[i]]
             e == DeleteDishes(d, gone)
  <2>1. DOMAIN g = OutletColumns /\ \A c \in OutletColumns \ {"line", "rules"} : g[c] = d[c]
    BY DEF Unruled, Detached, OutletColumns
  <2>2. e = [g EXCEPT !.dish = dishes]
    BY DEF DeleteDishes
  <2> HIDE DEF g, e
  <2>3. dishes \in [Dish -> RowState]
    BY <1>1, <2>1 DEF OutletColumns
  <2> HIDE DEF dishes
  <2>4. /\ DOMAIN e = OutletColumns /\ e.dish = dishes
        /\ \A c \in OutletColumns \ {"line", "rules", "dish"} : e[c] = d[c]
    BY <2>1, <2>2 DEF OutletColumns
  <2> QED
    BY <2>3, <2>4 DEF e, OutletColumns
<1>9. ASSUME NEW c \in Category
      PROVE  LET e == delete_category(d, c)
             IN PlacesTyped(e) /\ e.bill = d.bill
  <2> DEFINE gone == {i \in LiveDishes(d) : d.under[i] = c}
             f == DeleteDishes(d, gone)
             e == delete_category(d, c)
  <2>1. PlacesTyped(f) /\ f.bill = d.bill /\ DOMAIN f = OutletColumns
    <3> HIDE DEF gone
    <3> QED
      BY <1>8
  <2>2. e = [f EXCEPT !.category[c] = "deleted"]
    BY DEF delete_category
  <2> HIDE DEF e, f
  <2>3. PlacesTyped(e) /\ e.bill = d.bill
    BY <1>1, <2>1, <2>2 DEF OutletColumns
  <2> QED
    BY <2>3 DEF e
<1> QED
  BY <1>2, <1>3, <1>4, <1>5, <1>6, <1>7, <1>8, <1>9
-----------------------------------------------------------------------------
(* The theorems *)

\* An outlet starts with prices that fit, and no rules and bills.
LEMMA PricesInit ==
  ASSUME PricingInit
  PROVE  PricesInv
<1>1. PICK c \in Category, i \in Dish, n \in CategoryName, price \in Price, kind \in OrderType :
        db = create_item(
               create_category(
                 [category |-> [k \in Category |-> "unused"], name |-> [k \in Category |-> n],
                  dish |-> [k \in Dish |-> "unused"], under |-> [k \in Dish |-> c],
                  price |-> [k \in Dish |-> 0], diet |-> [k \in Dish |-> "VEG"],
                  available |-> [k \in Dish |-> TRUE], sizes |-> [k \in Dish |-> << >>],
                  toppings |-> [k \in Dish |-> NoToppings],
                  type |-> kind, charge |-> 0, line |-> [l \in Line |-> NoLine],
                  rules |-> << >>, bill |-> NoBill], c, n), i, c, price, "VEG", << >>, NoToppings)
  BY DEF PricingInit
<1> DEFINE d == [category |-> [k \in Category |-> "unused"], name |-> [k \in Category |-> n],
                 dish |-> [k \in Dish |-> "unused"], under |-> [k \in Dish |-> c],
                 price |-> [k \in Dish |-> 0], diet |-> [k \in Dish |-> "VEG"],
                 available |-> [k \in Dish |-> TRUE], sizes |-> [k \in Dish |-> << >>],
                 toppings |-> [k \in Dish |-> NoToppings],
                  type |-> kind, charge |-> 0, line |-> [l \in Line |-> NoLine],
                 rules |-> << >>, bill |-> NoBill]
           e == create_category(d, c, n)
<1>2. db = create_item(e, i, c, price, "VEG", << >>, NoToppings)
  BY <1>1
<1>3. /\ DOMAIN d = OutletColumns
      /\ d.price = [k \in Dish |-> 0] /\ d.diet = [k \in Dish |-> "VEG"]
      /\ d.sizes = [k \in Dish |-> << >>] /\ d.toppings = [k \in Dish |-> NoToppings]
      /\ d.line = [l \in Line |-> NoLine] /\ d.rules = << >> /\ d.bill = NoBill /\ d.charge = 0
  BY DEF OutletColumns
<1> HIDE DEF d
<1>4. NoToppings \in ToppingGroup /\ << >> \in Seq(SizeRow)
  BY DEF NoToppings, ToppingGroup
<1>5. MenuOK(d, repriced)
  <2>1. /\ d.price \in [Dish -> Nat] /\ d.diet \in [Dish -> Diet]
        /\ d.sizes \in [Dish -> Seq(SizeRow)] /\ d.toppings \in [Dish -> ToppingGroup]
    BY <1>3, <1>4 DEF Diet
  <2>2. \A k \in Dish : PricedBySize(d, k)
    BY <1>3 DEF PricedBySize
  <2> QED
    BY <1>3, <2>1, <2>2 DEF MenuOK
<1>6. /\ MenuOK(e, repriced) /\ e.line = d.line /\ e.rules = d.rules
      /\ e.bill = d.bill /\ e.charge = d.charge
  BY <1>3, <1>5, RequestedMenu, RestOfMenu
<1> HIDE DEF e
<1>7. MayNormalize(<< >>)
  <2>1. Defaults(<< >>) = {}
    BY DEF Defaults
  <2> QED
    BY <2>1, FS_EmptySet DEF MayNormalize
<1>8. price \in Nat /\ "VEG" \in Diet
  BY PricingAssumption DEF Diet
<1>9. MenuOK(db, repriced)
  <2>1. \A k : \A j \in Dish, x \in Nat, y \in Diet, s \in Seq(SizeRow), t \in ToppingGroup :
          MayNormalize(s) => MenuOK(create_item(e, j, k, x, y, s, t), repriced)
    BY <1>6, RequestedMenu
  <2>2. MenuOK(create_item(e, i, c, price, "VEG", << >>, NoToppings), repriced)
    BY <1>4, <1>7, <1>8, <2>1
  <2> QED
    BY <1>2, <2>2
<1>10. /\ db.line = d.line /\ db.rules = d.rules
       /\ db.bill = d.bill /\ db.charge = d.charge
  <2>1. DOMAIN e = OutletColumns
    BY <1>6 DEF MenuOK
  <2> QED
    BY <1>2, <1>6, <2>1, RestOfMenu
<1>11. RulesOK(db.rules, switched)
  BY <1>3, <1>10 DEF RulesOK, Ruled, OneGst
<1>12. /\ ~ granted /\ granted \in BOOLEAN /\ beyond = 0 /\ policy = DefaultPolicy
       /\ DOMAIN made = {"menu", "tax", "order", "policy"}
  BY DEF PricingInit
<1>13. BillOK(db, policy.max, granted, beyond)
  <2>1. NoLine \in LineRow
    BY DEF NoLine, LineRow, Diet
  <2>2. db.line \in [Line -> LineRow]
    BY <1>3, <1>10, <2>1
  <2>3. /\ db.bill.state = "none" /\ db.bill.subtotal = 0 /\ db.bill.discount = 0
        /\ db.bill.percent = 0 /\ db.charge = 0
    BY <1>3, <1>10 DEF NoBill
  <2> QED
    BY <1>12, <2>2, <2>3 DEF BillOK
<1>14. policy \in [max : 0 .. Hundred, worker : 0 .. Hundred, pin : BOOLEAN]
  BY <1>12 DEF DefaultPolicy, Hundred
<1> QED
  BY <1>9, <1>11, <1>12, <1>13, <1>14 DEF PricesInv

\* What a dish costs in a size with toppings.
LEMMA LinePrice ==
  ASSUME PricesInv, NEW i \in Dish, NEW k \in 0 .. 2, NEW size \in ResolvedSizes(db, i, k),
         NEW chosen \in SUBSET (DOMAIN db.toppings[i].rows)
  PROVE  UnitPrice(db, i, size) + ToppingsTotal(db, i, chosen) \in Nat
<1>1. /\ db.price[i] \in Nat /\ db.sizes[i] \in Seq(SizeRow)
      /\ db.toppings[i] \in ToppingGroup
  BY DEF PricesInv, MenuOK
<1>2. size = 0 \/ size \in DOMAIN db.sizes[i]
  BY DEF ResolvedSizes, pick_default_variation, AvailableSizes
<1>3. UnitPrice(db, i, size) \in Nat
  <2>1. CASE size = 0
    BY <1>1, <2>1 DEF UnitPrice
  <2>2. CASE size # 0
    <3>1. db.sizes[i][size] \in SizeRow
      BY <1>1, <1>2, <2>2
    <3>2. db.sizes[i][size].price \in Nat
      BY <3>1 DEF SizeRow
    <3> QED
      BY <2>2, <3>2 DEF UnitPrice
  <2> QED
    BY <2>1, <2>2
<1> DEFINE rows == db.toppings[i].rows
           f == [t \in DOMAIN rows |-> rows[t].price]
<1>4. rows \in Seq(ToppingRow)
  BY <1>1 DEF ToppingGroup
<1> HIDE DEF rows
<1>5. chosen \subseteq 1 .. Len(rows) /\ Len(rows) \in Nat /\ DOMAIN rows = 1 .. Len(rows)
  BY <1>4 DEF rows
<1>6. IsFiniteSet(chosen)
  <2>1. IsFiniteSet(1 .. Len(rows))
    BY <1>5, FS_Interval
  <2> QED
    BY <1>5, <2>1, FS_Subset
<1>7. \A t \in chosen : f[t] \in Nat
  <2> SUFFICES ASSUME NEW t \in chosen
               PROVE  f[t] \in Nat
    OBVIOUS
  <2>1. t \in DOMAIN rows /\ rows[t] \in ToppingRow
    BY <1>4, <1>5
  <2>2. rows[t].price \in Nat
    BY <2>1 DEF ToppingRow
  <2> QED
    BY <2>1, <2>2
<1> HIDE DEF f
<1>8. SumFunctionOnSet(f, chosen) \in Nat
  BY <1>6, <1>7, SumNat
<1>9. ToppingsTotal(db, i, chosen) \in Nat
  BY <1>8 DEF ToppingsTotal, f, rows
<1> QED
  BY <1>3, <1>9

\* Every request about the menu keeps the invariant.
LEMMA MenuRequests ==
  ASSUME PricesInv,
         \/ \E c \in Category : DeleteCategory(c) \/ \E n \in CategoryName :
                                   CreateCategory(c, n) \/ UpdateCategory(c, n)
         \/ \E i \in Dish :
              \/ UpdateItem(i) \/ DeleteItem(i)
              \/ \E sizes \in SizeList, toppings \in Topping :
                   \/ ReplaceItemModifiers(i, sizes, toppings)
                   \/ \E c \in Category, price \in Price, diet \in NewDiet :
                        CreateItem(i, c, price, diet, sizes, toppings)
  PROVE  PricesInv' /\ TaxKept
<1> DEFINE Rest(e) == /\ e.line = db.line /\ e.rules = db.rules
                      /\ e.bill = db.bill /\ e.charge = db.charge
<1>0. /\ DOMAIN db = OutletColumns /\ MenuOK(db, repriced) /\ RulesOK(db.rules, switched)
      /\ BillOK(db, policy.max, granted, beyond)
  BY DEF PricesInv, MenuOK
<1>1. ASSUME NEW e, Rest(e)
      PROVE  BillOK(e, policy.max, granted, beyond) /\ RulesOK(e.rules, switched)
  <2>1. e.line \in [Line -> LineRow]
    BY <1>0, <1>1 DEF BillOK
  <2> QED
    BY <1>0, <1>1, <2>1, BillSame
<1>2. ASSUME NEW e, Rest(e), MenuOK(e, repriced), MenuRequest(e)
      PROVE  PricesInv' /\ TaxKept
  BY <1>1, <1>2, MenuStep
<1>3. ASSUME NEW c \in Category, DeleteCategory(c)
      PROVE  PricesInv' /\ TaxKept
  <2> DEFINE e == delete_category(db, c)
  <2>1. MenuRequest(e)
    BY <1>3 DEF DeleteCategory
  <2>2. MenuOK(e, repriced) /\ BillOK(e, policy.max, granted, beyond) /\ RulesOK(e.rules, switched)
    BY <1>0, RequestedMenu, RestOfDeleted
  <2> HIDE DEF e
  <2> QED
    BY <2>1, <2>2, MenuStep
<1>4. ASSUME NEW c \in Category, NEW n \in CategoryName, CreateCategory(c, n)
      PROVE  PricesInv' /\ TaxKept
  <2> DEFINE e == create_category(db, c, n)
  <2>1. MenuRequest(e)
    BY <1>4 DEF CreateCategory
  <2>2. MenuOK(e, repriced) /\ Rest(e)
    BY <1>0, RequestedMenu, RestOfMenu
  <2> HIDE DEF e
  <2> QED
    BY <1>2, <2>1, <2>2
<1>5. ASSUME NEW c \in Category, NEW n \in CategoryName, UpdateCategory(c, n)
      PROVE  PricesInv' /\ TaxKept
  <2> DEFINE e == update_category(db, c, n)
  <2>1. MenuRequest(e)
    BY <1>5 DEF UpdateCategory
  <2>2. MenuOK(e, repriced) /\ Rest(e)
    BY <1>0, RequestedMenu, RestOfMenu
  <2> HIDE DEF e
  <2> QED
    BY <1>2, <2>1, <2>2
<1>6. ASSUME NEW i \in Dish, UpdateItem(i)
      PROVE  PricesInv' /\ TaxKept
  <2>1. ASSUME NEW c \in LiveCategories(db), MenuRequest(MoveItem(db, i, c))
        PROVE  PricesInv' /\ TaxKept
    <3> DEFINE e == MoveItem(db, i, c)
    <3>1. MenuOK(e, repriced) /\ Rest(e)
      BY <1>0, RequestedMenu, RestOfMenu
    <3> HIDE DEF e
    <3> QED
      BY <1>2, <2>1, <3>1 DEF e
  <2>2. ASSUME NEW diet \in NewDiet, MenuRequest(SetDiet(db, i, diet))
        PROVE  PricesInv' /\ TaxKept
    <3> DEFINE e == SetDiet(db, i, diet)
    <3>1. diet \in Diet
      BY PricingAssumption
    <3>2. MenuOK(e, repriced) /\ Rest(e)
      BY <1>0, <3>1, RequestedMenu, RestOfMenu
    <3>3. MenuRequest(e)
      BY <2>2
    <3> HIDE DEF e
    <3> QED
      BY <1>2, <3>2, <3>3
  <2>3. ASSUME NEW yes \in BOOLEAN, MenuRequest(SetAvailable(db, i, yes))
        PROVE  PricesInv' /\ TaxKept
    <3> DEFINE e == SetAvailable(db, i, yes)
    <3>1. MenuOK(e, repriced) /\ Rest(e)
      BY <1>0, RequestedMenu, RestOfMenu
    <3>2. MenuRequest(e)
      BY <2>3
    <3> HIDE DEF e
    <3> QED
      BY <1>2, <3>1, <3>2
  <2>4. ASSUME NEW price \in Price, Request("menu", RepriceItem(db, i, price)),
               repriced' = repriced \cup {i}, UNCHANGED <<policy, switched, asked, granted, beyond>>
        PROVE  PricesInv' /\ TaxKept
    <3> DEFINE e == RepriceItem(db, i, price)
    <3>1. price \in Nat
      BY PricingAssumption
    <3>2. MenuOK(e, repriced') /\ Rest(e)
      BY <1>0, <2>4, <3>1, RequestedMenu, RestOfMenu
    <3>3. /\ db' = e /\ DOMAIN made' = {"menu", "tax", "order", "policy"}
          /\ made'["order"] = made["order"]
      BY <2>4, CountedRequest
    <3> HIDE DEF e
    <3>4. BillOK(e, policy.max, granted, beyond) /\ RulesOK(e.rules, switched)
      BY <1>1, <3>2
    <3> QED
      BY <2>4, <3>2, <3>3, <3>4 DEF PricesInv, TaxKept
  <2> QED
    BY <1>6, <2>1, <2>2, <2>3, <2>4 DEF UpdateItem
<1>7. ASSUME NEW i \in Dish, DeleteItem(i)
      PROVE  PricesInv' /\ TaxKept
  <2> DEFINE e == DeleteDishes(db, {i})
  <2>1. MenuRequest(e)
    BY <1>7 DEF DeleteItem, delete_item
  <2>2. MenuOK(e, repriced) /\ BillOK(e, policy.max, granted, beyond) /\ RulesOK(e.rules, switched)
    BY <1>0, RequestedMenu, RestOfDeleted
  <2> HIDE DEF e
  <2> QED
    BY <2>1, <2>2, MenuStep
<1>8. ASSUME NEW i \in Dish, NEW sizes \in SizeList, NEW toppings \in Topping,
             ReplaceItemModifiers(i, sizes, toppings)
      PROVE  PricesInv' /\ TaxKept
  <2> DEFINE e == replace_item_modifiers(db, i, sizes, toppings)
  <2>1. sizes \in Seq(SizeRow) /\ toppings \in ToppingGroup
    BY PricingAssumption
  <2>2. /\ MayNormalize(sizes) /\ Request("menu", e)
        /\ repriced' = IF sizes = << >> THEN repriced ELSE repriced \ {i}
        /\ UNCHANGED <<policy, switched, asked, granted, beyond>>
    BY <1>8 DEF ReplaceItemModifiers
  <2>3. MenuOK(e, repriced) /\ (sizes # << >> => MenuOK(e, repriced \ {i})) /\ Rest(e)
    <3>1. \A j \in Dish, s \in Seq(SizeRow), t \in ToppingGroup :
            MayNormalize(s) =>
              LET f == replace_item_modifiers(db, j, s, t)
              IN MenuOK(f, repriced) /\ (s # << >> => MenuOK(f, repriced \ {j}))
      BY <1>0, RequestedMenu
    <3>2. MenuOK(e, repriced) /\ (sizes # << >> => MenuOK(e, repriced \ {i}))
      BY <2>1, <2>2, <3>1
    <3>3. Rest(e)
      BY <1>0, RestOfMenu
    <3> QED
      BY <3>2, <3>3
  <2>4. /\ db' = e /\ DOMAIN made' = {"menu", "tax", "order", "policy"}
        /\ made'["order"] = made["order"]
    BY <2>2, CountedRequest
  <2> HIDE DEF e
  <2>5. BillOK(e, policy.max, granted, beyond) /\ RulesOK(e.rules, switched)
    BY <1>1, <2>3
  <2>6. MenuOK(e, repriced')
    BY <2>2, <2>3
  <2> QED
    BY <2>2, <2>4, <2>5, <2>6 DEF PricesInv, TaxKept
<1>9. ASSUME NEW i \in Dish, NEW sizes \in SizeList, NEW toppings \in Topping,
             NEW c \in Category, NEW price \in Price, NEW diet \in NewDiet,
             CreateItem(i, c, price, diet, sizes, toppings)
      PROVE  PricesInv' /\ TaxKept
  <2> DEFINE e == create_item(db, i, c, price, diet, sizes, toppings)
  <2>1. /\ sizes \in Seq(SizeRow) /\ toppings \in ToppingGroup
        /\ price \in Nat /\ diet \in Diet
    BY PricingAssumption
  <2>2. MayNormalize(sizes) /\ MenuRequest(e)
    BY <1>9 DEF CreateItem
  <2>3. MenuOK(e, repriced) /\ Rest(e)
    <3>1. \A k : \A j \in Dish, x \in Nat, y \in Diet, s \in Seq(SizeRow), t \in ToppingGroup :
            MayNormalize(s) => MenuOK(create_item(db, j, k, x, y, s, t), repriced)
      BY <1>0, RequestedMenu
    <3>2. MenuOK(e, repriced)
      BY <2>1, <2>2, <3>1
    <3>3. Rest(e)
      BY <1>0, RestOfMenu
    <3> QED
      BY <3>2, <3>3
  <2> HIDE DEF e
  <2> QED
    BY <1>2, <2>2, <2>3
<1> QED
  BY <1>3, <1>4, <1>5, <1>6, <1>7, <1>8, <1>9

\* Every request about the rules keeps the invariant.
LEMMA TaxRequests ==
  ASSUME PricesInv,
         \/ ListRules
         \/ \E new \in NewRule : CreateRule(new)
         \/ \E k \in DOMAIN db.rules : DeleteRule(k) \/ \E data \in RuleChange : UpdateRule(k, data)
         \/ \E yes \in BOOLEAN : SetEnabled(yes)
  PROVE  PricesInv' /\ TaxKept
<1>0. DOMAIN db = OutletColumns /\ Ruled(db.rules) /\ (~ switched => OneGst(db.rules))
  BY DEF PricesInv, MenuOK, RulesOK
<1>1. ASSUME NEW e, TaxRequest(e), e = [db EXCEPT !.rules = e.rules], Ruled(e.rules),
             ~ switched' => OneGst(e.rules)
      PROVE  PricesInv' /\ TaxKept
  BY <1>1, TaxStep DEF RulesOK
<1>2. CASE ListRules
  <2> DEFINE e == ensure_gst_catalog(db)
  <2>1. TaxRequest(e) /\ UNCHANGED switched
    BY <1>2 DEF ListRules
  <2>2. e = [db EXCEPT !.rules = e.rules]
    BY <1>0 DEF ensure_gst_catalog, OutletColumns
  <2>3. Ruled(e.rules) /\ (OneGst(db.rules) => OneGst(e.rules))
    BY <1>0, RequestedRules
  <2> HIDE DEF e
  <2> QED
    BY <1>0, <1>1, <2>1, <2>2, <2>3
<1>3. ASSUME NEW new \in NewRule, CreateRule(new)
      PROVE  PricesInv' /\ TaxKept
  <2> DEFINE e == create(db, new)
  <2>1. TaxRequest(e) /\ UNCHANGED switched
    BY <1>3 DEF CreateRule
  <2>2. e = [db EXCEPT !.rules = e.rules]
    BY <1>0 DEF create, OutletColumns
  <2>3. Ruled(e.rules) /\ (OneGst(db.rules) => OneGst(e.rules))
    <3>1. OfRule(new) /\ DOMAIN new = AskedColumns
      BY PricingAssumption
    <3> QED
      BY <1>0, <3>1, RequestedRules
  <2> HIDE DEF e
  <2> QED
    BY <1>0, <1>1, <2>1, <2>2, <2>3
<1>4. ASSUME NEW k \in DOMAIN db.rules, DeleteRule(k)
      PROVE  PricesInv' /\ TaxKept
  <2> DEFINE e == delete(db, k)
  <2>1. TaxRequest(e) /\ UNCHANGED switched
    BY <1>4 DEF DeleteRule
  <2>2. e = [db EXCEPT !.rules = e.rules]
    BY <1>0 DEF delete, OutletColumns
  <2>3. Ruled(e.rules) /\ (OneGst(db.rules) => OneGst(e.rules))
    BY <1>0, RequestedRules
  <2> HIDE DEF e
  <2> QED
    BY <1>0, <1>1, <2>1, <2>2, <2>3
<1>5. ASSUME NEW k \in DOMAIN db.rules, NEW data \in RuleChange, UpdateRule(k, data)
      PROVE  PricesInv' /\ TaxKept
  <2> DEFINE e == update(db, k, data)
  <2>1. TaxRequest(e) /\ UNCHANGED switched
    BY <1>5 DEF UpdateRule
  <2>2. e = [db EXCEPT !.rules = e.rules]
    BY <1>0 DEF update, OutletColumns
  <2>3. Ruled(e.rules) /\ (OneGst(db.rules) => OneGst(e.rules))
    <3>1. OfRule(data)
      BY PricingAssumption
    <3> QED
      BY <1>0, <3>1, RequestedRules
  <2> HIDE DEF e
  <2> QED
    BY <1>0, <1>1, <2>1, <2>2, <2>3
<1>6. ASSUME NEW yes \in BOOLEAN, SetEnabled(yes)
      PROVE  PricesInv' /\ TaxKept
  <2> DEFINE e == set_enabled(db, yes)
  <2>1. TaxRequest(e) /\ switched' = (switched \/ yes)
    BY <1>6 DEF SetEnabled
  <2>2. e = [db EXCEPT !.rules = e.rules]
    BY <1>0 DEF set_enabled, OutletColumns
  <2>3. Ruled(e.rules) /\ (~ yes => OneGst(e.rules))
    BY <1>0, RequestedRules
  <2> HIDE DEF e
  <2> QED
    BY <1>1, <2>1, <2>2, <2>3
<1> QED
  BY <1>2, <1>3, <1>4, <1>5, <1>6

\* Every request about the order keeps the invariant.
LEMMA OrderRequests ==
  ASSUME PricesInv,
         \/ \E l \in Line :
              \/ CancelLine(l) \/ RemoveLine(l)
              \/ \E i \in Dish, k \in 0 .. 2, n \in 1 .. 2 : AddLine(l, i, k, n)
              \/ \E price \in Price \cup {db.line[l].each}, n \in 1 .. 2 : UpdateLine(l, price, n)
              \/ \E i \in Dish \cup {"nothing"}, price \in Price, n \in 1 .. 2 :
                   AddOpenLine(l, i, price, n)
         \/ \E type \in OrderType, charge \in Charge : UpdateTypeAndTime(type, charge)
         \/ \E p \in Preview, role \in {"OWNER", "EMPLOYEE"}, knowsPin \in BOOLEAN :
              CreateOrRefreshBill(p, role, knowsPin) \/ SettleBill(p, role, knowsPin)
         \/ PayInFull
  PROVE  PricesInv' /\ TaxKept
<1>0. db.line \in [Line -> LineRow] /\ db.diet \in [Dish -> Diet]
  BY DEF PricesInv, BillOK, MenuOK
<1>1. ASSUME NEW l \in Line, CancelLine(l)
      PROVE  PricesInv' /\ TaxKept
  <2> DEFINE row == [db.line[l] EXCEPT !.state = "cancelled"]
  <2>1. LineRequest(WithLine(l, row))
    BY <1>1 DEF CancelLine
  <2>2. row \in LineRow /\ row.state # "none"
    BY <1>0 DEF LineRow
  <2> HIDE DEF row
  <2> QED
    BY <2>1, <2>2, LineStep
<1>2. ASSUME NEW l \in Line, NEW i \in Dish, NEW k \in 0 .. 2, NEW n \in 1 .. 2,
             AddLine(l, i, k, n)
      PROVE  PricesInv' /\ TaxKept
  <2>1. PICK size \in ResolvedSizes(db, i, k), chosen \in SUBSET (DOMAIN db.toppings[i].rows) :
          LineRequest(WithLine(l,
            [state |-> "active", dish |-> i, open |-> FALSE,
             each |-> UnitPrice(db, i, size) + ToppingsTotal(db, i, chosen),
             quantity |-> n, diet |-> effective_food_type(db, i, size, chosen)]))
    BY <1>2 DEF AddLine
  <2> DEFINE row == [state |-> "active", dish |-> i, open |-> FALSE,
                     each |-> UnitPrice(db, i, size) + ToppingsTotal(db, i, chosen),
                     quantity |-> n, diet |-> effective_food_type(db, i, size, chosen)]
  <2>2. UnitPrice(db, i, size) + ToppingsTotal(db, i, chosen) \in Nat
    BY LinePrice
  <2>3. effective_food_type(db, i, size, chosen) \in Diet
    BY DEF effective_food_type, Diet
  <2>4. row \in LineRow /\ row.state # "none"
    <3>1. n \in Nat
      OBVIOUS
    <3> QED
      BY <2>2, <2>3, <3>1 DEF LineRow
  <2>5. LineRequest(WithLine(l, row))
    BY <2>1
  <2> HIDE DEF row
  <2> QED
    BY <2>4, <2>5, LineStep
<1>3. ASSUME NEW l \in Line, NEW price \in Price \cup {db.line[l].each}, NEW n \in 1 .. 2,
             UpdateLine(l, price, n)
      PROVE  PricesInv' /\ TaxKept
  <2> DEFINE row == [db.line[l] EXCEPT !.each = price, !.quantity = n]
  <2>1. LineRequest(WithLine(l, row))
    BY <1>3 DEF UpdateLine
  <2>2. db.line[l] \in LineRow
    BY <1>0
  <2>5. db.line[l].state = "active"
    BY <1>3 DEF UpdateLine
  <2>3. price \in Nat /\ n \in Nat
    <3>1. db.line[l].each \in Nat
      BY <2>2 DEF LineRow
    <3>2. price \in Nat
      BY <3>1, PricingAssumption
    <3> QED
      BY <3>2
  <2>4. row \in LineRow /\ row.state # "none"
    BY <2>2, <2>3, <2>5 DEF LineRow
  <2> HIDE DEF row
  <2> QED
    BY <2>1, <2>4, LineStep
<1>4. ASSUME NEW l \in Line, NEW i \in Dish \cup {"nothing"}, NEW price \in Price,
             NEW n \in 1 .. 2, AddOpenLine(l, i, price, n)
      PROVE  PricesInv' /\ TaxKept
  <2> DEFINE diet == IF i = "nothing" THEN "VEG" ELSE db.diet[i]
             row == [state |-> "active", dish |-> i, open |-> TRUE, each |-> price,
                     quantity |-> n, diet |-> diet]
  <2>1. LineRequest(WithLine(l, row))
    BY <1>4 DEF AddOpenLine
  <2>2. diet \in Diet /\ price \in Nat /\ n \in Nat
    BY <1>0, PricingAssumption DEF Diet
  <2> HIDE DEF diet
  <2>3. row \in LineRow /\ row.state # "none"
    BY <2>2 DEF LineRow
  <2> HIDE DEF row
  <2> QED
    BY <2>1, <2>3, LineStep
<1>5. ASSUME NEW p \in Preview, NEW role, NEW knowsPin,
             CreateOrRefreshBill(p, role, knowsPin) \/ SettleBill(p, role, knowsPin)
      PROVE  PricesInv' /\ TaxKept
  BY <1>5, AskedStep DEF CreateOrRefreshBill, SettleBill
<1> QED
  BY <1>1, <1>2, <1>3, <1>4, <1>5, PaidStep, RemoveStep, TypeAndTimeStep

\* The invariant is inductive, and every step keeps taxed bills taxed.
LEMMA PricesInductive ==
  ASSUME PricesInv, [PricingNext]_pricingVars
  PROVE  PricesInv' /\ (pricingVars' # pricingVars => TaxKept)
<1>1. CASE UNCHANGED pricingVars
  BY <1>1 DEF pricingVars, PricesInv, RulesOK, MenuOK, BillOK, Subtotal, Active, PricedBySize,
              Gst, OneGst, Ruled, WithinCap
<1>2. CASE \E caps \in Policy : UpdatePolicy(caps.max, caps.worker)
  BY <1>2, PolicyStep
<1>3. CASE SetManagerPin
  BY <1>3, PinStep
<1> QED
  BY <1>1, <1>2, <1>3, MenuRequests, TaxRequests, OrderRequests DEF PricingNext

\* Requests leave histories that are what they were or true or false.
TypedBy(new) ==
  /\ db' = new
  /\ repriced' \subseteq Dish /\ switched' \in BOOLEAN /\ asked' \in BOOLEAN

\* Rows that are typed, with histories that are, keep the invariant.
LEMMA TypesKept ==
  ASSUME TypesInv, PricesInv', NEW new, TypedBy(new), PlacesTyped(new), new.bill \in BillRow
  PROVE  TypesInv'
BY DEF TypesInv, TypedBy, PlacesTyped

\* Requests about the menu keep the types.
LEMMA MenuTypes ==
  ASSUME TypesInv, PricesInv',
         \/ \E c \in Category : DeleteCategory(c) \/ \E n \in CategoryName :
                                   CreateCategory(c, n) \/ UpdateCategory(c, n)
         \/ \E i \in Dish :
              \/ UpdateItem(i) \/ DeleteItem(i)
              \/ \E sizes \in SizeList, toppings \in Topping :
                   \/ ReplaceItemModifiers(i, sizes, toppings)
                   \/ \E c \in Category, price \in Price, diet \in NewDiet :
                        CreateItem(i, c, price, diet, sizes, toppings)
  PROVE  TypesInv'
<1>0. DOMAIN db = OutletColumns /\ PlacesTyped(db) /\ db.bill \in BillRow
  BY DEF TypesInv, PricesInv, MenuOK
<1>1. ASSUME NEW new, MenuRequest(new), PlacesTyped(new), new.bill = db.bill
      PROVE  TypesInv'
  <2>1. TypedBy(new)
    BY <1>1 DEF MenuRequest, Request, TypedBy, TypesInv
  <2> QED
    BY <1>0, <1>1, <2>1, TypesKept
<1>2. ASSUME NEW c \in Category, DeleteCategory(c)
      PROVE  TypesInv'
  <2> DEFINE e == delete_category(db, c)
  <2>1. MenuRequest(e) /\ PlacesTyped(e) /\ e.bill = db.bill
    BY <1>0, <1>2, RequestedPlaces DEF DeleteCategory
  <2> HIDE DEF e
  <2> QED
    BY <1>1, <2>1
<1>3. ASSUME NEW c \in Category, NEW n \in CategoryName, CreateCategory(c, n)
      PROVE  TypesInv'
  <2> DEFINE e == create_category(db, c, n)
  <2>1. MenuRequest(e) /\ PlacesTyped(e) /\ e.bill = db.bill
    BY <1>0, <1>3, RequestedPlaces, RestOfMenu DEF CreateCategory
  <2> HIDE DEF e
  <2> QED
    BY <1>1, <2>1
<1>4. ASSUME NEW c \in Category, NEW n \in CategoryName, UpdateCategory(c, n)
      PROVE  TypesInv'
  <2> DEFINE e == update_category(db, c, n)
  <2>1. MenuRequest(e) /\ PlacesTyped(e) /\ e.bill = db.bill
    BY <1>0, <1>4, RequestedPlaces, RestOfMenu DEF UpdateCategory
  <2> HIDE DEF e
  <2> QED
    BY <1>1, <2>1
<1>5. ASSUME NEW i \in Dish, UpdateItem(i)
      PROVE  TypesInv'
  <2>1. ASSUME NEW c \in LiveCategories(db), MenuRequest(MoveItem(db, i, c))
        PROVE  TypesInv'
    <3> DEFINE e == MoveItem(db, i, c)
    <3>1. c \in Category
      BY DEF LiveCategories
    <3>2. MenuRequest(e) /\ PlacesTyped(e) /\ e.bill = db.bill
      BY <1>0, <2>1, <3>1, RequestedPlaces, RestOfMenu
    <3> HIDE DEF e
    <3> QED
      BY <1>1, <3>2
  <2>2. ASSUME NEW diet \in NewDiet, MenuRequest(SetDiet(db, i, diet))
        PROVE  TypesInv'
    <3> DEFINE e == SetDiet(db, i, diet)
    <3>1. MenuRequest(e) /\ PlacesTyped(e) /\ e.bill = db.bill
      BY <1>0, <2>2, RequestedPlaces, RestOfMenu
    <3> HIDE DEF e
    <3> QED
      BY <1>1, <3>1
  <2>3. ASSUME NEW yes \in BOOLEAN, MenuRequest(SetAvailable(db, i, yes))
        PROVE  TypesInv'
    <3> DEFINE e == SetAvailable(db, i, yes)
    <3>1. MenuRequest(e) /\ PlacesTyped(e) /\ e.bill = db.bill
      BY <1>0, <2>3, RequestedPlaces, RestOfMenu
    <3> HIDE DEF e
    <3> QED
      BY <1>1, <3>1
  <2>4. ASSUME NEW price \in Price, Request("menu", RepriceItem(db, i, price)),
               repriced' = repriced \cup {i}, UNCHANGED <<policy, switched, asked, granted, beyond>>
        PROVE  TypesInv'
    <3> DEFINE e == RepriceItem(db, i, price)
    <3>1. PlacesTyped(e) /\ e.bill = db.bill
      BY <1>0, RequestedPlaces, RestOfMenu
    <3>2. Request("menu", e)
      BY <2>4
    <3> HIDE DEF e
    <3>3. TypedBy(e)
      BY <2>4, <3>2 DEF Request, TypedBy, TypesInv
    <3> QED
      BY <1>0, <3>1, <3>3, TypesKept
  <2> QED
    BY <1>5, <2>1, <2>2, <2>3, <2>4 DEF UpdateItem
<1>6. ASSUME NEW i \in Dish, DeleteItem(i)
      PROVE  TypesInv'
  <2> DEFINE e == DeleteDishes(db, {i})
  <2>1. MenuRequest(e) /\ PlacesTyped(e) /\ e.bill = db.bill
    BY <1>0, <1>6, RequestedPlaces DEF DeleteItem, delete_item
  <2> HIDE DEF e
  <2> QED
    BY <1>1, <2>1
<1>7. ASSUME NEW i \in Dish, NEW sizes, NEW toppings, ReplaceItemModifiers(i, sizes, toppings)
      PROVE  TypesInv'
  <2> DEFINE e == replace_item_modifiers(db, i, sizes, toppings)
  <2>1. PlacesTyped(e) /\ e.bill = db.bill
    BY <1>0, RequestedPlaces, RestOfMenu
  <2>2. /\ Request("menu", e) /\ UNCHANGED <<policy, switched, asked, granted, beyond>>
        /\ repriced' = IF sizes = << >> THEN repriced ELSE repriced \ {i}
    BY <1>7 DEF ReplaceItemModifiers
  <2> HIDE DEF e
  <2>3. TypedBy(e)
    BY <2>2 DEF Request, TypedBy, TypesInv
  <2> QED
    BY <1>0, <2>1, <2>3, TypesKept
<1>8. ASSUME NEW i \in Dish, NEW c \in Category, NEW price, NEW diet, NEW sizes, NEW toppings,
             CreateItem(i, c, price, diet, sizes, toppings)
      PROVE  TypesInv'
  <2> DEFINE e == create_item(db, i, c, price, diet, sizes, toppings)
  <2>1. PlacesTyped(e) /\ e.bill = db.bill
    BY <1>0, RequestedPlaces, RestOfMenu
  <2>2. MenuRequest(e)
    BY <1>8 DEF CreateItem
  <2> HIDE DEF e
  <2> QED
    BY <1>1, <2>1, <2>2
<1> QED
  BY <1>2, <1>3, <1>4, <1>5, <1>6, <1>7, <1>8

\* Requests about the rules leave menu and bill alone.
LEMMA TaxTypes ==
  ASSUME TypesInv, PricesInv',
         \/ ListRules
         \/ \E new \in NewRule : CreateRule(new)
         \/ \E k \in DOMAIN db.rules : DeleteRule(k) \/ \E data \in RuleChange : UpdateRule(k, data)
         \/ \E yes \in BOOLEAN : SetEnabled(yes)
  PROVE  TypesInv'
<1>0. DOMAIN db = OutletColumns /\ PlacesTyped(db) /\ db.bill \in BillRow
  BY DEF TypesInv, PricesInv, MenuOK
<1>1. PICK new, rules : /\ TaxRequest(new) /\ new = [db EXCEPT !.rules = rules]
                        /\ switched' \in BOOLEAN
  <2>1. CASE ListRules
    BY <1>0, <2>1 DEF ListRules, ensure_gst_catalog, TypesInv
  <2>2. CASE \E new \in NewRule : CreateRule(new)
    BY <1>0, <2>2 DEF CreateRule, create, TypesInv
  <2>3. CASE \E k \in DOMAIN db.rules : DeleteRule(k)
    BY <1>0, <2>3 DEF DeleteRule, delete, TypesInv
  <2>4. CASE \E k \in DOMAIN db.rules : \E data \in RuleChange : UpdateRule(k, data)
    BY <1>0, <2>4 DEF UpdateRule, update, TypesInv
  <2>5. CASE \E yes \in BOOLEAN : SetEnabled(yes)
    BY <1>0, <2>5 DEF SetEnabled, set_enabled, TypesInv
  <2> QED
    BY <2>1, <2>2, <2>3, <2>4, <2>5
<1>2. TypedBy(new)
  BY <1>1 DEF TaxRequest, Request, TypedBy, TypesInv
<1>3. PlacesTyped(new) /\ new.bill = db.bill
  BY <1>0, <1>1 DEF PlacesTyped, OutletColumns
<1> QED
  BY <1>0, <1>2, <1>3, TypesKept

\* Requests about the order compute a typed bill, from the lines they leave.
LEMMA OrderTypes ==
  ASSUME TypesInv, PricesInv',
         \/ \E l \in Line :
              \/ CancelLine(l) \/ RemoveLine(l)
              \/ \E i \in Dish, k \in 0 .. 2, n \in 1 .. 2 : AddLine(l, i, k, n)
              \/ \E price \in Price \cup {db.line[l].each}, n \in 1 .. 2 : UpdateLine(l, price, n)
              \/ \E i \in Dish \cup {"nothing"}, price \in Price, n \in 1 .. 2 :
                   AddOpenLine(l, i, price, n)
         \/ \E type \in OrderType, charge \in Charge : UpdateTypeAndTime(type, charge)
         \/ \E p \in Preview, role \in {"OWNER", "EMPLOYEE"}, knowsPin \in BOOLEAN :
              CreateOrRefreshBill(p, role, knowsPin) \/ SettleBill(p, role, knowsPin)
         \/ PayInFull
  PROVE  TypesInv'
<1>0. /\ DOMAIN db = OutletColumns /\ PlacesTyped(db) /\ db.bill \in BillRow
      /\ db.line \in [Line -> LineRow] /\ db.charge \in Nat /\ Ruled(db.rules)
  BY DEF TypesInv, PricesInv, MenuOK, BillOK, RulesOK
<1>1. ASSUME NEW l, NEW row, LineRequest(WithLine(l, row))
      PROVE  TypesInv'
  <2> DEFINE d == [db EXCEPT !.line[l] = row]
             e == WithLine(l, row)
  <2>1. /\ DOMAIN d = OutletColumns /\ SamePlaces(d, db) /\ d.bill = db.bill
        /\ d.rules = db.rules /\ d.charge = db.charge
    BY <1>0 DEF OutletColumns, SamePlaces
  <2>2. e = IF db.bill.state = "open" THEN Refreshed(d, "open") ELSE d
    BY <2>1 DEF WithLine, maybe_refresh_open_bill
  <2>3. db' = e /\ TypedBy(e)
    BY <1>1 DEF LineRequest, StalingRequest, OrderRequest, Request, TypedBy, TypesInv
  <2> HIDE DEF d, e
  <2>4. e.line \in [Line -> LineRow]
    BY <2>3 DEF PricesInv, BillOK
  <2>5. SamePlaces(e, d) /\ e.bill \in BillRow
    <3>1. CASE db.bill.state = "open"
      <4> DEFINE p == [amount |-> IF d.bill.percent > 0 THEN 0 ELSE d.bill.discount,
                       percent |-> d.bill.percent,
                       taxes |-> d.bill.method # "none" \/ d.bill.tax > 0
                                 \/ d.bill.taxPercent > 0,
                       tip |-> d.bill.tip, rounds |-> TRUE]
      <4>1. e = Refreshed(d, "open") /\ Refreshed(d, "open") = Billed(d, p, "open")
        BY <2>2, <3>1 DEF Refreshed
      <4> HIDE DEF p
      <4>2. e["line"] = d["line"]
        BY <2>1, <4>1, BilledRow DEF OutletColumns
      <4>3. /\ d.line \in [Line -> LineRow] /\ Ruled(d.rules) /\ d.bill \in BillRow
            /\ d.charge \in Nat
        BY <1>0, <2>1, <2>4, <4>2
      <4> QED
        BY <2>1, <4>1, <4>3, RefreshedTyped
    <3>2. CASE db.bill.state # "open"
      BY <1>0, <2>1, <2>2, <3>2 DEF SamePlaces
    <3> QED
      BY <3>1, <3>2
  <2>6. PlacesTyped(e)
    BY <1>0, <2>1, <2>5 DEF SamePlaces, PlacesTyped
  <2> QED
    BY <2>3, <2>5, <2>6, TypesKept
<1>2. ASSUME NEW p \in Preview, NEW role, NEW knowsPin, NEW state \in {"open", "settled"},
             Asked(p, role, knowsPin, state)
      PROVE  TypesInv'
  <2> DEFINE e == Billed(db, p, state)
  <2>1. /\ p.amount \in Nat /\ p.percent \in Nat /\ p.tip \in Nat
        /\ p.taxes \in BOOLEAN /\ p.rounds \in BOOLEAN
    BY PricingAssumption, PercentNat
  <2>2. TypedBy(e)
    BY <1>2, <2>1 DEF Asked, OrderRequest, Request, TypedBy, TypesInv
  <2>3. e.bill \in BillRow
    BY <1>0, <2>1, BilledTyped
  <2>4. \A c \in OutletColumns \ {"bill"} : e[c] = db[c]
    BY <1>0, BilledRow
  <2> HIDE DEF e
  <2>5. PlacesTyped(e)
    BY <1>0, <2>4 DEF PlacesTyped, OutletColumns
  <2> QED
    BY <2>2, <2>3, <2>5, TypesKept
<1>3. CASE PayInFull
  <2> DEFINE e == Refreshed(db, "settled")
  <2>1. TypedBy(e)
    BY <1>3 DEF PayInFull, LineRequest, StalingRequest, OrderRequest, Request, TypedBy, TypesInv
  <2>2. SamePlaces(e, db) /\ e.bill \in BillRow
    BY <1>0, RefreshedTyped
  <2> HIDE DEF e
  <2>3. PlacesTyped(e)
    BY <1>0, <2>2 DEF SamePlaces, PlacesTyped
  <2> QED
    BY <2>1, <2>2, <2>3, TypesKept
<1>4. ASSUME NEW l \in Line, CancelLine(l)
      PROVE  TypesInv'
  BY <1>1, <1>4 DEF CancelLine
<1>5. ASSUME NEW l \in Line, NEW i \in Dish, NEW k, NEW n, AddLine(l, i, k, n)
      PROVE  TypesInv'
  BY <1>1, <1>5 DEF AddLine
<1>6. ASSUME NEW l \in Line, NEW price, NEW n, UpdateLine(l, price, n)
      PROVE  TypesInv'
  BY <1>1, <1>6 DEF UpdateLine
<1>7. ASSUME NEW l \in Line, NEW i, NEW price, NEW n, AddOpenLine(l, i, price, n)
      PROVE  TypesInv'
  BY <1>1, <1>7 DEF AddOpenLine
<1>8. ASSUME NEW p \in Preview, NEW role, NEW knowsPin,
             CreateOrRefreshBill(p, role, knowsPin) \/ SettleBill(p, role, knowsPin)
      PROVE  TypesInv'
  BY <1>2, <1>8 DEF CreateOrRefreshBill, SettleBill
<1>9. ASSUME NEW l \in Line, RemoveLine(l)
      PROVE  TypesInv'
  <2> DEFINE f == maybe_refresh_open_bill(db)
             e == [f EXCEPT !.line[l] = NoLine]
  <2>1. TypedBy(e)
    BY <1>9 DEF RemoveLine, StalingRequest, OrderRequest, Request, TypedBy, TypesInv
  <2>2. SamePlaces(f, db) /\ f.bill \in BillRow
    <3>1. CASE db.bill.state = "open"
      BY <1>0, <3>1, RefreshedTyped DEF maybe_refresh_open_bill
    <3>2. CASE db.bill.state # "open"
      BY <1>0, <3>2 DEF maybe_refresh_open_bill, SamePlaces
    <3> QED
      BY <3>1, <3>2
  <2> HIDE DEF f
  <2>3. SamePlaces(e, f) /\ e.bill = f.bill
    BY DEF SamePlaces
  <2> HIDE DEF e
  <2>4. PlacesTyped(e)
    BY <1>0, <2>2, <2>3 DEF SamePlaces, PlacesTyped
  <2> QED
    BY <2>1, <2>2, <2>3, <2>4, TypesKept
<1>10. ASSUME NEW kind \in OrderType, NEW charge \in Charge, UpdateTypeAndTime(kind, charge)
       PROVE  TypesInv'
  <2> DEFINE e == [db EXCEPT !.type = kind, !.charge = charge]
  <2>1. TypedBy(e)
    BY <1>10 DEF UpdateTypeAndTime, StalingRequest, OrderRequest, Request, TypedBy, TypesInv
  <2>2. e.bill = db.bill /\ PlacesTyped(e)
    BY <1>0 DEF PlacesTyped, OutletColumns
  <2> HIDE DEF e
  <2> QED
    BY <1>0, <2>1, <2>2, TypesKept
<1> QED
  BY <1>3, <1>4, <1>5, <1>6, <1>7, <1>8, <1>9, <1>10

\* The types hold at first, and every step keeps them.
LEMMA TypesInit ==
  ASSUME PricingInit
  PROVE  TypesInv
<1>1. PICK c \in Category, i \in Dish, n \in CategoryName, price \in Price, kind \in OrderType :
        db = create_item(
               create_category(
                 [category |-> [k \in Category |-> "unused"], name |-> [k \in Category |-> n],
                  dish |-> [k \in Dish |-> "unused"], under |-> [k \in Dish |-> c],
                  price |-> [k \in Dish |-> 0], diet |-> [k \in Dish |-> "VEG"],
                  available |-> [k \in Dish |-> TRUE], sizes |-> [k \in Dish |-> << >>],
                  toppings |-> [k \in Dish |-> NoToppings],
                  type |-> kind, charge |-> 0, line |-> [l \in Line |-> NoLine],
                  rules |-> << >>, bill |-> NoBill], c, n), i, c, price, "VEG", << >>, NoToppings)
  BY DEF PricingInit
<1> DEFINE d == [category |-> [k \in Category |-> "unused"], name |-> [k \in Category |-> n],
                 dish |-> [k \in Dish |-> "unused"], under |-> [k \in Dish |-> c],
                 price |-> [k \in Dish |-> 0], diet |-> [k \in Dish |-> "VEG"],
                 available |-> [k \in Dish |-> TRUE], sizes |-> [k \in Dish |-> << >>],
                 toppings |-> [k \in Dish |-> NoToppings],
                  type |-> kind, charge |-> 0, line |-> [l \in Line |-> NoLine],
                 rules |-> << >>, bill |-> NoBill]
           e == create_category(d, c, n)
<1>2. db = create_item(e, i, c, price, "VEG", << >>, NoToppings)
  BY <1>1
<1>3. DOMAIN d = OutletColumns /\ PlacesTyped(d) /\ d.bill = NoBill
  BY DEF OutletColumns, PlacesTyped, RowState
<1> HIDE DEF d
<1>4. DOMAIN e = OutletColumns /\ PlacesTyped(e) /\ e.bill = NoBill
  <2>1. DOMAIN e = OutletColumns
    BY <1>3 DEF create_category
  <2> QED
    BY <1>3, <2>1, RequestedPlaces, RestOfMenu
<1> HIDE DEF e
<1>5. PlacesTyped(db) /\ db.bill = NoBill
  BY <1>2, <1>4, RequestedPlaces, RestOfMenu
<1>6. NoBill \in BillRow
  BY DEF NoBill, BillRow
<1> QED
  BY <1>5, <1>6, PricesInit DEF PricingInit, TypesInv

LEMMA TypesInductive ==
  ASSUME TypesInv, [PricingNext]_pricingVars
  PROVE  TypesInv'
<1>1. PricesInv'
  BY PricesInductive DEF TypesInv
<1>2. CASE UNCHANGED pricingVars
  BY <1>1, <1>2 DEF pricingVars, TypesInv, PlacesTyped
<1>3. ASSUME UNCHANGED <<db, repriced, switched, asked>>
      PROVE  TypesInv'
  BY <1>1, <1>3 DEF TypesInv, PlacesTyped
<1>4. CASE \E caps \in Policy : UpdatePolicy(caps.max, caps.worker)
  BY <1>3, <1>4 DEF UpdatePolicy, Request
<1>5. CASE SetManagerPin
  BY <1>3, <1>5 DEF SetManagerPin, Request
<1> QED
  BY <1>1, <1>2, <1>4, <1>5, MenuTypes, TaxTypes, OrderTypes DEF PricingNext

\* For any menus, rules, lines and requests, every row keeps its types: above all,
\* no total and no part of a tax on a bill is ever less than nothing.
THEOREM PricesTyped == PricingSpec => []PricingTypeOK
<1>1. TypesInv => PricingTypeOK
  <2> SUFFICES ASSUME TypesInv
               PROVE  PricingTypeOK
    OBVIOUS
  <2>1. MenuOK(db, repriced) /\ BillOK(db, policy.max, granted, beyond) /\ RulesOK(db.rules, switched)
    BY DEF TypesInv, PricesInv
  <2> DEFINE menu == [k \in DOMAIN db \ {"type", "charge", "line", "rules", "bill"} |-> db[k]]
  <2>2. menu \in MenuRows
    <3>1. menu = [category |-> db.category, name |-> db.name, dish |-> db.dish,
                  under |-> db.under, price |-> db.price, diet |-> db.diet,
                  available |-> db.available, sizes |-> db.sizes, toppings |-> db.toppings]
      <4>1. DOMAIN db \ {"type", "charge", "line", "rules", "bill"}
              = {"category", "name", "dish", "under", "price", "diet", "available", "sizes",
                 "toppings"}
        BY <2>1 DEF MenuOK, OutletColumns
      <4>2. menu = [k \in {"category", "name", "dish", "under", "price", "diet", "available",
                           "sizes", "toppings"} |-> db[k]]
        BY <4>1
      <4> HIDE DEF menu
      <4> QED
        BY <4>2
    <3> HIDE DEF menu
    <3> QED
      BY <2>1, <3>1 DEF TypesInv, PlacesTyped, MenuOK, MenuRows
  <2>3. db.type \in OrderType /\ db.charge \in Nat /\ beyond \in Int
    BY <2>1 DEF TypesInv, PlacesTyped, BillOK
  <2> QED
    BY <2>1, <2>2, <2>3 DEF TypesInv, PricesInv, BillOK, RulesOK, Ruled, PricingTypeOK
<1> QED
  BY <1>1, TypesInit, TypesInductive, PTL DEF PricingSpec

\* For any menus, lines, rules, policies and requests about them, a settled bill
\* adds up the lines of the order as they were sold and its table time, and an open
\* bill differs from that by the line removed when it was last computed and by
\* what table time changed since, no more: no edit or deletion of dishes changes
\* what lines come to.
THEOREM SoldIsBilled == PricingSpec => []BilledHistoryKept
<1>1. PricesInv => BilledHistoryKept
  BY DEF PricesInv, BillOK, BilledHistoryKept
<1> QED
  BY <1>1, PricesInit, PricesInductive, PTL DEF PricingSpec

\* For any menus and requests, a dish with sizes is charged at the price the menu
\* shows when no size is named, while its default size is to be had.
THEOREM MenuPriceCharged == PricingSpec => []ShownPriceCharged
<1>1. PricesInv => ShownPriceCharged
  <2> SUFFICES ASSUME PricesInv, NEW i \in LiveDishes(db) \ repriced,
                      Defaults(db.sizes[i]) \cap AvailableSizes(db.sizes[i]) # {},
                      NEW k \in ResolvedSizes(db, i, 0)
               PROVE  UnitPrice(db, i, k) = db.price[i]
    BY DEF ShownPriceCharged
  <2> DEFINE sizes == db.sizes[i]
  <2>1. i \in Dish /\ PricedBySize(db, i) /\ sizes \in Seq(SizeRow)
    BY DEF LiveDishes, PricesInv, MenuOK
  <2>2. sizes # << >>
    BY DEF Defaults
  <2>3. PICK j \in DOMAIN sizes : Defaults(sizes) = {j} /\ db.price[i] = sizes[j].price
    BY <2>1, <2>2 DEF PricedBySize
  <2>4. k \in AvailableSizes(sizes) \cap Defaults(sizes)
    BY <2>2 DEF ResolvedSizes, pick_default_variation
  <2>5. k = j /\ k # 0
    BY <2>1, <2>3, <2>4
  <2> QED
    BY <2>3, <2>5 DEF UnitPrice
<1> QED
  BY <1>1, PricesInit, PricesInductive, PTL DEF PricingSpec

\* For any rules and changes of them, at most one GST rule is active until all
\* taxes are switched on together.
THEOREM AtMostOneGst == PricingSpec => []OneGstRate
<1>1. PricesInv => OneGstRate
  <2> SUFFICES ASSUME PricesInv, ~ switched
               PROVE  Cardinality({k \in DOMAIN db.rules : db.rules[k].scheme = "gst"
                                                           /\ db.rules[k].active}) <= 1
    BY DEF OneGstRate
  <2> DEFINE on == {k \in DOMAIN db.rules : db.rules[k].scheme = "gst" /\ db.rules[k].active}
  <2>1. \A j, k \in on : j = k
    BY DEF PricesInv, RulesOK, OneGst, Gst
  <2> HIDE DEF on
  <2>2. CASE on = {}
    BY <2>2, FS_EmptySet DEF on
  <2>3. CASE on # {}
    <3>1. PICK k : on = {k}
      BY <2>1, <2>3
    <3>2. Cardinality(on) = 1
      BY <3>1, FS_Singleton
    <3> QED
      BY <3>2 DEF on
  <2> QED
    BY <2>2, <2>3
<1> QED
  BY <1>1, PricesInit, PricesInductive, PTL DEF PricingSpec

\* For any menus, discounts, caps and requests: a discount granted on an order
\* that cost something stays within the cap, however the bill is computed again.
THEOREM CapKept == PricingSpec => []DiscountWithinCap
<1>1. PricesInv => DiscountWithinCap
  BY DEF PricesInv, BillOK, WithinCap, DiscountWithinCap
<1> QED
  BY <1>1, PricesInit, PricesInductive, PTL DEF PricingSpec

\* For any rules, lines, discounts and requests: the parts of a tax add up to it,
\* GST is near the exact one by every method, and rules for dishes tax no others.
THEOREM TaxesHold == PricingSpec => []TaxesAddUp
<1>1. PricesInv => TaxesAddUp
  <2> SUFFICES ASSUME PricesInv
               PROVE  TaxesAddUp
    OBVIOUS
  <2>1. /\ Ruled(db.rules) /\ db.line \in [Line -> LineRow] /\ db.charge \in Nat
        /\ db.bill.discount \in Nat /\ db.bill.percent \in Nat
    BY DEF PricesInv, RulesOK, BillOK
  <2>2. Subtotal(db) \in Nat
    BY <2>1, SubtotalNat
  <2> DEFINE x == DiscountOf(Subtotal(db), db.bill.discount, db.bill.percent)
  <2>3. x \in Nat /\ x <= Subtotal(db)
    BY <2>1, <2>2, DiscountBounds
  <2> HIDE DEF x
  <2>4. TaxableNow \in Nat /\ TaxableNow <= Subtotal(db)
    BY <2>2, <2>3 DEF TaxableNow, x
  <2> QED
    BY <2>1, <2>4, GstFits, TaxFits DEF TaxesAddUp
<1> QED
  BY <1>1, PricesInit, PricesInductive, PTL DEF PricingSpec

\* For any rules, lines and requests: a bill with taxes is charged, by any request
\* that changes the order's lines, what the rules charge on them, a line that is
\* being removed included.
THEOREM TaxesFollowLines == PricingSpec => TaxedBillStaysTaxed
<1>1. PricesInv /\ [PricingNext]_pricingVars
        => [(asked /\ db.bill.tax > 0 /\ db.bill.state = "open" /\ db'.line # db.line
             /\ made'["order"] # made["order"])
              => db'.bill.tax = TaxOn([db' EXCEPT !.line = Counted(db.line, db'.line)],
                                      db'.bill.subtotal - db'.bill.discount).amount]_pricingVars
  BY PricesInductive DEF TaxKept
<1> QED
  BY <1>1, PricesInit, PricesInductive, PTL DEF PricingSpec, TaxedBillStaysTaxed
=============================================================================
