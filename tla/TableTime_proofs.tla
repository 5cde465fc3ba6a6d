---------------------------- MODULE TableTime_proofs ----------------------------
(***************************************************************************)
(* For any areas, tables, rates, durations and workers: the rows keep      *)
(* their types and foreign keys, and every time-based table has a rate,    *)
(* however requests overlap; one request at a time, the session of an      *)
(* order and its charge fit each other.                                    *)
(***************************************************************************)
EXTENDS TableTime, TLAPS

FloorRows == [area : [Area -> AreaRow], table : [Table -> TableRow], order : OrderRow]

Request == [busy : {TRUE}, loaded : FloorRows, new : FloorRows]

\* Of an area or a table: a time-based one has a rate, and an identity that
\* was never used has none and is no row.
RowOK(r) ==
  (r.timed => r.rate # NoRate) /\ (~ r.used => r.rate = NoRate) /\ (r.there => r.used)

\* What time does to such a row: a rate is replaced but never taken away.
RowKept(r, s) == (r.rate # NoRate => s.rate # NoRate) /\ (r.used => s.used)

FloorOK(d) ==
  (\A a \in Area : RowOK(d.area[a])) /\ (\A t \in Table : RowOK(d.table[t]))

Follows(d, e) ==
  /\ \A a \in Area : RowKept(d.area[a], e.area[a])
  /\ \A t \in Table : RowKept(d.table[t], e.table[t])

\* What overlapping requests may break.
AreasOK(d) ==
  \A a \in Area : d.area[a].there /\ d.area[a].timed => d.area[a].rate > 0 /\ d.area[a].window

\* ChargeFitsSession, of a row of the order.
SessionOK(o) ==
  LET half == o.rate * (o.end - o.start)
  IN /\ o.end # NoTime <=> o.charge # NoCharge
     /\ o.charge # NoCharge =>
          /\ NoTime < o.start /\ o.start <= o.end /\ o.rate > 0
          /\ 120 * o.charge <= 60 + (IF o.end - o.start < 2 THEN 2 * o.rate ELSE half)
          /\ 120 * o.charge > half - 2 * o.rate - 60
     /\ o.start = NoTime <=> o.rate = NoRate
     /\ o.excluded => o.start = NoTime

Exact(d) == AreasOK(d) /\ SessionOK(d.order)

ForeignKeys ==
  /\ \A t \in Tables(db) : db.table[t].area \in Areas(db)
  /\ db.order.table \in Tables(db) \cup {NoTable}

RequestOK(w) ==
  /\ FloorOK(req[w].loaded) /\ FloorOK(req[w].new)
  /\ Follows(req[w].loaded, req[w].new)
  /\ Follows(req[w].loaded, db)

\* Alone, a request has read the present rows.
Alone ==
  ~ overlapped =>
    /\ Exact(db)
    /\ \A w \in Worker : req[w].busy =>
         /\ req[w].loaded = db
         /\ Exact(req[w].new)
         /\ \A v \in Worker \ {w} : ~ req[v].busy

\* The inductive invariant. A column a request writes may come from another
\* state than the columns next to it; a table keeps its rate all the same,
\* because no request ever sets a rate to NULL.
TimeInv ==
  /\ db \in FloorRows /\ req \in [Worker -> Request \cup {Idle}]
  /\ started \in 0 .. MaxRequests /\ now \in 0 .. MaxTime /\ overlapped \in BOOLEAN
  /\ ForeignKeys
  /\ FloorOK(db)
  /\ \A w \in Worker : req[w].busy => RequestOK(w)
  /\ Alone

\* What a handler prepares from the rows it sees.
Prepared(w, new) ==
  /\ Prepare(w, new)
  /\ new \in FloorRows /\ FloorOK(new) /\ Follows(db, new)
  /\ Exact(db) => Exact(new)

-----------------------------------------------------------------------------
(* The edits of areas and tables *)

LEMMA RateGiven ==
  ASSUME NEW rate \in Rate \cup {NoRate}, NEW old \in Rate \cup {NoRate}
  PROVE  /\ Given(rate, old) \in Rate \cup {NoRate}
         /\ old # NoRate => Given(rate, old) # NoRate
  BY DEF Given

\* An edit of areas and tables leaves the order alone.
LEMMA FloorEdit ==
  ASSUME TimeInv, NEW w \in Worker, NEW new \in FloorRows, Prepare(w, new),
         new.order = db.order,
         \A a \in Area : \/ new.area[a] = db.area[a]
                         \/ /\ RowOK(new.area[a]) /\ RowKept(db.area[a], new.area[a])
                            /\ \/ ~ new.area[a].there
                               \/ _validate_time_area_state(new.area[a]),
         \A t \in Table : \/ new.table[t] = db.table[t]
                          \/ RowOK(new.table[t]) /\ RowKept(db.table[t], new.table[t])
  PROVE  Prepared(w, new)
<1>1. FloorOK(new) /\ Follows(db, new)
  BY DEF FloorOK, Follows, TimeInv, RowKept
<1>2. AreasOK(db) => AreasOK(new)
  BY DEF AreasOK, _validate_time_area_state
<1> QED
  BY <1>1, <1>2 DEF Prepared, Exact

\* The tables a request adds have not been used before.
LEMMA TablesAdded ==
  ASSUME NEW d \in FloorRows, NEW a \in Area, NEW tables \in SUBSET Table,
         RowOK(d.area[a]), \A t \in tables : ~ d.table[t].used /\ RowOK(d.table[t])
  PROVE  LET new == _add_tables(d, a, tables)
         IN /\ new \in FloorRows /\ new.area = d.area /\ new.order = d.order
            /\ \A t \in Table :
                 \/ new.table[t] = d.table[t]
                 \/ RowOK(new.table[t]) /\ RowKept(d.table[t], new.table[t])
<1> DEFINE row == [used |-> TRUE, there |-> TRUE, area |-> a, timed |-> d.area[a].timed,
                   rate |-> IF d.area[a].timed THEN d.area[a].rate ELSE NoRate]
           table == [t \in Table |-> IF t \in tables THEN row ELSE d.table[t]]
<1>1. row \in TableRow /\ RowOK(row)
  BY DEF FloorRows, AreaRow, TableRow, RowOK
<1>2. _add_tables(d, a, tables) = [d EXCEPT !.table = table]
  BY DEF _add_tables
<1>3. \A t \in tables : RowKept(d.table[t], row)
  BY DEF RowOK, RowKept
<1> HIDE DEF row
<1>4. table \in [Table -> TableRow]
  BY <1>1 DEF FloorRows
<1>5. \A t \in Table : \/ table[t] = d.table[t]
                       \/ RowOK(table[t]) /\ RowKept(d.table[t], table[t])
  BY <1>1, <1>3
<1> HIDE DEF table
<1> QED
  BY <1>2, <1>4, <1>5 DEF FloorRows

LEMMA AreaCreated ==
  ASSUME TimeInv, NEW w \in Worker, NEW timed \in BOOLEAN, NEW window \in BOOLEAN,
         NEW rate \in Rate \cup {NoRate}, NEW tables \in SUBSET Table,
         CreateArea(w, timed, window, rate, tables)
  PROVE  \E new : Prepared(w, new)
<1> DEFINE row == [used |-> TRUE, there |-> TRUE, timed |-> timed, window |-> window, rate |-> rate]
<1>1. PICK a \in Fresh(db, "area", Area) :
        /\ tables \subseteq Fresh(db, "table", Table)
        /\ _validate_time_area_state(row)
        /\ Prepare(w, create_area(db, a, row, tables))
  BY DEF CreateArea
<1>2. db \in FloorRows /\ FloorOK(db)
  BY DEF TimeInv
<1>3. a \in Area /\ ~ db.area[a].used /\ RowOK(db.area[a])
  BY <1>1, <1>2 DEF Fresh, FloorOK
<1>4. \A t \in tables : ~ db.table[t].used /\ RowOK(db.table[t])
  BY <1>1, <1>2 DEF Fresh, FloorOK
<1>5. row \in AreaRow /\ RowOK(row) /\ RowKept(db.area[a], row)
  BY <1>1, <1>3 DEF AreaRow, RowOK, RowKept, _validate_time_area_state, NoRate
<1> DEFINE d == [db EXCEPT !.area[a] = row]
           new == _add_tables(d, a, tables)
<1>6. /\ d \in FloorRows /\ d.area = [db.area EXCEPT ![a] = row]
      /\ d.table = db.table /\ d.order = db.order
  <2> HIDE DEF row
  <2> QED
    BY <1>2, <1>3, <1>5 DEF FloorRows
<1>7. Prepare(w, new)
  BY <1>1 DEF create_area
<1> HIDE DEF d, row
<1>8. RowOK(d.area[a]) /\ \A b \in Area : b # a => d.area[b] = db.area[b]
  BY <1>2, <1>3, <1>5, <1>6 DEF FloorRows
<1>9. /\ new \in FloorRows /\ new.area = d.area /\ new.order = d.order
      /\ \A t \in Table :
           \/ new.table[t] = d.table[t]
           \/ RowOK(new.table[t]) /\ RowKept(d.table[t], new.table[t])
  BY <1>3, <1>4, <1>6, <1>8, TablesAdded
<1> HIDE DEF new
<1>10. \A b \in Area :
         \/ new.area[b] = db.area[b]
         \/ /\ RowOK(new.area[b]) /\ RowKept(db.area[b], new.area[b])
            /\ _validate_time_area_state(new.area[b])
  BY <1>1, <1>2, <1>3, <1>5, <1>6, <1>8, <1>9 DEF FloorRows, row
<1> QED
  BY <1>6, <1>7, <1>9, <1>10, FloorEdit

LEMMA AreaUpdated ==
  ASSUME TimeInv, NEW w \in Worker, NEW a \in Area, NEW timed \in BOOLEAN,
         NEW window \in BOOLEAN, NEW rate \in Rate \cup {NoRate},
         UpdateArea(w, a, timed, window, rate)
  PROVE  \E new : Prepared(w, new)
<1> DEFINE old == db.area[a]
           row == [old EXCEPT !.timed = timed, !.window = old.window \/ window,
                              !.rate = Given(rate, old.rate)]
           new == update_area(db, a, timed, window, rate)
<1>1. old.there /\ _validate_time_area_state(new.area[a]) /\ Prepare(w, new)
  BY DEF UpdateArea, Areas
<1>2. db \in FloorRows /\ old \in AreaRow /\ RowOK(old)
  BY DEF TimeInv, FloorRows, FloorOK
<1>3. new = [db EXCEPT !.area[a] = row]
  BY Zenon DEF update_area
<1>4. (old.window \/ window) \in BOOLEAN
  OBVIOUS
<1>5. /\ row \in AreaRow /\ row.timed = timed /\ row.used = old.used
      /\ row.rate = Given(rate, old.rate) /\ row.there = old.there
  BY <1>2, <1>4, RateGiven DEF AreaRow
<1> HIDE DEF new, row
<1>6. new \in FloorRows /\ new.area[a] = row /\ new.order = db.order /\ new.table = db.table
      /\ \A b \in Area : b # a => new.area[b] = db.area[b]
  BY <1>2, <1>3, <1>5 DEF FloorRows
<1>7. RowKept(old, row)
  BY <1>2, <1>5, RateGiven DEF RowKept, AreaRow
<1>8. RowOK(row)
  <2>1. row.timed => row.rate # NoRate
    BY <1>1, <1>6 DEF _validate_time_area_state, NoRate
  <2> QED
    BY <1>1, <1>2, <1>5, <2>1 DEF RowOK
<1> QED
  BY <1>1, <1>6, <1>7, <1>8, FloorEdit

LEMMA AreaDeleted ==
  ASSUME TimeInv, NEW w \in Worker, NEW a \in Area, DeleteArea(w, a)
  PROVE  \E new : Prepared(w, new)
<1> DEFINE row == [db.area[a] EXCEPT !.there = FALSE]
           area == [db.area EXCEPT ![a] = row]
           kept(t) == db.table[t].there /\ db.table[t].area # a
           table == [t \in Table |-> [db.table[t] EXCEPT !.there = kept(t)]]
           new == [db EXCEPT !.area = area, !.table = table]
<1>1. db \in FloorRows /\ FloorOK(db)
  BY DEF TimeInv
<1>2. row \in AreaRow /\ RowOK(row) /\ RowKept(db.area[a], row) /\ ~ row.there
  BY <1>1 DEF FloorRows, FloorOK, AreaRow, RowOK, RowKept
<1>3. \A t \in Table : kept(t) \in BOOLEAN /\ (kept(t) => db.table[t].there)
  OBVIOUS
<1> HIDE DEF row
<1>4. area \in [Area -> AreaRow]
  BY <1>1, <1>2 DEF FloorRows
<1>5. /\ table \in [Table -> TableRow]
      /\ \A t \in Table : RowOK(table[t]) /\ RowKept(db.table[t], table[t])
  <2> HIDE DEF kept
  <2> QED
    BY <1>1, <1>3 DEF FloorRows, FloorOK, TableRow, RowOK, RowKept
<1>6. Prepare(w, new)
  BY Zenon DEF DeleteArea, row
<1> HIDE DEF table
<1>7. new \in FloorRows /\ new.area = area /\ new.table = table /\ new.order = db.order
  BY <1>1, <1>4, <1>5 DEF FloorRows
<1> HIDE DEF new
<1>8. \A b \in Area : new.area[b] = db.area[b] \/ (b = a /\ new.area[b] = row)
  BY <1>1, <1>7 DEF FloorRows
<1> QED
  BY <1>2, <1>5, <1>6, <1>7, <1>8, FloorEdit

LEMMA TableCreated ==
  ASSUME TimeInv, NEW w \in Worker, NEW a \in Area, NEW timed \in BOOLEAN,
         NEW rate \in Rate \cup {NoRate}, CreateTable(w, a, timed, rate)
  PROVE  \E new : Prepared(w, new)
<1>1. PICK t \in Fresh(db, "table", Table) :
        LET new == create_table(db, t, a, timed, rate)
        IN Priced(new, t) /\ Prepare(w, new)
  BY DEF CreateTable
<1> DEFINE row == [used |-> TRUE, there |-> TRUE, area |-> a, timed |-> timed,
                   rate |-> IF timed THEN Given(rate, db.area[a].rate) ELSE rate]
           new == create_table(db, t, a, timed, rate)
<1>2. db \in FloorRows /\ t \in Table /\ ~ db.table[t].used /\ RowOK(db.table[t])
  BY <1>1 DEF TimeInv, FloorOK, Fresh
<1>3. row \in TableRow
  <2>1. db.area[a].rate \in Rate \cup {NoRate}
    BY <1>2 DEF FloorRows, AreaRow
  <2> QED
    BY <2>1, RateGiven DEF TableRow
<1>4. new = [db EXCEPT !.table[t] = row]
  BY DEF create_table
<1>5. Priced(new, t) /\ Prepare(w, new)
  BY <1>1
<1>6. row.timed = timed /\ row.used
  OBVIOUS
<1> HIDE DEF new, row
<1>7. new \in FloorRows /\ new.table[t] = row /\ new.order = db.order /\ new.area = db.area
      /\ \A u \in Table : u # t => new.table[u] = db.table[u]
  BY <1>2, <1>3, <1>4 DEF FloorRows
<1>8. RowOK(row) /\ RowKept(db.table[t], row)
  BY <1>2, <1>5, <1>6, <1>7 DEF RowOK, RowKept, Priced
<1> QED
  BY <1>5, <1>7, <1>8, FloorEdit

LEMMA TablesCreated ==
  ASSUME TimeInv, NEW w \in Worker, NEW a \in Area, NEW tables \in SUBSET Table,
         BulkCreateTables(w, a, tables)
  PROVE  \E new : Prepared(w, new)
<1> DEFINE new == _add_tables(db, a, tables)
<1>1. tables \subseteq Fresh(db, "table", Table) /\ Prepare(w, new)
  BY DEF BulkCreateTables
<1>2. db \in FloorRows /\ FloorOK(db)
  BY DEF TimeInv
<1>3. \A t \in tables : ~ db.table[t].used /\ RowOK(db.table[t])
  BY <1>1, <1>2 DEF Fresh, FloorOK
<1>4. RowOK(db.area[a])
  BY <1>2 DEF FloorOK
<1>5. /\ new \in FloorRows /\ new.area = db.area /\ new.order = db.order
      /\ \A t \in Table :
           \/ new.table[t] = db.table[t]
           \/ RowOK(new.table[t]) /\ RowKept(db.table[t], new.table[t])
  BY <1>2, <1>3, <1>4, TablesAdded
<1> HIDE DEF new
<1> QED
  BY <1>1, <1>5, FloorEdit

LEMMA TableUpdated ==
  ASSUME TimeInv, NEW w \in Worker, NEW t \in Table, NEW a \in Area, NEW timed \in BOOLEAN,
         NEW rate \in Rate \cup {NoRate}, UpdateTable(w, t, a, timed, rate)
  PROVE  \E new : Prepared(w, new)
<1> DEFINE old == db.table[t]
           row == [old EXCEPT !.area = a, !.timed = timed, !.rate = Given(rate, old.rate)]
           new == update_table(db, t, a, timed, rate)
<1>1. old.there /\ Priced(new, t) /\ Prepare(w, new)
  BY DEF UpdateTable, Tables
<1>2. db \in FloorRows /\ old \in TableRow /\ RowOK(old)
  BY DEF TimeInv, FloorRows, FloorOK
<1>3. new = [db EXCEPT !.table[t] = row]
  BY DEF update_table
<1>4. /\ row \in TableRow /\ row.timed = timed /\ row.used = old.used
      /\ row.rate = Given(rate, old.rate) /\ row.there = old.there
  BY <1>2, RateGiven DEF TableRow
<1> HIDE DEF new, row
<1>5. new \in FloorRows /\ new.table[t] = row /\ new.order = db.order /\ new.area = db.area
      /\ \A u \in Table : u # t => new.table[u] = db.table[u]
  BY <1>2, <1>3, <1>4 DEF FloorRows
<1>6. RowKept(old, row)
  BY <1>2, <1>4, RateGiven DEF RowKept, TableRow
<1>7. RowOK(row)
  BY <1>1, <1>2, <1>4, <1>5 DEF RowOK, Priced
<1> QED
  BY <1>1, <1>5, <1>6, <1>7, FloorEdit

LEMMA TableDeleted ==
  ASSUME TimeInv, NEW w \in Worker, NEW t \in Table, DeleteTable(w, t)
  PROVE  \E new : Prepared(w, new)
<1> DEFINE row == [db.table[t] EXCEPT !.there = FALSE]
           new == [db EXCEPT !.table[t] = row]
<1>1. db \in FloorRows /\ FloorOK(db)
  BY DEF TimeInv
<1>2. row \in TableRow /\ RowOK(row) /\ RowKept(db.table[t], row)
  BY <1>1 DEF FloorRows, FloorOK, TableRow, RowOK, RowKept
<1>3. Prepare(w, new)
  BY DEF DeleteTable
<1> HIDE DEF row
<1>4. new \in FloorRows /\ new.table[t] = row /\ new.order = db.order /\ new.area = db.area
      /\ \A u \in Table : u # t => new.table[u] = db.table[u]
  BY <1>1, <1>2 DEF FloorRows
<1> HIDE DEF new
<1> QED
  BY <1>2, <1>3, <1>4, FloorEdit

LEMMA FloorRequested ==
  ASSUME TimeInv, NEW w \in Worker, FloorRequest(w)
  PROVE  \E new : Prepared(w, new)
<1>1. CASE \E timed, window \in BOOLEAN, r \in Rate \cup {NoRate} :
             \/ \E tables \in SUBSET Table : CreateArea(w, timed, window, r, tables)
             \/ \E a \in Area : UpdateArea(w, a, timed, window, r)
  BY <1>1, AreaCreated, AreaUpdated
<1>2. CASE \E a \in Area, timed \in BOOLEAN, r \in Rate \cup {NoRate} :
             CreateTable(w, a, timed, r) \/ \E t \in Table : UpdateTable(w, t, a, timed, r)
  BY <1>2, TableCreated, TableUpdated
<1>3. CASE \E a \in Area : \/ DeleteArea(w, a)
                          \/ \E tables \in SUBSET Table \ {{}} : BulkCreateTables(w, a, tables)
  BY <1>3, AreaDeleted, TablesCreated
<1>4. CASE \E t \in Table : DeleteTable(w, t)
  BY <1>4, TableDeleted
<1> QED
  BY <1>1, <1>2, <1>3, <1>4 DEF FloorRequest

-----------------------------------------------------------------------------
(* The time session of the order *)

LEMMA MoneyNear ==
  ASSUME NEW a \in Nat
  PROVE  /\ M!money(a, 60) \in Nat
         /\ 60 * M!money(a, 60) <= a + 30 /\ a <= 60 * M!money(a, 60) + 30
<1> DEFINE q == a \div 60
           r == a % 60
<1>1. q \in Nat /\ r \in 0 .. 59 /\ a = 60 * q + r
  OBVIOUS
<1>2. M!money(a, 60) = IF 2 * r > 60 \/ (2 * r = 60 /\ q % 2 = 1) THEN q + 1 ELSE q
  BY DEF M!money
<1> HIDE DEF q, r
<1> QED
  BY <1>1, <1>2

\* The charge is at most half a paisa from what the minutes cost, and the
\* minutes are less than one from the time, the first one aside.
LEMMA ChargeNear ==
  ASSUME NEW start \in Nat, NEW end \in Nat, start <= end,
         NEW rate \in Nat, rate > 0, NEW minutes \in Nat, NEW charge,
         minutes = IF (end - start) \div 2 = 0 THEN 1 ELSE (end - start) \div 2,
         charge = compute_time_charge(minutes, rate)
  PROVE  /\ charge \in Nat
         /\ 120 * charge <= 60 + (IF end - start < 2 THEN 2 * rate ELSE rate * (end - start))
         /\ 120 * charge > rate * (end - start) - 2 * rate - 60
<1> DEFINE cost == minutes * rate
           half == rate * (end - start)
<1>1. cost \in Nat /\ half \in Nat
  OBVIOUS
<1>2. charge \in Nat /\ 120 * charge <= 2 * cost + 60 /\ 2 * cost <= 120 * charge + 60
  <2>1. charge = M!money(cost, 60)
    BY DEF compute_time_charge
  <2> HIDE DEF cost, half
  <2>2. M!money(cost, 60) \in Nat /\ 60 * M!money(cost, 60) <= cost + 30
        /\ cost <= 60 * M!money(cost, 60) + 30
    BY <1>1, MoneyNear
  <2> QED
    BY <1>1, <2>1, <2>2
<1>3. CASE end - start < 2
  <2>1. minutes = 1 /\ cost = rate
    BY <1>3
  <2>2. end - start = 0 \/ end - start = 1
    BY <1>3
  <2>3. half <= rate
    BY <2>2
  <2> HIDE DEF cost, half
  <2>4. 120 * charge <= 60 + 2 * rate /\ 120 * charge > half - 2 * rate - 60
    BY <1>1, <1>2, <2>1, <2>3
  <2> QED
    BY <1>2, <1>3, <2>4 DEF half
<1>4. CASE ~ (end - start < 2)
  <2> DEFINE long == end - start
  <2>1. end - start = 2 * minutes \/ end - start = 2 * minutes + 1
    <3>1. long \in Nat /\ long >= 2
      BY <1>4
    <3>2. minutes = IF long \div 2 = 0 THEN 1 ELSE long \div 2
      OBVIOUS
    <3> HIDE DEF long
    <3>3. minutes = long \div 2
      BY <3>1, <3>2
    <3>4. long = 2 * minutes \/ long = 2 * minutes + 1
      BY <3>1, <3>3
    <3> QED
      BY <3>4 DEF long
  <2>2. half = 2 * cost \/ half = 2 * cost + rate
    <3>1. CASE end - start = 2 * minutes
      BY <3>1
    <3>2. CASE end - start = 2 * minutes + 1
      <4>1. rate * (2 * minutes + 1) = 2 * (minutes * rate) + rate
        OBVIOUS
      <4> QED
        BY <3>2, <4>1
    <3> QED
      BY <2>1, <3>1, <3>2
  <2> HIDE DEF cost, half, long
  <2>3. 120 * charge <= 60 + half /\ 120 * charge > half - 2 * rate - 60
    BY <1>1, <1>2, <2>2
  <2> QED
    BY <1>2, <1>4, <2>3 DEF half
<1> QED
  BY <1>3, <1>4

LEMMA SessionCleared ==
  ASSUME NEW row \in OrderRow
  PROVE  Cleared(row) \in OrderRow /\ SessionOK(Cleared(row))
  BY DEF Cleared, OrderRow, SessionOK, NoTime, NoRate, NoCharge

LEMMA SessionRuns ==
  ASSUME NEW row \in OrderRow, ~ row.excluded, NEW start \in Nat, NEW rate \in Rate
  PROVE  Running(row, start, rate) \in OrderRow /\ SessionOK(Running(row, start, rate))
<1> DEFINE new == Running(row, start, rate)
<1>1. new \in OrderRow
  BY DEF Running, OrderRow
<1>2. /\ new.start # NoTime /\ new.end = NoTime /\ new.rate # NoRate /\ new.charge = NoCharge
      /\ ~ new.excluded
  BY TableTimeAssumption DEF Running, OrderRow, NoTime, NoRate
<1> HIDE DEF new
<1>3. SessionOK(new)
  BY <1>2 DEF SessionOK
<1> QED
  BY <1>1, <1>3 DEF new

LEMMA SessionEnds ==
  ASSUME NEW row \in OrderRow, ~ row.excluded, NEW start \in Nat, NEW end \in Nat,
         start <= end, NEW rate \in Rate, rate > 0
  PROVE  Ended(row, start, end, rate) \in OrderRow /\ SessionOK(Ended(row, start, end, rate))
<1> DEFINE full == (end - start) \div 2
           minutes == IF full = 0 THEN 1 ELSE full
           charge == compute_time_charge(minutes, rate)
           new == [row EXCEPT !.start = start, !.end = end, !.minutes = minutes, !.rate = rate,
                              !.charge = charge]
<1>1. rate \in Nat /\ minutes \in Nat
  BY TableTimeAssumption
<1>2. /\ charge \in Nat
      /\ 120 * charge <= 60 + (IF end - start < 2 THEN 2 * rate ELSE rate * (end - start))
      /\ 120 * charge > rate * (end - start) - 2 * rate - 60
  BY <1>1, ChargeNear
<1>3. Ended(row, start, end, rate) = new
  BY DEF Ended
<1> HIDE DEF minutes, charge
<1>4. new \in OrderRow
  BY <1>1, <1>2 DEF OrderRow
<1>5. /\ new.start = start /\ new.end = end /\ new.rate = rate /\ new.charge = charge
      /\ new.excluded = FALSE
  BY DEF OrderRow
<1> HIDE DEF new
<1>6. new.end # NoTime /\ new.charge # NoCharge /\ new.start # NoTime /\ new.rate # NoRate
      /\ NoTime < new.start
  BY <1>1, <1>2, <1>5 DEF NoTime, NoCharge, NoRate
<1>7. SessionOK(new)
  BY <1>1, <1>2, <1>5, <1>6 DEF SessionOK
<1> QED
  BY <1>3, <1>4, <1>7

LEMMA OrderEdit ==
  ASSUME TimeInv, NEW w \in Worker, NEW row \in OrderRow,
         Prepare(w, [db EXCEPT !.order = row]), Exact(db) => SessionOK(row)
  PROVE  \E new : Prepared(w, new)
<1> DEFINE new == [db EXCEPT !.order = row]
<1>1. db \in FloorRows /\ FloorOK(db)
  BY DEF TimeInv
<1>2. new \in FloorRows /\ new.order = row /\ new.area = db.area /\ new.table = db.table
  BY <1>1 DEF FloorRows
<1> HIDE DEF new
<1>3. FloorOK(new) /\ Follows(db, new) /\ (AreasOK(db) => AreasOK(new))
  BY <1>1, <1>2 DEF FloorOK, Follows, RowKept, AreasOK
<1>4. Prepare(w, new)
  BY DEF new
<1> QED
  BY <1>2, <1>3, <1>4 DEF Prepared, Exact

LEMMA SessionPatched ==
  ASSUME TimeInv, NEW row \in OrderRow, ~ row.excluded, NEW p \in Patch,
         AboutTime(p), MayApply(db, row, p)
  PROVE  LET new == _apply_time_session_patch(db, row, p)
         IN new \in OrderRow /\ SessionOK(new)
<1> DEFINE asked == Asked(row, p)
           rate == HourlyRate(db, row)
<1>1. CASE p.clear
  BY <1>1, SessionCleared DEF _apply_time_session_patch
<1>2. CASE ~ p.clear
  <2>1. /\ Billable(db, row) /\ asked[1] # NoTime
        /\ \/ asked[2] = NoTime
           \/ asked[1] < asked[2]
           \/ asked[1] = asked[2]
    BY <1>2 DEF MayApply
  <2>2. rate \in Rate /\ rate > 0
    <3>1. row.table \in Table /\ rate > 0
      BY <2>1 DEF Billable, OrderRow
    <3>2. db.table[row.table].rate \in Rate \cup {NoRate}
          /\ db.area[db.table[row.table].area].rate \in Rate \cup {NoRate}
      BY <3>1 DEF TimeInv, FloorRows, TableRow, AreaRow
    <3>3. rate \in Rate \cup {NoRate}
      BY <3>2, RateGiven DEF HourlyRate
    <3> QED
      BY <3>1, <3>3 DEF NoRate
  <2>3. asked[1] \in Nat \cup {NoTime} /\ asked[2] \in Nat \cup {NoTime}
    <3>1. /\ p.start \in Nat \cup {NoTime} /\ p.end \in Nat \cup {NoTime}
          /\ p.minutes \in Nat /\ now \in Nat
          /\ row.start \in Nat \cup {NoTime}
      <4>1. /\ p.start \in 0 .. MaxTime \cup {NoTime} /\ p.end \in 0 .. MaxTime \cup {NoTime}
            /\ p.minutes \in Minutes \cup {0}
        BY DEF Patch
      <4>2. p.start \in Nat \cup {NoTime} /\ p.end \in Nat \cup {NoTime}
        BY <4>1, TableTimeAssumption
      <4>3. p.minutes \in Nat
        <5>1. \A m \in Minutes : m \in Nat
          BY TableTimeAssumption
        <5> QED
          BY <4>1, <5>1
      <4>4. now \in Nat /\ row.start \in Nat \cup {NoTime}
        BY TableTimeAssumption DEF TimeInv, OrderRow
      <4> QED
        BY <4>2, <4>3, <4>4
    <3> QED
      BY <3>1 DEF Asked
  <2> HIDE DEF asked, rate
  <2>4. CASE asked[2] = NoTime
    <3>1. asked[1] \in Nat /\ _apply_time_session_patch(db, row, p) = Running(row, asked[1], rate)
      BY <1>2, <2>1, <2>3, <2>4 DEF _apply_time_session_patch, asked, rate
    <3> QED
      BY <2>2, <3>1, SessionRuns
  <2>5. CASE asked[2] # NoTime
    <3>1. asked[1] \in Nat /\ asked[2] \in Nat /\ asked[1] <= asked[2]
      BY <2>1, <2>3, <2>5
    <3>2. _apply_time_session_patch(db, row, p) = Ended(row, asked[1], asked[2], rate)
      BY <1>2, <2>5 DEF _apply_time_session_patch, asked, rate
    <3> QED
      BY <2>2, <3>1, <3>2, SessionEnds
  <2> QED
    BY <2>4, <2>5
<1> QED
  BY <1>1, <1>2

LEMMA OrderUpdated ==
  ASSUME TimeInv, NEW w \in Worker, NEW p \in Patch, UpdateOrder(w, p)
  PROVE  \E new : Prepared(w, new)
<1> DEFINE row == Excluded(db.order, p.excluded)
           new == IF AboutTime(p) THEN _apply_time_session_patch(db, row, p) ELSE row
<1>1. /\ AboutTime(p) => ~ row.excluded /\ MayApply(db, row, p)
      /\ Prepare(w, [db EXCEPT !.order = new])
  BY DEF UpdateOrder
<1>2. db.order \in OrderRow
  BY DEF TimeInv, FloorRows
<1>3. row \in OrderRow /\ (SessionOK(db.order) => SessionOK(row))
  <2>1. CASE p.excluded = "yes"
    <3>1. row = [Cleared(db.order) EXCEPT !.excluded = TRUE]
      BY <2>1 DEF Excluded
    <3>2. Cleared(db.order) \in OrderRow /\ SessionOK(Cleared(db.order))
          /\ Cleared(db.order).start = NoTime
      BY <1>2, SessionCleared DEF Cleared, OrderRow
    <3> QED
      BY <3>1, <3>2 DEF OrderRow, SessionOK
  <2>2. CASE p.excluded = "no"
    <3>1. row = [db.order EXCEPT !.excluded = FALSE]
      BY <2>2 DEF Excluded
    <3> QED
      BY <1>2, <3>1 DEF OrderRow, SessionOK
  <2>3. CASE p.excluded \notin {"yes", "no"}
    BY <1>2, <2>3 DEF Excluded
  <2> QED
    BY <2>1, <2>2, <2>3
<1> HIDE DEF row
<1>4. new \in OrderRow /\ (SessionOK(db.order) => SessionOK(new))
  BY <1>1, <1>3, SessionPatched
<1> HIDE DEF new
<1> QED
  BY <1>1, <1>4, OrderEdit DEF Exact

LEMMA OrderTransferred ==
  ASSUME TimeInv, NEW w \in Worker, NEW t \in Table, TransferTable(w, t)
  PROVE  \E new : Prepared(w, new)
<1> DEFINE row == [db.order EXCEPT !.table = t]
<1>1. db \in FloorRows /\ db.order \in OrderRow
  BY DEF TimeInv, FloorRows
<1>2. Prepare(w, [db EXCEPT !.order = row])
  BY DEF TransferTable
<1>3. row \in OrderRow /\ (SessionOK(db.order) => SessionOK(row))
  BY <1>1 DEF OrderRow, SessionOK
<1> HIDE DEF row
<1> QED
  BY <1>2, <1>3, OrderEdit DEF Exact

LEMMA OrderClosed ==
  ASSUME TimeInv, NEW w \in Worker, CloseOrder(w)
  PROVE  \E new : Prepared(w, new)
<1> DEFINE row == [db.order EXCEPT !.open = FALSE]
<1>1. db \in FloorRows /\ db.order \in OrderRow
  BY DEF TimeInv, FloorRows
<1>2. Prepare(w, [db EXCEPT !.order = row])
  BY DEF CloseOrder
<1>3. row \in OrderRow /\ (SessionOK(db.order) => SessionOK(row))
  BY <1>1 DEF OrderRow, SessionOK
<1> HIDE DEF row
<1> QED
  BY <1>2, <1>3, OrderEdit DEF Exact

-----------------------------------------------------------------------------
(* Steps *)

LEMMA AreaMerged ==
  ASSUME NEW cur \in AreaRow, NEW old \in AreaRow, NEW new \in AreaRow
  PROVE  LET row == Written(cur, old, new)
         IN /\ row \in AreaRow
            /\ row.used = (IF new.used # old.used THEN new.used ELSE cur.used)
            /\ row.there = (IF new.there # old.there THEN new.there ELSE cur.there)
            /\ row.timed = (IF new.timed # old.timed THEN new.timed ELSE cur.timed)
            /\ row.rate = (IF new.rate # old.rate THEN new.rate ELSE cur.rate)
  BY DEF Written, AreaRow

LEMMA TableMerged ==
  ASSUME NEW cur \in TableRow, NEW old \in TableRow, NEW new \in TableRow
  PROVE  LET row == Written(cur, old, new)
         IN /\ row \in TableRow
            /\ row.used = (IF new.used # old.used THEN new.used ELSE cur.used)
            /\ row.there = (IF new.there # old.there THEN new.there ELSE cur.there)
            /\ row.timed = (IF new.timed # old.timed THEN new.timed ELSE cur.timed)
            /\ row.rate = (IF new.rate # old.rate THEN new.rate ELSE cur.rate)
  BY DEF Written, TableRow

LEMMA OrderMerged ==
  ASSUME NEW cur \in OrderRow, NEW old \in OrderRow, NEW new \in OrderRow
  PROVE  Written(cur, old, new) \in OrderRow
  BY DEF Written, OrderRow

\* Nobody else wrote in between.
LEMMA AloneMerged ==
  ASSUME NEW cur, NEW new, DOMAIN new = DOMAIN cur, new = [c \in DOMAIN new |-> new[c]]
  PROVE  Written(cur, cur, new) = new
  BY DEF Written

\* A row that was read, changed and written over the columns others changed.
LEMMA ColumnsKept ==
  ASSUME NEW cur, NEW old, NEW new, NEW row,
         cur.used \in BOOLEAN, old.used \in BOOLEAN, new.used \in BOOLEAN,
         cur.there \in BOOLEAN, old.there \in BOOLEAN, new.there \in BOOLEAN,
         cur.timed \in BOOLEAN, old.timed \in BOOLEAN, new.timed \in BOOLEAN,
         row.used = (IF new.used # old.used THEN new.used ELSE cur.used),
         row.there = (IF new.there # old.there THEN new.there ELSE cur.there),
         row.timed = (IF new.timed # old.timed THEN new.timed ELSE cur.timed),
         row.rate = (IF new.rate # old.rate THEN new.rate ELSE cur.rate),
         RowOK(cur), RowOK(old), RowOK(new), RowKept(old, new), RowKept(old, cur)
  PROVE  RowOK(row) /\ RowKept(cur, row)
<1>1. row.timed => row.rate # NoRate
  BY DEF RowOK, RowKept
<1>2. ~ row.used => row.rate = NoRate
  BY DEF RowOK, RowKept
<1>3. row.there => row.used
  BY DEF RowOK, RowKept
<1>4. RowKept(cur, row)
  BY DEF RowKept
<1> QED
  BY <1>1, <1>2, <1>3, <1>4 DEF RowOK

LEMMA RequestPrepared ==
  ASSUME TimeInv, NEW w \in Worker, NEW new, Prepared(w, new)
  PROVE  TimeInv'
<1> DEFINE mine == [busy |-> TRUE, loaded |-> db, new |-> new]
<1>1. /\ ~ req[w].busy /\ db' = db /\ now' = now /\ req' = [req EXCEPT ![w] = mine]
      /\ overlapped' = (overlapped \/ \E v \in Worker : req[v].busy)
      /\ started' = started + 1
      /\ started < IF overlapped' THEN MaxOverlapped ELSE MaxRequests
  BY DEF Prepared, Prepare
<1>2. new \in FloorRows /\ FloorOK(new) /\ Follows(db, new) /\ (Exact(db) => Exact(new))
  BY DEF Prepared
<1>3. db \in FloorRows /\ req \in [Worker -> Request \cup {Idle}] /\ FloorOK(db)
  BY DEF TimeInv
<1>4. overlapped' \in BOOLEAN /\ started' \in 0 .. MaxRequests
  <2>1. overlapped' \in BOOLEAN
    BY <1>1
  <2>2. started < MaxRequests
    BY <1>1, TableTimeAssumption DEF TimeInv
  <2> QED
    BY <1>1, <2>1, <2>2, TableTimeAssumption DEF TimeInv
<1>5. mine \in Request
  BY <1>2, <1>3 DEF Request
<1>6. mine.busy /\ mine.loaded = db /\ mine.new = new
  OBVIOUS
<1> HIDE DEF mine
<1>7. req' \in [Worker -> Request \cup {Idle}]
  BY <1>1, <1>3, <1>5
<1>8. \A v \in Worker : req'[v] = IF v = w THEN mine ELSE req[v]
  BY <1>1, <1>3
<1>9. Follows(db, db)
  BY DEF Follows, RowKept
<1>10. \A v \in Worker : req'[v].busy => RequestOK(v)'
  <2> SUFFICES ASSUME NEW v \in Worker, req'[v].busy
               PROVE  RequestOK(v)'
    OBVIOUS
  <2>1. CASE v = w
    <3>1. req'[v].loaded = db /\ req'[v].new = new
      BY <1>6, <1>8, <2>1
    <3> QED
      BY <1>1, <1>2, <1>3, <1>9, <3>1 DEF RequestOK
  <2>2. CASE v # w
    <3>1. req'[v] = req[v] /\ RequestOK(v)
      BY <1>8, <2>2 DEF TimeInv
    <3> QED
      BY <1>1, <3>1 DEF RequestOK
  <2> QED
    BY <2>1, <2>2
<1>11. Alone'
  <2> SUFFICES ASSUME ~ overlapped'
               PROVE  /\ Exact(db)
                      /\ \A u \in Worker : req'[u].busy =>
                           /\ req'[u].loaded = db /\ Exact(req'[u].new)
                           /\ \A v \in Worker \ {u} : ~ req'[v].busy
    BY <1>1 DEF Alone, Exact, AreasOK, SessionOK
  <2>1. Exact(db) /\ \A v \in Worker : ~ req[v].busy
    BY <1>1 DEF TimeInv, Alone
  <2>2. \A u \in Worker : req'[u].busy => u = w
    BY <1>8, <2>1
  <2> QED
    BY <1>2, <1>6, <1>8, <2>1, <2>2
<1>12. ForeignKeys'
  BY <1>1 DEF TimeInv, ForeignKeys, Tables, Areas
<1> QED
  BY <1>1, <1>3, <1>4, <1>7, <1>10, <1>11, <1>12 DEF TimeInv, FloorOK, RowOK

LEMMA FollowsOn ==
  ASSUME NEW c, NEW d, NEW e, Follows(c, d), Follows(d, e)
  PROVE  Follows(c, e)
  BY DEF Follows, RowKept

\* Deleting an area takes its tables away, and them from the order.
LEMMA CascadeKeeps ==
  ASSUME NEW d \in FloorRows, FloorOK(d)
  PROVE  LET e == Cascaded(d)
         IN /\ e \in FloorRows /\ FloorOK(e) /\ Follows(d, e)
            /\ Exact(d) => Exact(e)
            /\ \A t \in Tables(e) : e.table[t].area \in Areas(e)
            /\ e.order.table \in Tables(e) \cup {NoTable}
<1> DEFINE kept == {t \in Tables(d) : d.area[d.table[t].area].there}
           table == [t \in Table |-> [d.table[t] EXCEPT !.there = t \in kept]]
           order == [d.order EXCEPT !.table = IF d.order.table \in kept THEN d.order.table ELSE NoTable]
           e == [d EXCEPT !.table = table, !.order = order]
<1>1. Cascaded(d) = e
  BY DEF Cascaded, FloorRows
<1>2. kept \subseteq Table /\ (\A t \in kept : d.table[t].there)
  BY DEF Tables
<1>3. \A t \in kept : d.table[t].area \in Areas(d)
  BY DEF Tables, Areas, FloorRows, TableRow
<1> HIDE DEF kept
<1>4. /\ table \in [Table -> TableRow]
      /\ \A t \in Table : /\ RowOK(table[t]) /\ RowKept(d.table[t], table[t])
                          /\ table[t].there <=> t \in kept
                          /\ table[t].area = d.table[t].area
  <2> DEFINE stays(t) == t \in kept
             row(t) == [d.table[t] EXCEPT !.there = stays(t)]
  <2>1. \A t \in Table : stays(t) \in BOOLEAN /\ (stays(t) => d.table[t].there)
    BY <1>2
  <2>2. \A t \in Table : d.table[t] \in TableRow /\ RowOK(d.table[t])
    BY DEF FloorRows, FloorOK
  <2> HIDE DEF stays
  <2>3. \A t \in Table : /\ row(t) \in TableRow /\ row(t).there = stays(t)
                          /\ row(t).area = d.table[t].area /\ row(t).used = d.table[t].used
                          /\ row(t).timed = d.table[t].timed /\ row(t).rate = d.table[t].rate
    BY <2>1, <2>2 DEF TableRow
  <2>4. table = [t \in Table |-> row(t)]
    BY DEF stays
  <2> HIDE DEF row, table
  <2>5. \A t \in Table : RowOK(row(t)) /\ RowKept(d.table[t], row(t))
    BY <2>1, <2>2, <2>3 DEF RowOK, RowKept
  <2> QED
    BY <2>3, <2>4, <2>5 DEF stays
<1>5. order \in OrderRow /\ order.table \in kept \cup {NoTable}
      /\ (SessionOK(d.order) => SessionOK(order))
  BY DEF FloorRows, OrderRow, SessionOK
<1> HIDE DEF table, order
<1>6. e \in FloorRows /\ e.area = d.area /\ e.table = table /\ e.order = order
  BY <1>4, <1>5 DEF FloorRows
<1> HIDE DEF e
<1>7. Tables(e) = kept /\ Areas(e) = Areas(d)
  BY <1>2, <1>4, <1>6 DEF Tables, Areas
<1>8. FloorOK(e) /\ Follows(d, e)
  BY <1>4, <1>6 DEF FloorOK, Follows, RowKept
<1>9. Exact(d) => Exact(e)
  BY <1>5, <1>6 DEF Exact, AreasOK
<1>10. \A t \in Tables(e) : e.table[t].area \in Areas(e)
  BY <1>2, <1>3, <1>4, <1>6, <1>7
<1> QED
  BY <1>1, <1>5, <1>6, <1>7, <1>8, <1>9, <1>10

\* What a commit leaves of rows others may have written in the meantime.
LEMMA FloorMerged ==
  ASSUME NEW cur \in FloorRows, NEW old \in FloorRows, NEW new \in FloorRows,
         FloorOK(cur), FloorOK(old), FloorOK(new), Follows(old, new), Follows(old, cur)
  PROVE  LET e == Merged(cur, old, new)
         IN /\ e \in FloorRows /\ FloorOK(e) /\ Follows(cur, e)
            /\ old = cur /\ Exact(new) => Exact(e)
            /\ \A t \in Tables(e) : e.table[t].area \in Areas(e)
            /\ e.order.table \in Tables(e) \cup {NoTable}
<1> DEFINE area == [a \in Area |-> Written(cur.area[a], old.area[a], new.area[a])]
           table == [t \in Table |-> Written(cur.table[t], old.table[t], new.table[t])]
           order == Written(cur.order, old.order, new.order)
           d == [area |-> area, table |-> table, order |-> order]
<1>1. Merged(cur, old, new) = Cascaded(d)
  BY DEF Merged
<1>2. \A a \in Area : /\ area[a] \in AreaRow
                       /\ RowOK(area[a]) /\ RowKept(cur.area[a], area[a])
  <2> SUFFICES ASSUME NEW a \in Area
               PROVE  /\ area[a] \in AreaRow
                      /\ RowOK(area[a]) /\ RowKept(cur.area[a], area[a])
    OBVIOUS
  <2>1. cur.area[a] \in AreaRow /\ old.area[a] \in AreaRow /\ new.area[a] \in AreaRow
    BY DEF FloorRows
  <2>2. /\ RowOK(cur.area[a]) /\ RowOK(old.area[a]) /\ RowOK(new.area[a])
        /\ RowKept(old.area[a], new.area[a]) /\ RowKept(old.area[a], cur.area[a])
    BY DEF FloorOK, Follows
  <2>3. \A r \in AreaRow : r.used \in BOOLEAN /\ r.there \in BOOLEAN /\ r.timed \in BOOLEAN
    BY DEF AreaRow
  <2> QED
    BY <2>1, <2>2, <2>3, AreaMerged, ColumnsKept
<1>3. \A t \in Table : /\ table[t] \in TableRow
                        /\ RowOK(table[t]) /\ RowKept(cur.table[t], table[t])
  <2> SUFFICES ASSUME NEW t \in Table
               PROVE  /\ table[t] \in TableRow
                      /\ RowOK(table[t]) /\ RowKept(cur.table[t], table[t])
    OBVIOUS
  <2>1. cur.table[t] \in TableRow /\ old.table[t] \in TableRow /\ new.table[t] \in TableRow
    BY DEF FloorRows
  <2>2. /\ RowOK(cur.table[t]) /\ RowOK(old.table[t]) /\ RowOK(new.table[t])
        /\ RowKept(old.table[t], new.table[t]) /\ RowKept(old.table[t], cur.table[t])
    BY DEF FloorOK, Follows
  <2>3. \A r \in TableRow : r.used \in BOOLEAN /\ r.there \in BOOLEAN /\ r.timed \in BOOLEAN
    BY DEF TableRow
  <2> QED
    BY <2>1, <2>2, <2>3, TableMerged, ColumnsKept
<1>4. order \in OrderRow
  BY OrderMerged DEF FloorRows
<1>5. area \in [Area -> AreaRow] /\ table \in [Table -> TableRow]
  BY <1>2, <1>3
<1>6. ASSUME old = cur
      PROVE  area = new.area /\ order = new.order
  <2>1. \A a \in Area : area[a] = new.area[a]
    BY <1>6, AloneMerged DEF FloorRows, AreaRow
  <2>2. order = new.order
    BY <1>6, AloneMerged DEF FloorRows, OrderRow
  <2> HIDE DEF area
  <2> QED
    BY <1>5, <2>1, <2>2 DEF FloorRows
<1> HIDE DEF area, table, order
<1>7. d \in FloorRows /\ FloorOK(d) /\ Follows(cur, d)
  BY <1>2, <1>3, <1>4, <1>5 DEF FloorRows, FloorOK, Follows
<1>8. old = cur /\ Exact(new) => Exact(d)
  BY <1>6 DEF Exact, AreasOK
<1> HIDE DEF d
<1> QED
  BY <1>1, <1>7, <1>8, CascadeKeeps, FollowsOn

LEMMA RequestCommitted ==
  ASSUME TimeInv, NEW w \in Worker, Commit(w)
  PROVE  TimeInv'
<1> DEFINE old == req[w].loaded
           new == req[w].new
<1>1. /\ req[w].busy /\ req' = [req EXCEPT ![w] = Idle]
      /\ db' = IF Fails(db, old, new) THEN db ELSE Merged(db, old, new)
      /\ started' = started /\ overlapped' = overlapped /\ now' = now
  BY DEF Commit
<1>2. db \in FloorRows /\ req \in [Worker -> Request \cup {Idle}] /\ FloorOK(db)
  BY DEF TimeInv
<1>3. req[w] \in Request
  BY <1>1, <1>2 DEF Idle
<1>4. old \in FloorRows /\ new \in FloorRows
  BY <1>3 DEF Request
<1>5. FloorOK(old) /\ FloorOK(new) /\ Follows(old, new) /\ Follows(old, db)
  BY <1>1 DEF TimeInv, RequestOK
<1>6. ~ overlapped => /\ Exact(db) /\ old = db /\ Exact(new)
                      /\ \A v \in Worker \ {w} : ~ req[v].busy
  BY <1>1 DEF TimeInv, Alone
<1> HIDE DEF old, new
<1>7. /\ db' \in FloorRows /\ FloorOK(db') /\ Follows(db, db')
      /\ ~ overlapped => Exact(db')
      /\ \A t \in Tables(db') : db'.table[t].area \in Areas(db')
      /\ db'.order.table \in Tables(db') \cup {NoTable}
  <2>1. CASE Fails(db, old, new)
    <3>1. db' = db /\ Follows(db, db) /\ ForeignKeys
      BY <1>1, <2>1 DEF TimeInv, Follows, RowKept
    <3> QED
      BY <1>2, <1>6, <3>1 DEF ForeignKeys
  <2>2. CASE ~ Fails(db, old, new)
    <3>1. db' = Merged(db, old, new)
      BY <1>1, <2>2
    <3> QED
      BY <1>2, <1>4, <1>5, <1>6, <3>1, FloorMerged
  <2> QED
    BY <2>1, <2>2
<1>8. ~ Idle.busy
  BY DEF Idle
<1>9. /\ req' \in [Worker -> Request \cup {Idle}]
      /\ \A v \in Worker : req'[v].busy => v # w /\ req[v].busy /\ req'[v] = req[v]
  BY <1>1, <1>2, <1>8
<1>10. \A v \in Worker : req'[v].busy => RequestOK(v)'
  <2> SUFFICES ASSUME NEW v \in Worker, req'[v].busy
               PROVE  RequestOK(v)'
    OBVIOUS
  <2>1. req'[v] = req[v] /\ RequestOK(v)
    BY <1>9 DEF TimeInv
  <2>2. Follows(req[v].loaded, db')
    BY <1>7, <2>1, FollowsOn DEF RequestOK
  <2> QED
    BY <2>1, <2>2 DEF RequestOK
<1>11. Alone'
  <2>1. ~ overlapped => Exact(db') /\ \A v \in Worker : ~ req'[v].busy
    BY <1>6, <1>7, <1>9
  <2> QED
    BY <1>1, <2>1 DEF Alone, Exact, AreasOK, SessionOK
<1>12. ForeignKeys'
  BY <1>7 DEF ForeignKeys, Tables, Areas
<1>13. FloorOK(db)'
  BY <1>7 DEF FloorOK, RowOK
<1> QED
  BY <1>1, <1>7, <1>9, <1>10, <1>11, <1>12, <1>13 DEF TimeInv

LEMMA Starts ==
  ASSUME Init
  PROVE  TimeInv
<1> DEFINE
      row(timed, rate) == [used |-> TRUE, there |-> TRUE, timed |-> timed, window |-> timed,
                           rate |-> rate]
      noArea == [used |-> FALSE, there |-> FALSE, timed |-> FALSE, window |-> FALSE,
                 rate |-> NoRate]
      noTable(a) == [used |-> FALSE, there |-> FALSE, area |-> a, timed |-> FALSE,
                     rate |-> NoRate]
      opened(t) == [open |-> TRUE, table |-> t, start |-> NoTime, end |-> NoTime, minutes |-> 0,
                    rate |-> NoRate, charge |-> NoCharge, excluded |-> FALSE]
      none(a, t) == [area |-> [b \in Area |-> noArea], table |-> [u \in Table |-> noTable(a)],
                     order |-> Cleared(opened(t))]
<1>1. PICK a \in Area, t \in Table, timed \in BOOLEAN, rate \in Rate \cup {NoRate} :
        /\ _validate_time_area_state(row(timed, rate))
        /\ db = create_area(none(a, t), a, row(timed, rate), {t})
  BY DEF Init
<1> DEFINE new == row(timed, rate)
           d == [none(a, t) EXCEPT !.area[a] = new]
<1>2. new \in AreaRow /\ RowOK(new) /\ new.used /\ new.there
      /\ (new.timed => new.rate > 0 /\ new.window)
  BY <1>1 DEF AreaRow, RowOK, _validate_time_area_state, NoRate
<1>3. noArea \in AreaRow /\ RowOK(noArea) /\ ~ noArea.there
  BY DEF AreaRow, RowOK
<1>4. noTable(a) \in TableRow /\ RowOK(noTable(a)) /\ ~ noTable(a).used /\ ~ noTable(a).there
  BY DEF TableRow, RowOK
<1>5. opened(t) \in OrderRow
  BY DEF OrderRow
<1>6. Cleared(opened(t)) \in OrderRow /\ SessionOK(Cleared(opened(t)))
      /\ Cleared(opened(t)).table = t
  BY <1>5, SessionCleared DEF Cleared
<1>7. db = _add_tables(d, a, {t})
  BY <1>1 DEF create_area
<1> HIDE DEF new, noArea, noTable, opened
<1>8. none(a, t) \in FloorRows
  BY <1>3, <1>4, <1>6 DEF FloorRows
<1>9. /\ d \in FloorRows /\ d.area = [b \in Area |-> IF b = a THEN new ELSE noArea]
      /\ d.table = [u \in Table |-> noTable(a)] /\ d.order = Cleared(opened(t))
  BY <1>2, <1>8 DEF FloorRows
<1> HIDE DEF d, none
<1>10. /\ RowOK(d.area[a]) /\ d.area[a].there
       /\ \A u \in Table : RowOK(d.table[u]) /\ ~ d.table[u].used /\ ~ d.table[u].there
  BY <1>2, <1>4, <1>9
<1>11. /\ db \in FloorRows /\ db.area = d.area /\ db.order = d.order
       /\ \A u \in Table : db.table[u] = d.table[u] \/ RowOK(db.table[u])
  BY <1>7, <1>9, <1>10, TablesAdded
<1>12. FloorOK(db)
  BY <1>2, <1>3, <1>9, <1>10, <1>11 DEF FloorOK
<1>13. db.table[t].there /\ db.table[t].area = a
       /\ \A u \in Table : db.table[u].there => u = t
  BY <1>7, <1>9, <1>10 DEF _add_tables, FloorRows
<1>14. ForeignKeys
  BY <1>6, <1>9, <1>10, <1>11, <1>13 DEF ForeignKeys, Tables, Areas
<1>15. Exact(db)
  BY <1>2, <1>3, <1>6, <1>9, <1>11 DEF Exact, AreasOK
<1>16. req = [w \in Worker |-> Idle] /\ started = 0 /\ overlapped = FALSE /\ now = 0
  BY DEF Init
<1>17. \A w \in Worker : ~ req[w].busy
  BY <1>16 DEF Idle
<1>18. Alone
  BY <1>15, <1>17 DEF Alone
<1>19. req \in [Worker -> Request \cup {Idle}]
  <2> HIDE DEF Idle
  <2> QED
    BY <1>16
<1>20. started \in 0 .. MaxRequests /\ now \in 0 .. MaxTime /\ overlapped \in BOOLEAN
  <2>1. started = 0 /\ now = 0 /\ overlapped \in BOOLEAN
    BY <1>16
  <2>2. 0 \in 0 .. MaxRequests /\ 0 \in 0 .. MaxTime
    BY TableTimeAssumption
  <2> QED
    BY <2>1, <2>2
<1> QED
  BY <1>11, <1>12, <1>14, <1>17, <1>18, <1>19, <1>20 DEF TimeInv

LEMMA StepKeeps ==
  ASSUME TimeInv, [Next]_vars
  PROVE  TimeInv'
<1>1. CASE \E w \in Worker : FloorRequest(w)
  BY <1>1, FloorRequested, RequestPrepared
<1>2. CASE \E w \in Worker : OrderRequest(w)
  BY <1>2, OrderUpdated, OrderTransferred, OrderClosed, RequestPrepared DEF OrderRequest
<1>3. CASE \E w \in Worker : Commit(w)
  BY <1>3, RequestCommitted
<1>4. CASE Passes \/ UNCHANGED vars
  <2>1. /\ db' = db /\ req' = req /\ started' = started /\ overlapped' = overlapped
        /\ now' \in 0 .. MaxTime
    BY <1>4, TableTimeAssumption DEF TimeInv, Passes, vars
  <2> QED
    BY <2>1 DEF TimeInv, ForeignKeys, Tables, Areas, FloorOK, RowOK, RequestOK, Follows, RowKept,
                Alone, Exact, AreasOK, SessionOK
<1> QED
  BY <1>1, <1>2, <1>3, <1>4 DEF Next

-----------------------------------------------------------------------------
(* The theorems *)

\* The strengthening holds, for any number of requests and workers.
THEOREM TimeInvHolds == Spec => []TimeInv
<1>1. Init => TimeInv
  BY Starts
<1>2. TimeInv /\ [Next]_vars => TimeInv'
  BY StepKeeps
<1> QED
  BY <1>1, <1>2, PTL DEF Spec

\* Rows keep their types, tables their areas and the order its table, however
\* the edits of venue_service.py and update_order overlap: what the foreign
\* keys ON DELETE CASCADE and SET NULL are there for.
THEOREM FloorTyped == Spec => []TypeOK
<1>1. TimeInv => TypeOK
  BY DEF TimeInv, TypeOK, FloorRows, ForeignKeys
<1> QED
  BY <1>1, TimeInvHolds, PTL

\* No overlap of create_table, update_table and the edits of areas leaves a
\* time-based table without a rate of its own; one request at a time, a
\* time-based area keeps its rate and its hours.
THEOREM TimedTablesPriced == Spec => []TimedFloorPriced
<1>1. TimeInv => TimedFloorPriced
  BY DEF TimeInv, TimedFloorPriced, FloorOK, RowOK, Alone, Exact, AreasOK, Tables, Areas
<1> QED
  BY <1>1, TimeInvHolds, PTL

\* One request at a time, the times, the rate and the charge of a session fit,
\* for every rate and however long the session.
THEOREM ChargesFit == Spec => []ChargeFitsSession
<1>1. TimeInv => ChargeFitsSession
  BY DEF TimeInv, ChargeFitsSession, Alone, Exact, SessionOK
<1> QED
  BY <1>1, TimeInvHolds, PTL
=============================================================================
