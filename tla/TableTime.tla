-------------------------------- MODULE TableTime --------------------------------
(***************************************************************************)
(* Table time: an order on a time-based table (snooker, private rooms) is  *)
(* charged by the minute. The time session of one order (update_order and  *)
(* _apply_time_session_patch of app/services/owner/order_service.py) next  *)
(* to the transfer of the order and the edits of areas, tables and rates   *)
(* (app/services/owner/venue_service.py), under concurrent requests.       *)
(*                                                                         *)
(* As in OutletBooks a request takes two steps: Handle, its SELECTs,       *)
(* checks and changes in memory, and Commit, which writes the columns it   *)
(* changed over what the rows hold by then. The clock ticks twice a        *)
(* minute. What the charge does to a bill is in BillSettlement, and the    *)
(* names of tables and the orders they hold are in TableSeating.           *)
(***************************************************************************)
EXTENDS Integers, FiniteSets

CONSTANTS Area, Table,   \* identities; one that was deleted is not reused
          NoTable,       \* the order's venue_table_id is NULL
          Worker,        \* server tasks; each handles one request at a time
          Rate,          \* hourly rates the manager may set, in paise
          Minutes,       \* durations a client may ask for
          MaxTime,       \* bound on the clock and the times a client sends
          MaxRequests,   \* bound on the requests of a behaviour, one at a time
          MaxOverlapped  \* bound on the requests of a behaviour that overlap

ASSUME TableTimeAssumption ==
  /\ NoTable \notin Table
  /\ Rate \subseteq Nat /\ Minutes \subseteq Nat \ {0}
  /\ MaxTime \in Nat /\ MaxRequests \in Nat /\ MaxOverlapped \in 0 .. MaxRequests

VARIABLES db,         \* the committed rows: areas, tables and the order
          req,        \* what each worker is about to write
          started,    \* how many requests were made
          overlapped, \* whether two requests were ever under way at once
          now         \* the clock, in half minutes

vars == <<db, req, started, overlapped, now>>

M == INSTANCE TaxEngine

\* Columns that are NULL.
NoRate == -1
NoTime == -1
NoCharge == -1

\* used tells an identity that was given to a row, even if it was deleted.
AreaRow == [used : BOOLEAN, there : BOOLEAN, timed : BOOLEAN, window : BOOLEAN,
            rate : Rate \cup {NoRate}]

TableRow == [used : BOOLEAN, there : BOOLEAN, area : Area, timed : BOOLEAN,
             rate : Rate \cup {NoRate}]

\* The columns of the order that table time reads or writes.
OrderRow == [open : BOOLEAN, table : Table \cup {NoTable},
             start : Nat \cup {NoTime}, end : Nat \cup {NoTime},
             minutes : Nat, rate : Rate \cup {NoRate},
             charge : Nat \cup {NoCharge}, excluded : BOOLEAN]

Idle == [busy |-> FALSE]

Tables(d) == {t \in Table : d.table[t].there}

Areas(d) == {a \in Area : d.area[a].there}

\* The rows are well typed, and their foreign keys are kept.
TypeOK ==
  /\ db.area \in [Area -> AreaRow]
  /\ db.table \in [Table -> TableRow]
  /\ db.order \in OrderRow
  /\ \A t \in Tables(db) : db.table[t].area \in Areas(db)
  /\ db.order.table \in Tables(db) \cup {NoTable}
  /\ started \in 0 .. MaxRequests /\ now \in 0 .. MaxTime

-----------------------------------------------------------------------------
(* Areas and tables *)

_validate_time_area_state(area) == area.timed => area.rate > 0 /\ area.window

\* _add_tables: the tables of an area bill as the area does.
_add_tables(d, a, tables) ==
  [d EXCEPT !.table = [t \in Table |->
     IF t \in tables
     THEN [used |-> TRUE, there |-> TRUE, area |-> a, timed |-> d.area[a].timed,
           rate |-> IF d.area[a].timed THEN d.area[a].rate ELSE NoRate]
     ELSE @[t]]]

\* A rate that is not in the payload stays.
Given(rate, old) == IF rate # NoRate THEN rate ELSE old

create_area(d, a, row, tables) == _add_tables([d EXCEPT !.area[a] = row], a, tables)

update_area(d, a, timed, window, rate) ==
  LET row == d.area[a]
  IN [d EXCEPT !.area[a] = [row EXCEPT !.timed = timed, !.window = row.window \/ window,
                                       !.rate = Given(rate, row.rate)]]

\* A time-based table is given the rate of its area when it has none.
create_table(d, t, a, timed, rate) ==
  [d EXCEPT !.table[t] = [used |-> TRUE, there |-> TRUE, area |-> a, timed |-> timed,
                          rate |-> IF timed THEN Given(rate, d.area[a].rate) ELSE rate]]

update_table(d, t, a, timed, rate) ==
  LET row == d.table[t]
  IN [d EXCEPT !.table[t] = [row EXCEPT !.area = a, !.timed = timed, !.rate = Given(rate, row.rate)]]

\* Mutant of Priced: the area may have the rate.
PricedByArea(d, t) == d.table[t].timed => Given(d.table[t].rate, d.area[d.table[t].area].rate) # NoRate

\* "hourly_rate is required for time-based resources".
Priced(d, t) == d.table[t].timed => d.table[t].rate # NoRate

\* Mutant of Cascaded: the order keeps its reference.
TablesGo(d) ==
  [d EXCEPT !.table = [t \in Table |-> [@[t] EXCEPT !.there = @ /\ d.area[d.table[t].area].there]]]

\* Tables go with their area, and the order on a deleted table stays without.
Cascaded(d) ==
  LET kept == {t \in Tables(d) : d.area[d.table[t].area].there}
  IN [d EXCEPT !.table = [t \in Table |-> [@[t] EXCEPT !.there = t \in kept]],
               !.order.table = IF @ \in kept THEN @ ELSE NoTable]

-----------------------------------------------------------------------------
(* The time session of an order *)

\* The rate of the table of the order, or else of its area.
HourlyRate(d, row) ==
  LET table == d.table[row.table] IN Given(table.rate, d.area[table.area].rate)

\* _resolve_hourly_rate_for_order finds a rate.
Billable(d, row) ==
  row.table # NoTable /\ d.table[row.table].timed /\ HourlyRate(d, row) > 0

compute_time_charge(minutes, rate) == M!money(minutes * rate, 60)

Cleared(row) ==
  [row EXCEPT !.start = NoTime, !.end = NoTime, !.minutes = 0, !.rate = NoRate,
              !.charge = NoCharge]

\* Mutant of Running: an earlier charge of the order stays.
RunningOn(row, start, rate) ==
  [row EXCEPT !.start = start, !.end = NoTime, !.rate = rate]

\* The session starts, anew when there was one.
Running(row, start, rate) ==
  [row EXCEPT !.start = start, !.end = NoTime, !.minutes = 0, !.rate = rate,
              !.charge = NoCharge]

\* _set_time_session and the end "now": full minutes, but at least one.
Ended(row, start, end, rate) ==
  LET full == (end - start) \div 2
      minutes == IF full = 0 THEN 1 ELSE full
  IN [row EXCEPT !.start = start, !.end = end, !.minutes = minutes, !.rate = rate,
                 !.charge = compute_time_charge(minutes, rate)]

\* What a client may send about the time of an order: up to two fields.
NoPatch == [excluded |-> "unset", clear |-> FALSE, start |-> NoTime, end |-> NoTime,
            startNow |-> FALSE, endNow |-> FALSE, minutes |-> 0]

Patch ==
  {p \in [excluded : {"unset", "yes", "no"}, clear : BOOLEAN,
          start : 0 .. MaxTime \cup {NoTime}, end : 0 .. MaxTime \cup {NoTime},
          startNow : BOOLEAN, endNow : BOOLEAN, minutes : Minutes \cup {0}] :
     Cardinality({f \in DOMAIN p : p[f] # NoPatch[f]}) \in {1, 2}}

AboutTime(p) == \E f \in DOMAIN p \ {"excluded"} : p[f] # NoPatch[f]

\* The session a patch asks for, by the first of its fields the code looks at:
\* with a start, a duration is not looked at any more.
Asked(row, p) ==
  IF p.start # NoTime THEN <<p.start, p.end>>
  ELSE IF p.end # NoTime THEN <<row.start, p.end>>
  ELSE IF p.startNow THEN <<now, NoTime>>
  ELSE IF p.endNow THEN <<row.start, now>>
  ELSE <<now, now + 2 * p.minutes>>

\* A session may end in the moment it starts only when it ends "now".
EndsNow(p) == p.start = NoTime /\ p.end = NoTime /\ ~ p.startNow /\ p.endNow

MayApply(d, row, p) ==
  LET asked == Asked(row, p)
  IN p.clear \/ /\ Billable(d, row)
                /\ asked[1] # NoTime
                /\ \/ asked[2] = NoTime
                   \/ asked[1] < asked[2]
                   \/ asked[1] = asked[2] /\ EndsNow(p)

_apply_time_session_patch(d, row, p) ==
  LET asked == Asked(row, p)
  IN CASE p.clear -> Cleared(row)
       [] ~ p.clear /\ asked[2] = NoTime -> Running(row, asked[1], HourlyRate(d, row))
       [] OTHER -> Ended(row, asked[1], asked[2], HourlyRate(d, row))

\* time_billing_excluded clears the session too.
Excluded(row, choice) ==
  CASE choice = "yes" -> [Cleared(row) EXCEPT !.excluded = TRUE]
    [] choice = "no" -> [row EXCEPT !.excluded = FALSE]
    [] OTHER -> row

-----------------------------------------------------------------------------
(* Requests *)

Prepare(w, new) ==
  /\ ~ req[w].busy
  /\ overlapped' = (overlapped \/ \E v \in Worker : req[v].busy)
  /\ started < IF overlapped' THEN MaxOverlapped ELSE MaxRequests
  /\ started' = started + 1
  /\ req' = [req EXCEPT ![w] = [busy |-> TRUE, loaded |-> db, new |-> new]]
  /\ UNCHANGED <<db, now>>

\* Identities no row has had and no request is about to insert.
Fresh(d, field, ids) ==
  {i \in ids : /\ ~ d[field][i].used
               /\ \A w \in Worker : req[w].busy => ~ req[w].new[field][i].used}

CreateArea(w, timed, window, rate, tables) ==
  \E a \in Fresh(db, "area", Area) :
    LET row == [used |-> TRUE, there |-> TRUE, timed |-> timed, window |-> window, rate |-> rate]
    IN /\ tables \subseteq Fresh(db, "table", Table)
       /\ _validate_time_area_state(row)
       /\ Prepare(w, create_area(db, a, row, tables))

UpdateArea(w, a, timed, window, rate) ==
  LET new == update_area(db, a, timed, window, rate)
  IN /\ a \in Areas(db)
     /\ _validate_time_area_state(new.area[a])
     /\ Prepare(w, new)

DeleteArea(w, a) ==
  LET kept(t) == db.table[t].there /\ db.table[t].area # a
  IN /\ a \in Areas(db)
     /\ Prepare(w, [db EXCEPT !.area[a].there = FALSE,
                              !.table = [t \in Table |-> [db.table[t] EXCEPT !.there = kept(t)]]])

CreateTable(w, a, timed, rate) ==
  \E t \in Fresh(db, "table", Table) :
    LET new == create_table(db, t, a, timed, rate)
    IN /\ a \in Areas(db)
       /\ Priced(new, t)
       /\ Prepare(w, new)

BulkCreateTables(w, a, tables) ==
  /\ a \in Areas(db)
  /\ tables \subseteq Fresh(db, "table", Table)
  /\ Prepare(w, _add_tables(db, a, tables))

UpdateTable(w, t, a, timed, rate) ==
  LET new == update_table(db, t, a, timed, rate)
  IN /\ t \in Tables(db) /\ a \in Areas(db)
     /\ Priced(new, t)
     /\ Prepare(w, new)

DeleteTable(w, t) ==
  /\ t \in Tables(db)
  /\ Prepare(w, [db EXCEPT !.table[t].there = FALSE])

UpdateOrder(w, p) ==
  LET row == Excluded(db.order, p.excluded)
  IN /\ db.order.open
     /\ AboutTime(p) => ~ row.excluded /\ MayApply(db, row, p)
     /\ Prepare(w, [db EXCEPT !.order =
                      IF AboutTime(p) THEN _apply_time_session_patch(db, row, p) ELSE row])

TransferTable(w, t) ==
  /\ db.order.open
  /\ t \in Tables(db) \ {db.order.table}
  /\ Prepare(w, [db EXCEPT !.order.table = t])

\* settle_bill, add_bill_payment and cancel_order leave the session as it is.
CloseOrder(w) ==
  /\ db.order.open
  /\ Prepare(w, [db EXCEPT !.order.open = FALSE])

-----------------------------------------------------------------------------
(* Commits *)

Written(cur, old, new) ==
  [c \in DOMAIN cur |-> IF new[c] # old[c] THEN new[c] ELSE cur[c]]

Merged(cur, old, new) ==
  Cascaded(
    [area |-> [a \in Area |-> Written(cur.area[a], old.area[a], new.area[a])],
     table |-> [t \in Table |-> Written(cur.table[t], old.table[t], new.table[t])],
     order |-> Written(cur.order, old.order, new.order)])

Changed(old, new, ids) == {i \in ids : new[i].there /\ new[i] # old[i]}

\* A row it updates was deleted, or a row it refers to.
Fails(cur, old, new) ==
  \/ \E a \in Changed(old.area, new.area, Area) : old.area[a].there /\ ~ cur.area[a].there
  \/ \E t \in Changed(old.table, new.table, Table) :
       \/ old.table[t].there /\ ~ cur.table[t].there
       \/ LET a == new.table[t].area IN new.area[a] = old.area[a] /\ ~ cur.area[a].there
  \/ new.order.table \notin {old.order.table, NoTable} /\ ~ cur.table[new.order.table].there

Commit(w) ==
  /\ req[w].busy
  /\ db' = IF Fails(db, req[w].loaded, req[w].new) THEN db
           ELSE Merged(db, req[w].loaded, req[w].new)
  /\ req' = [req EXCEPT ![w] = Idle]
  /\ UNCHANGED <<started, overlapped, now>>

Passes ==
  /\ now < MaxTime
  /\ now' = now + 1
  /\ UNCHANGED <<db, req, started, overlapped>>

-----------------------------------------------------------------------------
\* An area was created with tables, and an order was opened on one of them.
Init ==
  /\ \E a \in Area, t \in Table, timed \in BOOLEAN, rate \in Rate \cup {NoRate} :
       LET row == [used |-> TRUE, there |-> TRUE, timed |-> timed, window |-> timed, rate |-> rate]
           none == [area |-> [b \in Area |-> [used |-> FALSE, there |-> FALSE, timed |-> FALSE,
                                              window |-> FALSE, rate |-> NoRate]],
                    table |-> [u \in Table |-> [used |-> FALSE, there |-> FALSE, area |-> a,
                                                timed |-> FALSE, rate |-> NoRate]],
                    order |-> Cleared([open |-> TRUE, table |-> t, start |-> NoTime,
                                       end |-> NoTime, minutes |-> 0, rate |-> NoRate,
                                       charge |-> NoCharge, excluded |-> FALSE])]
       IN /\ _validate_time_area_state(row)
          /\ db = create_area(none, a, row, {t})
  /\ req = [w \in Worker |-> Idle]
  /\ started = 0 /\ overlapped = FALSE /\ now = 0

FloorRequest(w) ==
  \/ \E timed, window \in BOOLEAN, r \in Rate \cup {NoRate} :
       \/ \E tables \in SUBSET Table : CreateArea(w, timed, window, r, tables)
       \/ \E a \in Area : UpdateArea(w, a, timed, window, r)
  \/ \E a \in Area, timed \in BOOLEAN, r \in Rate \cup {NoRate} :
       CreateTable(w, a, timed, r) \/ \E t \in Table : UpdateTable(w, t, a, timed, r)
  \/ \E a \in Area : DeleteArea(w, a) \/ \E tables \in SUBSET Table \ {{}} : BulkCreateTables(w, a, tables)
  \/ \E t \in Table : DeleteTable(w, t)

OrderRequest(w) ==
  \/ \E p \in Patch : UpdateOrder(w, p)
  \/ \E t \in Table : TransferTable(w, t)
  \/ CloseOrder(w)

Next ==
  \/ \E w \in Worker : FloorRequest(w) \/ OrderRequest(w) \/ Commit(w)
  \/ Passes

Spec == Init /\ [][Next]_vars

-----------------------------------------------------------------------------
(* Properties *)

\* One request at a time, the columns of the session agree, whatever starts,
\* ends, clears, exclusions, moves and edits of rates came before: an order is
\* charged exactly when its session has ended, not before it started, for no
\* more than the time at the rate it shows, but for one minute at least; a
\* running, cleared or excluded session is charged nothing.
ChargeFitsSession ==
  ~ overlapped =>
    LET o == db.order
        half == o.rate * (o.end - o.start) \* 120 times what the time costs
    IN /\ o.end # NoTime <=> o.charge # NoCharge
       /\ o.charge # NoCharge =>
            /\ NoTime < o.start /\ o.start <= o.end /\ o.rate > 0
            /\ 120 * o.charge <= 60 + (IF o.end - o.start < 2 THEN 2 * o.rate ELSE half)
            /\ 120 * o.charge > half - 2 * o.rate - 60
       /\ o.start = NoTime <=> o.rate = NoRate
       /\ o.excluded => o.start = NoTime

\* However requests overlap, a time-based table has a rate of its own, so that
\* floor_status never shows, and a session is never charged, the rate the area
\* has by then: editing an area reprices no table. One request at a time, a
\* time-based area has the rate and the hours its tables start from.
TimedFloorPriced ==
  /\ \A t \in Tables(db) : db.table[t].timed => db.table[t].rate # NoRate
  /\ ~ overlapped => \A a \in Areas(db) :
       db.area[a].timed => db.area[a].rate > 0 /\ db.area[a].window
=============================================================================
