----------------------------- MODULE Tenancy_proofs -----------------------------
(***************************************************************************)
(* Theorems about Tenancy, for any number of businesses, employees,        *)
(* administrators, workers and requests.                                   *)
(*                                                                         *)
(* Inv holds however requests overlap: it says of every request under way  *)
(* what it may write, so that any merge of what requests saw and wrote     *)
(* keeps it. AloneInv holds until two requests overlap: the rows and the   *)
(* history are in order, and the rows the one request is about to write    *)
(* are in order with the history it is about to leave.                     *)
(***************************************************************************)
EXTENDS Tenancy, Sums, TLAPS

Columns == {"tenant", "outlet", "helper", "contact", "password", "mustChange", "rep", "active",
            "spent", "packs", "reset", "tick", "failed", "lockedUntil"}

LEMMA WrittenTyped ==
  ASSUME NEW S, NEW T, NEW cur \in [S -> T], NEW old, NEW new \in [S -> T]
  PROVE  Written(cur, old, new) \in [S -> T]
BY DEF Written

LEMMA MergedColumns ==
  ASSUME NEW cur \in Rows, NEW old, NEW new
  PROVE  /\ Merged(cur, old, new) = [f \in Columns |-> Merged(cur, old, new)[f]]
         /\ Merged(cur, old, new).tenant = Written(cur.tenant, old.tenant, new.tenant)
         /\ Merged(cur, old, new).outlet = Written(cur.outlet, old.outlet, new.outlet)
         /\ Merged(cur, old, new).helper = Written(cur.helper, old.helper, new.helper)
         /\ Merged(cur, old, new).contact = Written(cur.contact, old.contact, new.contact)
         /\ Merged(cur, old, new).password = Written(cur.password, old.password, new.password)
         /\ Merged(cur, old, new).mustChange = Written(cur.mustChange, old.mustChange, new.mustChange)
         /\ Merged(cur, old, new).rep = Written(cur.rep, old.rep, new.rep)
         /\ Merged(cur, old, new).active = Written(cur.active, old.active, new.active)
         /\ Merged(cur, old, new).spent = Written(cur.spent, old.spent, new.spent)
         /\ Merged(cur, old, new).reset = Written(cur.reset, old.reset, new.reset)
         /\ Merged(cur, old, new).tick = Written(cur.tick, old.tick, new.tick)
         /\ Merged(cur, old, new).failed = Written(cur.failed, old.failed, new.failed)
         /\ Merged(cur, old, new).lockedUntil = Written(cur.lockedUntil, old.lockedUntil, new.lockedUntil)
         /\ Merged(cur, old, new).packs = cur.packs \cup (new.packs \ old.packs)
<1>1. DOMAIN cur = Columns
  BY DEF Rows, Columns
<1> QED
  BY <1>1 DEF Merged, Columns

LEMMA RowsTyped ==
  ASSUME NEW d \in Rows
  PROVE  /\ d.tenant \in [Business -> TenantStatus \cup {"none"}]
         /\ d.outlet \in [Business -> TenantStatus \cup {"none"}]
         /\ d.helper \in [Business -> Rep \cup {"nobody"}]
         /\ d.contact \in [Login -> Contact \cup {"none"}]
         /\ d.password \in [Login -> Password \cup {"issued", "none"}]
         /\ d.mustChange \in [Login -> BOOLEAN]
         /\ d.rep \in [Rep -> Employment \cup {"none"}]
         /\ d.active \in [Rep -> BOOLEAN]
         /\ d.spent \in [Id -> Entry]
         /\ d.reset \in [Id -> Reset]
         /\ d.tick \in [Business \X Permission -> Tick]
         /\ d.failed \in [Admin -> 0 .. MaxAttempts]
         /\ d.lockedUntil \in [Admin -> Time]
         /\ d.packs \in SUBSET Pack
BY DEF Rows

LEMMA MergedTyped ==
  ASSUME NEW cur \in Rows, NEW old, NEW new \in Rows
  PROVE  Merged(cur, old, new) \in Rows
<1> DEFINE d == Merged(cur, old, new)
<1> HIDE DEF d
<1>1. d = [f \in Columns |-> d[f]]
  BY MergedColumns DEF d
<1>2. d.tenant \in [Business -> TenantStatus \cup {"none"}]
  <2>1. d.tenant = Written(cur.tenant, old.tenant, new.tenant)
    BY MergedColumns DEF d
  <2> QED
    BY <2>1, RowsTyped DEF Written
<1>3. d.outlet \in [Business -> TenantStatus \cup {"none"}]
  <2>1. d.outlet = Written(cur.outlet, old.outlet, new.outlet)
    BY MergedColumns DEF d
  <2> QED
    BY <2>1, RowsTyped DEF Written
<1>4. d.helper \in [Business -> Rep \cup {"nobody"}]
  <2>1. d.helper = Written(cur.helper, old.helper, new.helper)
    BY MergedColumns DEF d
  <2> QED
    BY <2>1, RowsTyped DEF Written
<1>5. d.contact \in [Login -> Contact \cup {"none"}]
  <2>1. d.contact = Written(cur.contact, old.contact, new.contact)
    BY MergedColumns DEF d
  <2> QED
    BY <2>1, RowsTyped DEF Written
<1>6. d.password \in [Login -> Password \cup {"issued", "none"}]
  <2>1. d.password = Written(cur.password, old.password, new.password)
    BY MergedColumns DEF d
  <2> QED
    BY <2>1, RowsTyped DEF Written
<1>7. d.mustChange \in [Login -> BOOLEAN]
  <2>1. d.mustChange = Written(cur.mustChange, old.mustChange, new.mustChange)
    BY MergedColumns DEF d
  <2> QED
    BY <2>1, RowsTyped DEF Written
<1>8. d.rep \in [Rep -> Employment \cup {"none"}]
  <2>1. d.rep = Written(cur.rep, old.rep, new.rep)
    BY MergedColumns DEF d
  <2> QED
    BY <2>1, RowsTyped DEF Written
<1>9. d.active \in [Rep -> BOOLEAN]
  <2>1. d.active = Written(cur.active, old.active, new.active)
    BY MergedColumns DEF d
  <2> QED
    BY <2>1, RowsTyped DEF Written
<1>10. d.spent \in [Id -> Entry]
  <2>1. d.spent = Written(cur.spent, old.spent, new.spent)
    BY MergedColumns DEF d
  <2> QED
    BY <2>1, RowsTyped DEF Written
<1>11. d.reset \in [Id -> Reset]
  <2>1. d.reset = Written(cur.reset, old.reset, new.reset)
    BY MergedColumns DEF d
  <2> QED
    BY <2>1, RowsTyped DEF Written
<1>12. d.tick \in [Business \X Permission -> Tick]
  <2>1. d.tick = Written(cur.tick, old.tick, new.tick)
    BY MergedColumns DEF d
  <2> QED
    BY <2>1, RowsTyped DEF Written
<1>13. d.failed \in [Admin -> 0 .. MaxAttempts]
  <2>1. d.failed = Written(cur.failed, old.failed, new.failed)
    BY MergedColumns DEF d
  <2> QED
    BY <2>1, RowsTyped DEF Written
<1>14. d.lockedUntil \in [Admin -> Time]
  <2>1. d.lockedUntil = Written(cur.lockedUntil, old.lockedUntil, new.lockedUntil)
    BY MergedColumns DEF d
  <2> QED
    BY <2>1, RowsTyped DEF Written
<1>15. d.packs \in SUBSET Pack
  BY MergedColumns, RowsTyped DEF d
<1>16. d \in Rows
  BY <1>1, <1>2, <1>3, <1>4, <1>5, <1>6, <1>7, <1>8, <1>9, <1>10, <1>11, <1>12, <1>13, <1>14, <1>15
     DEF Rows, Columns
<1> QED
  BY <1>16 DEF d

-----------------------------------------------------------------------------
(* What the operators of the desk write *)

\* The columns that are not in S are as they were.
Elsewhere(d, new, S) == \A f \in Columns \ S : new[f] = d[f]

LEMMA OnboardRows ==
  ASSUME NEW d \in Rows, NEW b \in Business, NEW c \in Contact, NEW placeholder \in Contact,
         NEW s \in TenantStatus, NEW h \in Rep \cup {"nobody"}
  PROVE  LET new == create_tenant(d, b, c, placeholder, s, h)
         IN /\ new \in Rows
            /\ Elsewhere(d, new, {"tenant", "outlet", "helper", "contact", "password", "mustChange"})
            /\ new.tenant = [d.tenant EXCEPT ![b] = s]
            /\ new.outlet = [d.outlet EXCEPT ![b] = s]
BY DEF create_tenant, Rows, Login, Role, Elsewhere, Columns

LEMMA UpdateTenantRows ==
  ASSUME NEW d \in Rows, NEW b \in Business, NEW c \in Contact, NEW h \in Rep \cup {"nobody"}
  PROVE  LET new == update_tenant(d, b, c, h)
         IN new \in Rows /\ Elsewhere(d, new, {"contact", "helper"})
BY DEF update_tenant, Rows, Login, Role, Elsewhere, Columns

LEMMA StatusRows ==
  ASSUME NEW d \in Rows, NEW b \in Business, NEW s \in TenantStatus
  PROVE  LET new == update_tenant_status(d, b, s)
         IN /\ new \in Rows
            /\ Elsewhere(d, new, {"tenant", "outlet"})
            /\ new.tenant = [d.tenant EXCEPT ![b] = s]
            /\ new.outlet = [d.outlet EXCEPT ![b] = s]
BY DEF update_tenant_status, Rows, Elsewhere, Columns

LEMMA CollectRows ==
  ASSUME NEW d \in Rows, NEW i \in Id, NEW b \in Business, NEW paid \in Date, NEW next \in Date
  PROVE  LET new == create_collection(d, i, b, paid, next)
         IN new \in Rows /\ Elsewhere(d, new, {"packs"})
BY DEF create_collection, Rows, Pack, Elsewhere, Columns

LEMMA HireRows ==
  ASSUME NEW d \in Rows, NEW r \in Rep, NEW e \in Employment
  PROVE  LET new == create_employee(d, r, e)
         IN /\ new \in Rows
            /\ Elsewhere(d, new, {"rep", "active"})
            /\ new.rep = [d.rep EXCEPT ![r] = e]
            /\ new.active = [d.active EXCEPT ![r] = (e = "ACTIVE")]
BY DEF create_employee, _sync_active_flag, Rows, Elsewhere, Columns

LEMMA UpdateEmployeeRows ==
  ASSUME NEW d \in Rows, NEW r \in Rep, NEW e \in Employment \cup {"unset"},
         NEW f \in {"unset", "yes", "no"}
  PROVE  LET new == update_employee(d, r, e, f)
         IN /\ new \in Rows
            /\ Elsewhere(d, new, {"rep", "active"})
            /\ \A q \in Rep \ {r} : new.rep[q] = d.rep[q] /\ new.active[q] = d.active[q]
            /\ \/ new.active[r] = (new.rep[r] = "ACTIVE")
               \/ new.rep[r] = d.rep[r] /\ new.active[r] = d.active[r]
<1> DEFINE new == update_employee(d, r, e, f)
           told == IF e = "unset" THEN d.rep[r] ELSE e
           first == [d EXCEPT !.rep[r] = told]
<1>1. /\ first \in Rows /\ Elsewhere(d, first, {"rep", "active"})
      /\ first.rep = [d.rep EXCEPT ![r] = told] /\ first.active = d.active
  <2>1. told \in Employment \cup {"none"}
    BY DEF Rows
  <2> HIDE DEF told
  <2> QED
    BY <2>1 DEF Rows, Elsewhere, Columns
<1>2. [d EXCEPT !.rep[r] = IF e = "unset" THEN @ ELSE e] = first
  BY DEF Rows
<1>3. d.rep \in [Rep -> Employment \cup {"none"}] /\ d.active \in [Rep -> BOOLEAN]
  BY RowsTyped
<1>4. ASSUME NEW rep \in Employment \cup {"none"}, NEW active \in BOOLEAN,
             new = [first EXCEPT !.rep[r] = rep, !.active[r] = active],
             active = (rep = "ACTIVE")
      PROVE  /\ new \in Rows
             /\ Elsewhere(d, new, {"rep", "active"})
             /\ \A q \in Rep \ {r} : new.rep[q] = d.rep[q] /\ new.active[q] = d.active[q]
             /\ new.active[r] = (new.rep[r] = "ACTIVE")
  <2> HIDE DEF new, first
  <2>1. new.rep = [first.rep EXCEPT ![r] = rep] /\ new.active = [first.active EXCEPT ![r] = active]
    BY <1>1, <1>4 DEF Rows
  <2>2. new \in Rows /\ Elsewhere(d, new, {"rep", "active"})
    BY <1>1, <1>4 DEF Rows, Elsewhere, Columns
  <2> QED
    BY <1>1, <1>3, <1>4, <2>1, <2>2
<1>5. CASE f = "unset" /\ e = "unset"
  <2>1. new = first /\ told = d.rep[r]
    BY <1>2, <1>5 DEF update_employee
  <2> HIDE DEF new, first, told
  <2> QED
    BY <1>1, <1>3, <2>1 DEF new
<1>6. CASE f = "unset" /\ e # "unset"
  <2>1. new = [first EXCEPT !.active[r] = (first.rep[r] = "ACTIVE")]
    BY <1>2, <1>6 DEF update_employee, _sync_active_flag
  <2>2. first.rep[r] \in Employment \cup {"none"}
    BY <1>1 DEF Rows
  <2>3. first.rep = [first.rep EXCEPT ![r] = first.rep[r]] /\ first = [k \in Columns |-> first[k]]
    <3> HIDE DEF first
    <3> QED
      BY <1>1 DEF Rows, Columns
  <2> HIDE DEF first, new
  <2>4. first = [first EXCEPT !.rep[r] = first.rep[r]]
    BY <2>3 DEF Columns
  <2>5. new = [first EXCEPT !.rep[r] = first.rep[r], !.active[r] = (first.rep[r] = "ACTIVE")]
    BY <2>1, <2>4
  <2> QED
    BY <1>4, <2>2, <2>5 DEF new
<1>7. CASE f = "yes"
  <2>1. new = [first EXCEPT !.active[r] = TRUE, !.rep[r] = "ACTIVE"]
    BY <1>2, <1>7 DEF update_employee
  <2> HIDE DEF first
  <2>2. new = [first EXCEPT !.rep[r] = "ACTIVE", !.active[r] = TRUE]
    BY <1>1, <2>1 DEF Rows
  <2> HIDE DEF new
  <2> QED
    BY <1>4, <2>2 DEF new, Employment
<1>8. CASE f = "no"
  <2> DEFINE blocked == IF first.rep[r] = "ACTIVE" THEN "BLOCKED" ELSE first.rep[r]
  <2>1. new = [first EXCEPT !.active[r] = FALSE, !.rep[r] = blocked]
    BY <1>2, <1>8 DEF update_employee
  <2>2. blocked \in Employment \cup {"none"} /\ blocked # "ACTIVE"
    BY <1>1 DEF Rows, Employment
  <2> HIDE DEF first, blocked
  <2>3. new = [first EXCEPT !.rep[r] = blocked, !.active[r] = FALSE]
    BY <1>1, <2>1 DEF Rows
  <2> HIDE DEF new
  <2> QED
    BY <1>4, <2>2, <2>3 DEF new
<1> QED
  BY <1>5, <1>6, <1>7, <1>8

LEMMA SpendRows ==
  ASSUME NEW d \in Rows, NEW i \in Id, NEW cat \in Category, NEW r \in Rep \cup {"nobody"}
  PROVE  LET new == create_expenditure(d, i, cat, r)
         IN /\ new \in Rows
            /\ Elsewhere(d, new, {"spent"})
            /\ new.spent = [d.spent EXCEPT ![i] = [category |-> cat, rep |-> r, live |-> TRUE]]
<1>1. [category |-> cat, rep |-> r, live |-> TRUE] \in Entry
  BY DEF Entry
<1> QED
  BY <1>1 DEF create_expenditure, Rows, Elsewhere, Columns

LEMMA ReassignRows ==
  ASSUME NEW d \in Rows, NEW i \in Id, NEW r \in Rep
  PROVE  LET new == update_expenditure(d, i, r)
         IN /\ new \in Rows
            /\ Elsewhere(d, new, {"spent"})
            /\ new.spent = [d.spent EXCEPT ![i].rep = r]
<1>1. d.spent \in [Id -> Entry] /\ [d.spent[i] EXCEPT !.rep = r] \in Entry
  BY DEF Rows, Entry
<1> QED
  BY <1>1 DEF update_expenditure, Rows, Elsewhere, Columns

LEMMA UnspendRows ==
  ASSUME NEW d \in Rows, NEW i \in Id
  PROVE  LET new == delete_expenditure(d, i)
         IN /\ new \in Rows
            /\ Elsewhere(d, new, {"spent"})
            /\ new.spent = [d.spent EXCEPT ![i] = NoEntry]
<1>1. NoEntry \in Entry
  BY DEF NoEntry, Entry, Category
<1> QED
  BY <1>1 DEF delete_expenditure, Rows, Elsewhere, Columns

LEMMA PasswordRows ==
  ASSUME NEW d \in Rows, NEW l \in Login, NEW p \in Password
  PROVE  LET new == NewPassword(d, l, p)
         IN new \in Rows /\ Elsewhere(d, new, {"password", "mustChange"})
BY DEF NewPassword, Rows, Elsewhere, Columns

LEMMA ForgotRows ==
  ASSUME NEW d \in Rows, NEW i \in Id, NEW l \in Login, NEW t \in 0 .. MaxTime
  PROVE  LET new == request_password_reset(d, i, l, t)
         IN /\ new \in Rows
            /\ Elsewhere(d, new, {"reset"})
            /\ \A j \in Id \ {i} : new.reset[j] = d.reset[j]
<1>1. [business |-> l[1], role |-> l[2], expires |-> t + ResetLife, used |-> FALSE] \in Reset
  BY AccessAssumption, TenancyAssumption DEF Reset, Time, Login
<1> QED
  BY <1>1 DEF request_password_reset, Rows, Elsewhere, Columns

LEMMA ResetRows ==
  ASSUME NEW d \in Rows, NEW i \in Id, NEW p \in Password, NEW t, MayReset(d, i, t)
  PROVE  LET new == reset_password(d, i, p)
         IN /\ new \in Rows
            /\ Elsewhere(d, new, {"password", "mustChange", "reset"})
            /\ new.reset = [d.reset EXCEPT ![i].used = TRUE]
<1> DEFINE row == d.reset[i]
           l == <<row.business, row.role>>
           e == NewPassword(d, l, p)
<1>1. l \in Login /\ [row EXCEPT !.used = TRUE] \in Reset
  <2>1. row \in Reset /\ row.business # "none"
    BY RowsTyped DEF MayReset
  <2> HIDE DEF row
  <2> QED
    BY <2>1 DEF Reset, Login
<1>2. e \in Rows /\ Elsewhere(d, e, {"password", "mustChange"})
  BY <1>1, PasswordRows
<1>3. e.reset = d.reset
  BY <1>2 DEF Elsewhere, Columns
<1>4. reset_password(d, i, p) = [e EXCEPT !.reset[i].used = TRUE]
  BY DEF reset_password
<1>5. e.reset \in [Id -> Reset] /\ [e.reset[i] EXCEPT !.used = TRUE] \in Reset
  BY <1>1, <1>3, RowsTyped
<1> HIDE DEF e, l, row
<1>6. [e EXCEPT !.reset[i].used = TRUE] \in Rows
  BY <1>2, <1>5 DEF Rows
<1> QED
  BY <1>2, <1>3, <1>4, <1>6 DEF Rows, Elsewhere, Columns

LEMMA GrantRows ==
  ASSUME NEW d \in Rows, NEW b \in Business, NEW g \in SUBSET Permission
  PROVE  LET new == _replace_grants(d, b, g)
         IN /\ new \in Rows
            /\ Elsewhere(d, new, {"tick"})
            /\ \A k \in Business \X Permission :
                 new.tick[k] = IF k[1] # b THEN d.tick[k]
                               ELSE IF k[2] \notin STAFF_ASSIGNABLE THEN "none"
                               ELSE IF k[2] \in g THEN "granted" ELSE "denied"
BY DEF _replace_grants, Rows, Tick, Elsewhere, Columns

LEMMA WrongRows ==
  ASSUME NEW d \in Rows, NEW a \in Admin, NEW t \in 0 .. MaxTime
  PROVE  LET new == WrongPassword(d, a, t)
         IN /\ new \in Rows
            /\ Elsewhere(d, new, {"failed", "lockedUntil"})
            /\ new.failed = [d.failed EXCEPT ![a] = IF @ + 1 >= MaxAttempts THEN 0 ELSE @ + 1]
            /\ new.lockedUntil = [d.lockedUntil EXCEPT ![a] = IF d.failed[a] + 1 >= MaxAttempts
                                                             THEN t + LockoutTime ELSE @]
<1> DEFINE new == WrongPassword(d, a, t)
           n == d.failed[a] + 1
           failed == [d.failed EXCEPT ![a] = IF n >= MaxAttempts THEN 0 ELSE n]
           lockedUntil == [d.lockedUntil EXCEPT ![a] = IF n >= MaxAttempts THEN t + LockoutTime ELSE @]
<1>1. d.failed \in [Admin -> 0 .. MaxAttempts] /\ d.lockedUntil \in [Admin -> Time]
  BY RowsTyped
<1>2. /\ 0 \in 0 .. MaxAttempts /\ t + LockoutTime \in Time
      /\ n >= MaxAttempts \/ n \in 0 .. MaxAttempts
  BY <1>1, AccessAssumption, TenancyAssumption DEF Time
<1>3. failed \in [Admin -> 0 .. MaxAttempts] /\ lockedUntil \in [Admin -> Time]
  <2> HIDE DEF n
  <2> QED
    BY <1>1, <1>2
<1>4. new = [d EXCEPT !.failed = failed, !.lockedUntil = lockedUntil]
  BY DEF WrongPassword, Rows
<1>5. /\ failed = [d.failed EXCEPT ![a] = IF @ + 1 >= MaxAttempts THEN 0 ELSE @ + 1]
      /\ lockedUntil = [d.lockedUntil EXCEPT ![a] = IF d.failed[a] + 1 >= MaxAttempts
                                                   THEN t + LockoutTime ELSE @]
  OBVIOUS
<1> HIDE DEF new, failed, lockedUntil
<1>6. new \in Rows /\ Elsewhere(d, new, {"failed", "lockedUntil"})
  BY <1>3, <1>4 DEF Rows, Elsewhere, Columns
<1>7. new.failed = failed /\ new.lockedUntil = lockedUntil
  BY <1>4 DEF Rows
<1> QED
  BY <1>5, <1>6, <1>7 DEF new

LEMMA RightRows ==
  ASSUME NEW d \in Rows, NEW a \in Admin
  PROVE  LET new == RightPassword(d, a)
         IN /\ new \in Rows
            /\ Elsewhere(d, new, {"failed", "lockedUntil"})
            /\ new.failed = [d.failed EXCEPT ![a] = 0]
            /\ new.lockedUntil = [d.lockedUntil EXCEPT ![a] = 0]
<1> DEFINE new == RightPassword(d, a)
           failed == [d.failed EXCEPT ![a] = 0]
           lockedUntil == [d.lockedUntil EXCEPT ![a] = 0]
<1>1. 0 \in Time /\ 0 \in 0 .. MaxAttempts
  BY AccessAssumption, TenancyAssumption DEF Time
<1>2. failed \in [Admin -> 0 .. MaxAttempts] /\ lockedUntil \in [Admin -> Time]
  BY <1>1, RowsTyped
<1>3. new = [d EXCEPT !.failed = failed, !.lockedUntil = lockedUntil]
  BY DEF RightPassword, Rows
<1> HIDE DEF new, failed, lockedUntil
<1>4. new \in Rows /\ Elsewhere(d, new, {"failed", "lockedUntil"})
  BY <1>2, <1>3 DEF Rows, Elsewhere, Columns
<1>5. new.failed = failed /\ new.lockedUntil = lockedUntil
  BY <1>3 DEF Rows
<1> QED
  BY <1>4, <1>5 DEF new, failed, lockedUntil

-----------------------------------------------------------------------------
(* What is true of every request under way *)

History == [guesses : [Admin -> Nat], setBy : [Id -> Nat],
            saved : [Business -> SUBSET Permission], suspendedAt : [Business -> Nat]]

\* No two logins have the same contact.
Distinct(d) == \A k, l \in Contacts(d) : k # l => d.contact[k] # d.contact[l]

\* Nothing is ticked that only an owner may do.
OnlyAssignable(d) ==
  \A k \in Business \X Permission : d.tick[k] = "granted" => k[2] \in STAFF_ASSIGNABLE

\* A business is suspended by the request that says so, with its outlet if the
\* two had one status.
VenueWrite(old, new, what) ==
  /\ old.outlet = old.tenant => new.outlet = new.tenant
  /\ \A b \in Business : new.tenant[b] = "SUSPENDED" =>
       old.tenant[b] = "SUSPENDED" \/ what = <<"status", b, "SUSPENDED">>

TickWrite(new, what) ==
  /\ OnlyAssignable(new)
  /\ what[1] = "save" => what[3] \in SUBSET Permission

\* A wrong password writes nothing but the count and the lock, and only the
\* last one that is allowed puts the lock forward.
LockWrite(old, new, what) ==
  /\ what[1] = "wrong" => Elsewhere(old, new, {"failed", "lockedUntil"})
  /\ \A a \in Admin :
       IF what = <<"wrong", a>> /\ old.failed[a] + 1 >= MaxAttempts
       THEN new.lockedUntil[a] > old.lockedUntil[a]
       ELSE new.lockedUntil[a] <= old.lockedUntil[a]

\* A change of status that has read the business.
VenueAsked(what) == what[1] = "venue" => what[2] \in Business /\ what[3] \in TenantStatus

RequestOK(r) ==
  /\ r.loaded \in Rows /\ r.new \in Rows /\ IsFiniteSet(r.new.packs)
  /\ VenueAsked(r.what)
  /\ VenueWrite(r.loaded, r.new, r.what)
  /\ TickWrite(r.new, r.what)
  /\ LockWrite(r.loaded, r.new, r.what)

\* However requests overlap.
Inv ==
  /\ db \in Rows /\ Distinct(db) /\ OnlyAssignable(db)
  /\ IsFiniteSet(db.packs)
  /\ req = [w \in Worker |-> req[w]]
  /\ \A w \in Worker : req[w] = Idle \/ (req[w].busy = TRUE /\ RequestOK(req[w]))
  /\ made \in [Kind -> Nat] /\ \A k \in Kind : made[k] \in 0 .. Limit[k]
  /\ overlapped \in BOOLEAN
  /\ session \in [Login -> Time] /\ \A l \in Login : session[l] <= now + AccessLife
  /\ now \in 0 .. MaxTime
  /\ past \in History
  /\ SuspensionRunsOut

-----------------------------------------------------------------------------
(* What is true of the rows as long as requests run one at a time *)

Team(d) == \A r \in Rep : d.active[r] = (d.rep[r] = "ACTIVE")

Salaries(d) ==
  \A i \in Id : d.spent[i].live /\ d.spent[i].rep \in Rep
                => d.spent[i].category = "SALES_TEAM_SALARY"

Locks(d, p) == \A a \in Admin : p.guesses[a] = d.failed[a] /\ d.failed[a] < MaxAttempts

Ticks(d, p) ==
  \A b \in Business :
    resolve_permissions(d, <<b, "EMPLOYEE">>) = p.saved[b] \cap STAFF_ASSIGNABLE

\* n requests were made: there are no later tokens, and a token that set a
\* password is used.
Tokens(d, p, n) ==
  \A i \in Id :
    /\ i > n => d.reset[i].business = "none"
    /\ p.setBy[i] = 0 \/ (p.setBy[i] = 1 /\ i <= n /\ d.reset[i].used)

Orderly(d, p, n) ==
  Team(d) /\ Salaries(d) /\ Locks(d, p) /\ Ticks(d, p) /\ Tokens(d, p, n)

AloneInv ==
  ~ overlapped =>
    /\ db.outlet = db.tenant
    /\ Orderly(db, past, Started)
    /\ \A v, w \in Worker : req[v].busy /\ req[w].busy => v = w
    /\ \A w \in Worker : req[w].busy =>
         /\ req[w].loaded = db
         /\ Orderly(req[w].new, Remembered(req[w].what, req[w].new), Started)

\* A request that may be made: rows and history stay in order with it.
Good(new, what) ==
  /\ new \in Rows /\ IsFiniteSet(new.packs) /\ VenueAsked(what)
  /\ VenueWrite(db, new, what) /\ TickWrite(new, what) /\ LockWrite(db, new, what)
  /\ Orderly(db, past, Started) => Orderly(new, Remembered(what, new), Started + 1)

-----------------------------------------------------------------------------
(* What does not change *)

LEMMA HistoryKept ==
  ASSUME past \in History, NEW what, NEW d
  PROVE  LET p == Remembered(what, d)
         IN /\ what[1] \notin {"wrong", "right"} => p.guesses = past.guesses
            /\ what[1] # "reset" => p.setBy = past.setBy
            /\ what[1] # "save" => p.saved = past.saved
            /\ what[1] # "status" => p.suspendedAt = past.suspendedAt
BY DEF Remembered, History

LEMMA Untouched ==
  ASSUME Inv, NEW new \in Rows, NEW what, NEW S, Elsewhere(db, new, S)
  PROVE  /\ {"tenant", "outlet"} \cap S = {} => VenueWrite(db, new, what)
         /\ "tick" \notin S /\ what[1] # "save" =>
              TickWrite(new, what) /\ (Ticks(db, past) => Ticks(new, Remembered(what, new)))
         /\ {"failed", "lockedUntil"} \cap S = {} /\ what[1] \notin {"wrong", "right"} =>
              LockWrite(db, new, what) /\ (Locks(db, past) => Locks(new, Remembered(what, new)))
         /\ {"rep", "active"} \cap S = {} /\ Team(db) => Team(new)
         /\ "spent" \notin S /\ Salaries(db) => Salaries(new)
         /\ "reset" \notin S /\ what[1] # "reset" /\ Tokens(db, past, Started)
              => Tokens(new, Remembered(what, new), Started + 1)
         /\ "packs" \notin S => IsFiniteSet(new.packs)
<1> DEFINE p == Remembered(what, new)
<1>1. past \in History
  BY DEF Inv
<1>2. ASSUME {"tenant", "outlet"} \cap S = {}
      PROVE  VenueWrite(db, new, what)
  <2>1. new.tenant = db.tenant /\ new.outlet = db.outlet
    BY <1>2 DEF Elsewhere, Columns
  <2> QED
    BY <2>1 DEF Inv, VenueWrite
<1>3. ASSUME "tick" \notin S, what[1] # "save"
      PROVE  TickWrite(new, what) /\ (Ticks(db, past) => Ticks(new, p))
  <2>1. new.tick = db.tick
    BY <1>3 DEF Elsewhere, Columns
  <2>2. p.saved = past.saved
    BY <1>1, <1>3, HistoryKept
  <2> HIDE DEF p
  <2> QED
    BY <1>3, <2>1, <2>2 DEF Inv, TickWrite, OnlyAssignable, Ticks, resolve_permissions, HasRows, Granted
<1>4. ASSUME {"failed", "lockedUntil"} \cap S = {}, what[1] \notin {"wrong", "right"}
      PROVE  LockWrite(db, new, what) /\ (Locks(db, past) => Locks(new, p))
  <2>1. new.failed = db.failed /\ new.lockedUntil = db.lockedUntil
    BY <1>4 DEF Elsewhere, Columns
  <2>2. p.guesses = past.guesses
    BY <1>1, <1>4, HistoryKept
  <2>3. \A a \in Admin : db.lockedUntil[a] \in Nat /\ what # <<"wrong", a>>
    BY <1>4, RowsTyped, AccessAssumption, TenancyAssumption DEF Inv, Time
  <2> HIDE DEF p
  <2> QED
    BY <1>4, <2>1, <2>2, <2>3 DEF LockWrite, Locks
<1>5. {"rep", "active"} \cap S = {} /\ Team(db) => Team(new)
  BY DEF Elsewhere, Columns, Team
<1>6. "spent" \notin S /\ Salaries(db) => Salaries(new)
  BY DEF Elsewhere, Columns, Salaries
<1>7. ASSUME "reset" \notin S, what[1] # "reset", Tokens(db, past, Started)
      PROVE  Tokens(new, p, Started + 1)
  <2>1. new.reset = db.reset
    BY <1>7 DEF Elsewhere, Columns
  <2>2. p.setBy = past.setBy
    BY <1>1, <1>7, HistoryKept
  <2>3. Started \in Nat
    BY DEF Inv, Started, Kind
  <2> HIDE DEF p
  <2> QED
    BY <1>7, <2>1, <2>2, <2>3 DEF Tokens, Id
<1>8. "packs" \notin S => IsFiniteSet(new.packs)
  BY DEF Elsewhere, Columns, Inv
<1> QED
  BY <1>2, <1>3, <1>4, <1>5, <1>6, <1>7, <1>8

-----------------------------------------------------------------------------
(* Requests *)

\* Order depends on the rows' columns and on three of the histories.
LEMMA OrderlySame ==
  ASSUME NEW d, NEW e, NEW p, NEW q, NEW m \in Nat, NEW n \in Nat, m <= n, Orderly(d, p, m),
         \A f \in {"rep", "active", "spent", "failed", "tick", "reset"} : e[f] = d[f],
         q.guesses = p.guesses, q.setBy = p.setBy, q.saved = p.saved
  PROVE  Orderly(e, q, n)
<1>1. Team(e) /\ Salaries(e)
  BY DEF Orderly, Team, Salaries
<1>2. Locks(e, q) /\ Ticks(e, q)
  <2>1. e.tick = d.tick /\ e.failed = d.failed
    OBVIOUS
  <2>2. \A b \in Business :
          resolve_permissions(e, <<b, "EMPLOYEE">>) = resolve_permissions(d, <<b, "EMPLOYEE">>)
    BY <2>1 DEF resolve_permissions, HasRows, Granted
  <2> QED
    BY <2>1, <2>2 DEF Orderly, Locks, Ticks
<1>3. Tokens(e, q, n)
  BY DEF Orderly, Tokens, Id
<1> QED
  BY <1>1, <1>2, <1>3 DEF Orderly

LEMMA StartedGrows ==
  ASSUME made \in [Kind -> Nat], NEW kind \in Kind, made' = [made EXCEPT ![kind] = @ + 1]
  PROVE  Started \in Nat /\ Started' = Started + 1 /\ made' \in [Kind -> Nat]
BY DEF Started, Kind

LEMMA Prepared ==
  ASSUME Inv, AloneInv, NEW w \in Worker, NEW kind \in Kind, NEW new, NEW what,
         Prepare(w, kind, new, what), Good(new, what)
  PROVE  Inv' /\ AloneInv'
<1> DEFINE r == [busy |-> TRUE, loaded |-> db, new |-> new, what |-> what]
<1>1. /\ req' = [req EXCEPT ![w] = r]
      /\ made' = [made EXCEPT ![kind] = @ + 1]
      /\ db' = db /\ session' = session /\ now' = now /\ past' = past
      /\ overlapped' = (overlapped \/ \E v \in Worker : req[v].busy)
      /\ made[kind] < Limit[kind]
  BY DEF Prepare
<1>2. RequestOK(r)
  BY DEF Good, Inv, RequestOK
<1>3. Started \in Nat /\ Started' = Started + 1 /\ made' \in [Kind -> Nat]
  BY <1>1, StartedGrows DEF Inv
<1>4. r.busy = TRUE /\ r.loaded = db /\ r.new = new /\ r.what = what
  OBVIOUS
<1>5. req'[w] = r /\ \A v \in Worker : v # w => req'[v] = req[v]
  BY <1>1 DEF Inv
<1>6. Inv'
  <2>1. db' \in Rows /\ Distinct(db') /\ OnlyAssignable(db')
    BY <1>1 DEF Inv, Distinct, Contacts, OnlyAssignable
  <2>2. req' = [v \in Worker |-> req'[v]]
    BY <1>1 DEF Inv
  <2>3. \A v \in Worker : req'[v] = Idle \/ (req'[v].busy = TRUE /\ RequestOK(req'[v]))
    BY <1>2, <1>4, <1>5 DEF Inv
  <2>4. \A k \in Kind : made'[k] \in 0 .. Limit[k]
    <3>1. \A k \in Kind : Limit[k] \in Nat
      BY TenancyAssumption DEF Kind, Limit
    <3> QED
      BY <1>1, <3>1 DEF Inv
  <2>5. overlapped' \in BOOLEAN
    BY <1>1
  <2>6. SuspensionRunsOut'
    BY <1>1 DEF Inv, SuspensionRunsOut
  <2> QED
    BY <1>1, <1>3, <2>1, <2>2, <2>3, <2>4, <2>5, <2>6 DEF Inv
<1>7. AloneInv'
  <2> SUFFICES ASSUME ~ overlapped'
               PROVE  /\ (db.outlet = db.tenant)'
                      /\ Orderly(db, past, Started)'
                      /\ \A u, v \in Worker : req'[u].busy /\ req'[v].busy => u = v
                      /\ \A v \in Worker : req'[v].busy =>
                           /\ req'[v].loaded = db'
                           /\ Orderly(req[v].new, Remembered(req[v].what, req[v].new), Started)'
    BY DEF AloneInv
  <2>1. ~ overlapped /\ \A v \in Worker : ~ req[v].busy
    BY <1>1
  <2>2. Orderly(db, past, Started)
    BY <2>1 DEF AloneInv
  <2>3. Orderly(db, past, Started)'
    BY <1>1, <1>3, <2>2, OrderlySame
  <2>4. Remembered(what, new)' = Remembered(what, new)
    BY <1>1 DEF Remembered
  <2>5. Orderly(new, Remembered(what, new), Started)'
    BY <1>3, <2>2, <2>4 DEF Good
  <2>6. \A v \in Worker : req'[v].busy => v = w
    BY <1>5, <2>1
  <2>7. req'[w].loaded = db' /\ req'[w].new = new /\ req'[w].what = what
    BY <1>1, <1>5
  <2>8. ASSUME NEW v \in Worker, req'[v].busy
        PROVE  /\ req'[v].loaded = db'
               /\ Orderly(req[v].new, Remembered(req[v].what, req[v].new), Started)'
    <3>1. v = w
      BY <2>6, <2>8
    <3> QED
      BY <2>5, <2>7, <3>1
  <2>9. (db.outlet = db.tenant)'
    BY <1>1, <2>1 DEF AloneInv
  <2> QED
    BY <2>3, <2>6, <2>8, <2>9
<1> QED
  BY <1>6, <1>7

\* A request that touches no column the invariants are about.
LEMMA GoodElsewhere ==
  ASSUME Inv, NEW new \in Rows, IsFiniteSet(new.packs),
         Elsewhere(db, new, {"helper", "contact", "password", "mustChange", "packs"})
  PROVE  Good(new, Other)
<1>1. Other[1] \notin {"wrong", "right", "reset", "save", "status"} /\ VenueAsked(Other)
  BY DEF Other, VenueAsked
<1> QED
  BY <1>1, Untouched DEF Good, Orderly

LEMMA GoodOnboard ==
  ASSUME Inv, NEW b \in Business, NEW c \in Contact, NEW placeholder \in Contact,
         NEW s \in {"DRAFT", "ACTIVE"}, NEW h \in Rep \cup {"nobody"}
  PROVE  Good(create_tenant(db, b, c, placeholder, s, h), Other)
<1> DEFINE new == create_tenant(db, b, c, placeholder, s, h)
           S == {"tenant", "outlet", "helper", "contact", "password", "mustChange"}
<1>1. /\ new \in Rows /\ Elsewhere(db, new, S)
      /\ new.tenant = [db.tenant EXCEPT ![b] = s] /\ new.outlet = [db.outlet EXCEPT ![b] = s]
  <2>1. s \in TenantStatus /\ db \in Rows
    BY DEF TenantStatus, Inv
  <2> QED
    BY <2>1, OnboardRows
<1>2. Other[1] \notin {"wrong", "right", "reset", "save", "status"} /\ VenueAsked(Other)
  BY DEF Other, VenueAsked
<1> HIDE DEF new
<1>3. VenueWrite(db, new, Other)
  <2>1. db.tenant \in [Business -> TenantStatus \cup {"none"}]
    BY RowsTyped DEF Inv
  <2> QED
    BY <1>1, <2>1 DEF VenueWrite
<1>4. /\ TickWrite(new, Other) /\ LockWrite(db, new, Other) /\ IsFiniteSet(new.packs)
      /\ Orderly(db, past, Started) => Orderly(new, Remembered(Other, new), Started + 1)
  BY <1>1, <1>2, Untouched DEF Orderly
<1>5. Good(new, Other)
  BY <1>1, <1>2, <1>3, <1>4 DEF Good
<1> QED
  BY <1>5 DEF new

\* The first SELECT of a change of status changes nothing.
LEMMA GoodVenue ==
  ASSUME Inv, NEW b \in Business, NEW s \in TenantStatus
  PROVE  Good(db, <<"venue", b, s>>)
<1> DEFINE what == <<"venue", b, s>>
<1>1. what[1] \notin {"wrong", "right", "reset", "save", "status"} /\ VenueAsked(what)
  BY DEF VenueAsked
<1> HIDE DEF what
<1>2. db \in Rows /\ Elsewhere(db, db, {})
  BY DEF Inv, Elsewhere
<1>3. Good(db, what)
  BY <1>1, <1>2, Untouched DEF Good, Orderly
<1> QED
  BY <1>3 DEF what

\* The change itself, on a business that may have had another status by then.
LEMMA StatusOK ==
  ASSUME Inv, NEW b \in Business, NEW s \in TenantStatus, NEW seen \in Rows,
         Elsewhere(db, seen, {"tenant"})
  PROVE  LET new == update_tenant_status(seen, b, s)
         IN /\ RequestOK([busy |-> TRUE, loaded |-> seen, new |-> new, what |-> <<"status", b, s>>])
            /\ Elsewhere(db, new, {"tenant", "outlet"})
<1> DEFINE new == update_tenant_status(seen, b, s)
           what == <<"status", b, s>>
           r == [busy |-> TRUE, loaded |-> seen, new |-> new, what |-> what]
<1>1. /\ new \in Rows /\ Elsewhere(seen, new, {"tenant", "outlet"})
      /\ new.tenant = [seen.tenant EXCEPT ![b] = s] /\ new.outlet = [seen.outlet EXCEPT ![b] = s]
  BY StatusRows
<1>2. what[1] \notin {"wrong", "right", "reset", "save"}
  OBVIOUS
<1> HIDE DEF new
<1>3. VenueWrite(seen, new, what)
  <2>1. seen.tenant \in [Business -> TenantStatus \cup {"none"}]
    BY RowsTyped
  <2>2. ASSUME NEW a \in Business, new.tenant[a] = "SUSPENDED"
        PROVE  seen.tenant[a] = "SUSPENDED" \/ what = <<"status", a, "SUSPENDED">>
    <3>1. CASE a = b
      <4>1. s = "SUSPENDED"
        BY <1>1, <2>1, <2>2, <3>1
      <4> QED
        BY <3>1, <4>1
    <3>2. CASE a # b
      BY <1>1, <2>1, <2>2, <3>2
    <3> QED
      BY <3>1, <3>2
  <2> HIDE DEF what
  <2>3. seen.outlet = seen.tenant => new.outlet = new.tenant
    BY <1>1, <2>1
  <2> QED
    BY <2>2, <2>3 DEF VenueWrite
<1> HIDE DEF what
<1>4. /\ new.tick = db.tick /\ new.failed = seen.failed /\ new.lockedUntil = seen.lockedUntil
      /\ new.packs = db.packs /\ Elsewhere(db, new, {"tenant", "outlet"})
  BY <1>1 DEF Elsewhere, Columns
<1>5. TickWrite(new, what) /\ IsFiniteSet(new.packs)
  BY <1>2, <1>4 DEF TickWrite, OnlyAssignable, Inv
<1>6. LockWrite(seen, new, what)
  <2>1. \A a \in Admin : seen.lockedUntil[a] \in Nat /\ what # <<"wrong", a>>
    BY <1>2, RowsTyped, AccessAssumption, TenancyAssumption DEF Time
  <2> QED
    BY <1>2, <1>4, <2>1 DEF LockWrite
<1>7. RequestOK(r)
  <2>1. VenueAsked(what)
    BY DEF VenueAsked, what
  <2> QED
    BY <1>1, <1>3, <1>5, <1>6, <2>1 DEF RequestOK
<1> QED
  BY <1>4, <1>7 DEF new, what

LEMMA GoodTeam ==
  ASSUME Inv, NEW r \in Rep, NEW new \in Rows, Elsewhere(db, new, {"rep", "active"}),
         \A q \in Rep \ {r} : new.rep[q] = db.rep[q] /\ new.active[q] = db.active[q],
         \/ new.active[r] = (new.rep[r] = "ACTIVE")
         \/ new.rep[r] = db.rep[r] /\ new.active[r] = db.active[r]
  PROVE  Good(new, Other)
<1>1. Other[1] \notin {"wrong", "right", "reset", "save", "status"} /\ VenueAsked(Other)
  BY DEF Other, VenueAsked
<1>2. Team(db) => Team(new)
  BY DEF Team
<1> QED
  BY <1>1, <1>2, Untouched DEF Good, Orderly

LEMMA GoodSpending ==
  ASSUME Inv, NEW i \in Id, NEW new \in Rows, Elsewhere(db, new, {"spent"}),
         \A j \in Id \ {i} : new.spent[j] = db.spent[j],
         Salaries(db) => (new.spent[i].live /\ new.spent[i].rep \in Rep
                            => new.spent[i].category = "SALES_TEAM_SALARY")
  PROVE  Good(new, Other)
<1>1. Other[1] \notin {"wrong", "right", "reset", "save", "status"} /\ VenueAsked(Other)
  BY DEF Other, VenueAsked
<1>2. Salaries(db) => Salaries(new)
  BY DEF Salaries
<1> QED
  BY <1>1, <1>2, Untouched DEF Good, Orderly

LEMMA GoodForgot ==
  ASSUME Inv, Started < MaxRequests, NEW l \in Login
  PROVE  Good(request_password_reset(db, NextId, l, now), Other)
<1> DEFINE new == request_password_reset(db, NextId, l, now)
           p == Remembered(Other, new)
<1>1. Other[1] \notin {"wrong", "right", "reset", "save", "status"} /\ VenueAsked(Other)
  BY DEF Other, VenueAsked
<1>2. Started \in Nat /\ NextId = Started + 1 /\ NextId \in Id
  BY TenancyAssumption DEF Inv, Started, Kind, NextId, Id
<1>3. /\ new \in Rows /\ Elsewhere(db, new, {"reset"})
      /\ \A j \in Id \ {NextId} : new.reset[j] = db.reset[j]
  BY <1>2, ForgotRows DEF Inv
<1>4. p.setBy = past.setBy
  BY <1>1, HistoryKept DEF Inv
<1> HIDE DEF new, p
<1>5. Tokens(db, past, Started) => Tokens(new, p, Started + 1)
  BY <1>2, <1>3, <1>4 DEF Tokens, Id
<1>6. Orderly(db, past, Started) => Orderly(new, p, Started + 1)
  BY <1>1, <1>3, <1>5, Untouched DEF Orderly, p
<1>7. /\ VenueWrite(db, new, Other) /\ TickWrite(new, Other) /\ LockWrite(db, new, Other)
      /\ IsFiniteSet(new.packs)
  BY <1>1, <1>3, Untouched
<1> QED
  BY <1>1, <1>3, <1>6, <1>7 DEF Good, new, p

LEMMA GoodReset ==
  ASSUME Inv, NEW i \in Id, NEW pw \in Password, MayReset(db, i, now)
  PROVE  Good(reset_password(db, i, pw), <<"reset", i>>)
<1> DEFINE new == reset_password(db, i, pw)
           what == <<"reset", i>>
           p == Remembered(what, new)
<1>1. /\ new \in Rows /\ Elsewhere(db, new, {"password", "mustChange", "reset"})
      /\ new.reset = [db.reset EXCEPT ![i].used = TRUE]
  BY ResetRows DEF Inv
<1>2. what[1] = "reset" /\ VenueAsked(what)
  BY DEF VenueAsked
<1>3. p.setBy = [past.setBy EXCEPT ![i] = @ + 1] /\ past.setBy \in [Id -> Nat]
  BY DEF Remembered, Inv, History
<1>4. ~ db.reset[i].used /\ db.reset[i].business # "none" /\ db.reset \in [Id -> Reset]
  BY RowsTyped DEF MayReset, Inv
<1> HIDE DEF new, p
<1>5. Tokens(db, past, Started) => Tokens(new, p, Started + 1)
  <2>1. Started \in Nat
    BY DEF Inv, Started, Kind
  <2>2. /\ new.reset[i].used = TRUE /\ new.reset[i].business = db.reset[i].business
        /\ \A j \in Id \ {i} : new.reset[j] = db.reset[j]
    BY <1>1, <1>4 DEF Reset
  <2>3. Tokens(db, past, Started) => past.setBy[i] = 0 /\ ~ (i > Started)
    BY <1>4 DEF Tokens
  <2> QED
    BY <1>3, <2>1, <2>2, <2>3 DEF Tokens, Id
<1> HIDE DEF what
<1>6. Orderly(db, past, Started) => Orderly(new, p, Started + 1)
  BY <1>1, <1>2, <1>5, Untouched DEF Orderly, p
<1>7. /\ VenueWrite(db, new, what) /\ TickWrite(new, what) /\ LockWrite(db, new, what)
      /\ IsFiniteSet(new.packs)
  BY <1>1, <1>2, Untouched
<1> QED
  BY <1>1, <1>2, <1>6, <1>7 DEF Good, new, p, what

LEMMA GoodGrants ==
  ASSUME Inv, NEW b \in Business, NEW g \in SUBSET Permission
  PROVE  Good(_replace_grants(db, b, g), <<"save", b, g>>)
<1> DEFINE new == _replace_grants(db, b, g)
           what == <<"save", b, g>>
           p == Remembered(what, new)
<1>1. /\ new \in Rows /\ Elsewhere(db, new, {"tick"})
      /\ \A k \in Business \X Permission :
           new.tick[k] = IF k[1] # b THEN db.tick[k]
                         ELSE IF k[2] \notin STAFF_ASSIGNABLE THEN "none"
                         ELSE IF k[2] \in g THEN "granted" ELSE "denied"
  BY GrantRows DEF Inv
<1>2. what[1] = "save" /\ what[3] = g /\ VenueAsked(what)
  BY DEF VenueAsked
<1>3. p.saved = [past.saved EXCEPT ![b] = g] /\ past.saved \in [Business -> SUBSET Permission]
  BY DEF Remembered, Inv, History
<1> HIDE DEF new, p, what
<1>4. TickWrite(new, what)
  BY <1>1, <1>2 DEF TickWrite, OnlyAssignable, Inv
<1>5. ASSUME Ticks(db, past)
      PROVE  Ticks(new, p)
  <2>1. ASSUME NEW a \in Business
        PROVE  resolve_permissions(new, <<a, "EMPLOYEE">>) = p.saved[a] \cap STAFF_ASSIGNABLE
    <3>1. CASE a # b
      <4>1. \A q \in Permission : new.tick[<<a, q>>] = db.tick[<<a, q>>]
        BY <1>1, <3>1
      <4>2. resolve_permissions(new, <<a, "EMPLOYEE">>) = resolve_permissions(db, <<a, "EMPLOYEE">>)
        BY <4>1 DEF resolve_permissions, HasRows, Granted
      <4> QED
        BY <1>3, <1>5, <3>1, <4>2 DEF Ticks
    <3>2. CASE a = b
      <4>1. \A q \in Permission : new.tick[<<a, q>>] = IF q \notin STAFF_ASSIGNABLE THEN "none"
                                                     ELSE IF q \in g THEN "granted" ELSE "denied"
        BY <1>1, <3>2
      <4>2. HasRows(new, a)
        BY <4>1 DEF HasRows, Permission, STAFF_ASSIGNABLE
      <4>3. Granted(new, a) = g \cap STAFF_ASSIGNABLE
        BY <4>1 DEF Granted, Permission, STAFF_ASSIGNABLE
      <4> QED
        BY <1>3, <3>2, <4>2, <4>3 DEF resolve_permissions, is_manager
    <3> QED
      BY <3>1, <3>2
  <2> QED
    BY <2>1 DEF Ticks
<1>6. Orderly(db, past, Started) => Orderly(new, p, Started + 1)
  BY <1>1, <1>2, <1>5, Untouched DEF Orderly, p
<1>7. VenueWrite(db, new, what) /\ LockWrite(db, new, what) /\ IsFiniteSet(new.packs)
  BY <1>1, <1>2, Untouched
<1> QED
  BY <1>1, <1>2, <1>4, <1>6, <1>7 DEF Good, new, p, what

LEMMA GoodWrong ==
  ASSUME Inv, NEW a \in Admin, _assert_not_locked(db, a, now)
  PROVE  Good(WrongPassword(db, a, now), <<"wrong", a>>)
<1> DEFINE new == WrongPassword(db, a, now)
           what == <<"wrong", a>>
           p == Remembered(what, new)
           last == db.failed[a] + 1 >= MaxAttempts
<1>1. /\ new \in Rows /\ Elsewhere(db, new, {"failed", "lockedUntil"})
      /\ new.failed = [db.failed EXCEPT ![a] = IF @ + 1 >= MaxAttempts THEN 0 ELSE @ + 1]
      /\ new.lockedUntil = [db.lockedUntil EXCEPT ![a] = IF db.failed[a] + 1 >= MaxAttempts
                                                        THEN now + LockoutTime ELSE @]
  BY WrongRows DEF Inv
<1>2. what[1] = "wrong" /\ VenueAsked(what) /\ \A b \in Admin : what = <<"wrong", b>> <=> b = a
  BY DEF VenueAsked
<1>3. p.guesses = [past.guesses EXCEPT ![a] = IF new.lockedUntil[a] > db.lockedUntil[a] THEN 0
                                              ELSE @ + 1]
  BY DEF Remembered, Inv, History
<1>4. /\ past.guesses \in [Admin -> Nat]
      /\ db.failed \in [Admin -> 0 .. MaxAttempts] /\ db.lockedUntil \in [Admin -> Nat]
      /\ now \in Nat /\ db.lockedUntil[a] <= now /\ LockoutTime > 0 /\ LockoutTime \in Nat
      /\ MaxAttempts \in Nat /\ MaxAttempts > 0
  BY RowsTyped, AccessAssumption, TenancyAssumption DEF Inv, History, Time, _assert_not_locked
<1> HIDE DEF new, what, p
<1>5. new.lockedUntil[a] > db.lockedUntil[a] <=> last
  BY <1>1, <1>4
<1>6. LockWrite(db, new, what)
  BY <1>1, <1>2, <1>4, <1>5 DEF LockWrite
<1>7. ASSUME Locks(db, past)
      PROVE  Locks(new, p)
  <2>1. p.guesses[a] = new.failed[a] /\ new.failed[a] < MaxAttempts
    BY <1>1, <1>3, <1>4, <1>5, <1>7 DEF Locks
  <2>2. \A b \in Admin \ {a} : p.guesses[b] = new.failed[b] /\ new.failed[b] < MaxAttempts
    BY <1>1, <1>3, <1>4, <1>7 DEF Locks
  <2> QED
    BY <2>1, <2>2 DEF Locks
<1>8. Orderly(db, past, Started) => Orderly(new, p, Started + 1)
  BY <1>1, <1>2, <1>7, Untouched DEF Orderly, p
<1>9. VenueWrite(db, new, what) /\ TickWrite(new, what) /\ IsFiniteSet(new.packs)
  BY <1>1, <1>2, Untouched
<1> QED
  BY <1>1, <1>2, <1>6, <1>8, <1>9 DEF Good, new, p, what

LEMMA GoodRight ==
  ASSUME Inv, NEW a \in Admin
  PROVE  Good(RightPassword(db, a), <<"right", a>>)
<1> DEFINE new == RightPassword(db, a)
           what == <<"right", a>>
           p == Remembered(what, new)
<1>1. /\ new \in Rows /\ Elsewhere(db, new, {"failed", "lockedUntil"})
      /\ new.failed = [db.failed EXCEPT ![a] = 0]
      /\ new.lockedUntil = [db.lockedUntil EXCEPT ![a] = 0]
  BY RightRows DEF Inv
<1>2. what[1] = "right" /\ VenueAsked(what) /\ \A b \in Admin : what # <<"wrong", b>>
  BY DEF VenueAsked
<1>3. p.guesses = [past.guesses EXCEPT ![a] = 0]
  BY DEF Remembered, Inv, History
<1>4. /\ past.guesses \in [Admin -> Nat]
      /\ db.failed \in [Admin -> 0 .. MaxAttempts] /\ db.lockedUntil \in [Admin -> Nat]
      /\ MaxAttempts \in Nat /\ MaxAttempts > 0
  BY RowsTyped, AccessAssumption, TenancyAssumption DEF Inv, History, Time
<1> HIDE DEF new, what, p
<1>5. LockWrite(db, new, what)
  BY <1>1, <1>2, <1>4 DEF LockWrite
<1>6. Locks(db, past) => Locks(new, p)
  BY <1>1, <1>3, <1>4 DEF Locks
<1>7. Orderly(db, past, Started) => Orderly(new, p, Started + 1)
  BY <1>1, <1>2, <1>6, Untouched DEF Orderly, p
<1>8. VenueWrite(db, new, what) /\ TickWrite(new, what) /\ IsFiniteSet(new.packs)
  BY <1>1, <1>2, Untouched
<1> QED
  BY <1>1, <1>2, <1>5, <1>7, <1>8 DEF Good, new, p, what

\* Every request is good, whatever it asks for.
LEMMA RequestStep ==
  ASSUME Inv, AloneInv, NEW w \in Worker,
         ConsoleRequest(w) \/ SalesRequest(w) \/ AccessRequest(w) \/ AdminRequest(w)
  PROVE  Inv' /\ AloneInv'
<1>1. db \in Rows /\ "console" \in Kind /\ "sales" \in Kind /\ "access" \in Kind /\ "admin" \in Kind
  BY DEF Inv, Kind
<1>2. \A kind, new, what : Prepare(w, kind, new, what) => Started < MaxRequests /\ NextId \in Id
  <2>1. Started \in Nat
    BY DEF Inv, Started, Kind
  <2> QED
    BY <2>1, TenancyAssumption DEF Prepare, NextId, Id
<1>3. ASSUME NEW c \in Contact, NEW s \in {"DRAFT", "ACTIVE"}, NEW h \in Helper, Onboard(w, c, s, h)
      PROVE  Inv' /\ AloneInv'
  <2>1. PICK b \in Free, placeholder \in Unused :
          Prepare(w, "console", create_tenant(db, b, c, placeholder, s, h), Other)
    BY <1>3 DEF Onboard
  <2> QED
    BY <1>1, <2>1, GoodOnboard, Prepared DEF Free, Unused, Helper
<1>4. ASSUME NEW b \in Business, NEW c \in Contact, NEW h \in Helper, UpdateTenant(w, b, c, h)
      PROVE  Inv' /\ AloneInv'
  <2>1. Good(update_tenant(db, b, c, h), Other)
    <3> DEFINE new == update_tenant(db, b, c, h)
    <3>1. new \in Rows /\ Elsewhere(db, new, {"contact", "helper"})
      BY <1>1, UpdateTenantRows DEF Helper
    <3> HIDE DEF new
    <3>2. IsFiniteSet(new.packs)
      BY <3>1, Untouched
    <3>3. Good(new, Other)
      BY <3>1, <3>2, GoodElsewhere DEF Elsewhere
    <3> QED
      BY <3>3 DEF new
  <2> QED
    BY <1>1, <1>4, <2>1, Prepared DEF UpdateTenant
<1>5. ASSUME NEW b \in Business, NEW s \in TenantStatus, UpdateStatus(w, b, s)
      PROVE  Inv' /\ AloneInv'
  BY <1>1, <1>5, GoodVenue, Prepared DEF UpdateStatus
<1>6. ASSUME NEW b \in Business, NEW paid \in Date, NEW next \in Date, Collect(w, b, paid, next)
      PROVE  Inv' /\ AloneInv'
  <2>1. NextId \in Id
    BY <1>2, <1>6 DEF Collect
  <2>2. Good(create_collection(db, NextId, b, paid, next), Other)
    <3> DEFINE new == create_collection(db, NextId, b, paid, next)
               row == [id |-> NextId, business |-> b, paid |-> paid, next |-> next]
    <3>1. new \in Rows /\ Elsewhere(db, new, {"packs"})
      BY <1>1, <2>1, CollectRows
    <3>2. new.packs = db.packs \cup {row}
      BY <1>1 DEF create_collection, Rows
    <3> HIDE DEF new, row
    <3>3. IsFiniteSet(new.packs)
      BY <3>2, FS_AddElement DEF Inv
    <3>4. Good(new, Other)
      BY <3>1, <3>3, GoodElsewhere DEF Elsewhere
    <3> QED
      BY <3>4 DEF new
  <2> QED
    BY <1>1, <1>6, <2>2, Prepared DEF Collect
<1>7. ASSUME NEW r \in Rep, NEW e \in NewEmployment, CreateEmployee(w, r, e)
      PROVE  Inv' /\ AloneInv'
  <2> DEFINE new == create_employee(db, r, e)
  <2>1. /\ new \in Rows /\ Elsewhere(db, new, {"rep", "active"})
        /\ new.rep = [db.rep EXCEPT ![r] = e] /\ new.active = [db.active EXCEPT ![r] = (e = "ACTIVE")]
    BY <1>1, HireRows, TenancyAssumption
  <2>2. db.rep \in [Rep -> Employment \cup {"none"}] /\ db.active \in [Rep -> BOOLEAN]
    BY <1>1, RowsTyped
  <2> HIDE DEF new
  <2>3. Good(new, Other)
    BY <2>1, <2>2, GoodTeam
  <2> QED
    BY <1>1, <1>7, <2>3, Prepared DEF CreateEmployee, new
<1>8. ASSUME NEW r \in Rep, NEW e \in NewEmployment \cup {"unset"}, NEW f \in {"unset", "yes", "no"},
             UpdateEmployee(w, r, e, f)
      PROVE  Inv' /\ AloneInv'
  <2>1. Good(update_employee(db, r, e, f), Other)
    <3> DEFINE new == update_employee(db, r, e, f)
    <3>1. e \in Employment \cup {"unset"}
      BY TenancyAssumption
    <3>2. /\ new \in Rows /\ Elsewhere(db, new, {"rep", "active"})
          /\ \A q \in Rep \ {r} : new.rep[q] = db.rep[q] /\ new.active[q] = db.active[q]
          /\ \/ new.active[r] = (new.rep[r] = "ACTIVE")
             \/ new.rep[r] = db.rep[r] /\ new.active[r] = db.active[r]
      BY <1>1, <3>1, UpdateEmployeeRows
    <3> HIDE DEF new
    <3>3. Good(new, Other)
      BY <3>2, GoodTeam
    <3> QED
      BY <3>3 DEF new
  <2> QED
    BY <1>1, <1>8, <2>1, Prepared DEF UpdateEmployee
<1>9. ASSUME NEW cat \in Category, NEW r \in Helper, Spend(w, cat, r)
      PROVE  Inv' /\ AloneInv'
  <2> DEFINE new == create_expenditure(db, NextId, cat, r)
             row == [category |-> cat, rep |-> r, live |-> TRUE]
  <2>1. NextId \in Id
    BY <1>2, <1>9 DEF Spend
  <2>2. /\ new \in Rows /\ Elsewhere(db, new, {"spent"})
        /\ new.spent = [db.spent EXCEPT ![NextId] = row]
    BY <1>1, <2>1, SpendRows DEF Helper
  <2>3. row.rep \in Rep => row.category = "SALES_TEAM_SALARY"
    BY <1>9, DeskAssumption DEF Spend, MaySpend
  <2> HIDE DEF new, row
  <2>4. new.spent[NextId] = row /\ \A j \in Id \ {NextId} : new.spent[j] = db.spent[j]
    BY <1>1, <2>1, <2>2, RowsTyped
  <2>5. new.spent[NextId].rep \in Rep => new.spent[NextId].category = "SALES_TEAM_SALARY"
    BY <2>3, <2>4
  <2>6. Good(new, Other)
    BY <2>1, <2>2, <2>4, <2>5, GoodSpending
  <2> QED
    BY <1>1, <1>9, <2>6, Prepared DEF Spend, new
<1>10. ASSUME NEW i \in Id, NEW r \in Rep, Reassign(w, i, r)
       PROVE  Inv' /\ AloneInv'
  <2> DEFINE new == update_expenditure(db, i, r)
  <2>1. /\ new \in Rows /\ Elsewhere(db, new, {"spent"})
        /\ new.spent = [db.spent EXCEPT ![i].rep = r]
    BY <1>1, ReassignRows
  <2>2. db.spent[i].category = "SALES_TEAM_SALARY"
    BY <1>10 DEF Reassign, MayReassign
  <2> HIDE DEF new
  <2>3. new.spent[i].category = "SALES_TEAM_SALARY" /\ \A j \in Id \ {i} : new.spent[j] = db.spent[j]
    <3>1. db.spent \in [Id -> Entry]
      BY <1>1, RowsTyped
    <3> QED
      BY <2>1, <2>2, <3>1 DEF Entry
  <2>4. Good(new, Other)
    BY <2>1, <2>3, GoodSpending
  <2> QED
    BY <1>1, <1>10, <2>4, Prepared DEF Reassign, new
<1>11. ASSUME NEW i \in Id, Unspend(w, i)
       PROVE  Inv' /\ AloneInv'
  <2> DEFINE new == delete_expenditure(db, i)
  <2>1. /\ new \in Rows /\ Elsewhere(db, new, {"spent"})
        /\ new.spent = [db.spent EXCEPT ![i] = NoEntry]
    BY <1>1, UnspendRows
  <2> HIDE DEF new
  <2>2. new.spent[i] = NoEntry /\ \A j \in Id \ {i} : new.spent[j] = db.spent[j]
    BY <1>1, <2>1, RowsTyped
  <2>3. ~ new.spent[i].live
    BY <2>2 DEF NoEntry
  <2>4. Good(new, Other)
    BY <2>1, <2>2, <2>3, GoodSpending
  <2> QED
    BY <1>1, <1>11, <2>4, Prepared DEF Unspend, new
<1>12. ASSUME NEW l \in Login, ForgotPassword(w, l)
       PROVE  Inv' /\ AloneInv'
  BY <1>1, <1>2, <1>12, GoodForgot, Prepared DEF ForgotPassword
<1>13. ASSUME NEW i \in Id, NEW p \in Password, ResetPassword(w, i, p)
       PROVE  Inv' /\ AloneInv'
  BY <1>1, <1>13, GoodReset, Prepared DEF ResetPassword
<1>14. ASSUME NEW l \in Login, NEW c, NEW p \in Password, ChangePassword(w, l, c, p)
       PROVE  Inv' /\ AloneInv'
  <2>1. Good(NewPassword(db, l, p), Other)
    <3> DEFINE new == NewPassword(db, l, p)
    <3>1. new \in Rows /\ Elsewhere(db, new, {"password", "mustChange"})
      BY <1>1, PasswordRows
    <3> HIDE DEF new
    <3>2. IsFiniteSet(new.packs)
      BY <3>1, Untouched
    <3>3. Good(new, Other)
      BY <3>1, <3>2, GoodElsewhere DEF Elsewhere
    <3> QED
      BY <3>3 DEF new
  <2> QED
    BY <1>1, <1>14, <2>1, Prepared DEF ChangePassword
<1>15. ASSUME NEW b \in Business, NEW l \in Login, NEW g \in SUBSET Permission,
              SavePermissions(w, b, l, g)
       PROVE  Inv' /\ AloneInv'
  BY <1>1, <1>15, GoodGrants, Prepared DEF SavePermissions
<1>16. ASSUME NEW a \in Admin, NEW right \in BOOLEAN, PlatformLogin(w, a, right)
       PROVE  Inv' /\ AloneInv'
  BY <1>1, <1>16, GoodRight, GoodWrong, Prepared DEF PlatformLogin
<1> QED
  BY <1>3, <1>4, <1>5, <1>6, <1>7, <1>8, <1>9, <1>10, <1>11, <1>12, <1>13, <1>14, <1>15, <1>16
     DEF ConsoleRequest, SalesRequest, AccessRequest, AdminRequest

-----------------------------------------------------------------------------
(* Commits, logins and the clock *)

LEMMA RememberedTyped ==
  ASSUME past \in History, now \in Nat, NEW what, NEW d,
         what[1] = "save" => what[3] \in SUBSET Permission
  PROVE  Remembered(what, d) \in History
<1>1. CASE what[1] = "wrong"
  BY <1>1 DEF Remembered, History
<1>2. CASE what[1] = "right"
  BY <1>2 DEF Remembered, History
<1>3. CASE what[1] = "reset"
  BY <1>3 DEF Remembered, History
<1>4. CASE what[1] = "save"
  BY <1>4 DEF Remembered, History
<1>5. CASE what[1] = "status"
  BY <1>5 DEF Remembered, History
<1>6. CASE what[1] \notin {"wrong", "right", "reset", "save", "status"}
  BY <1>6 DEF Remembered
<1> QED
  BY <1>1, <1>2, <1>3, <1>4, <1>5, <1>6

\* What a commit does to the rows, however many others came in between.
LEMMA CommittedRows ==
  ASSUME Inv, NEW w \in Worker, req[w].busy, ~ Fails(w)
  PROVE  LET d == Merged(db, req[w].loaded, req[w].new)
             p == Remembered(req[w].what, d)
         IN /\ d \in Rows /\ Distinct(d) /\ OnlyAssignable(d)
            /\ IsFiniteSet(d.packs)
            /\ p \in History
            /\ \A l \in Login : d.tenant[l[1]] = "SUSPENDED" =>
                 session[l] <= p.suspendedAt[l[1]] + AccessLife
<1> DEFINE old == req[w].loaded
           new == req[w].new
           what == req[w].what
           d == Merged(db, old, new)
           p == Remembered(what, d)
<1>1. /\ db \in Rows /\ old \in Rows /\ new \in Rows
      /\ VenueWrite(old, new, what) /\ TickWrite(new, what)
      /\ IsFiniteSet(db.packs) /\ IsFiniteSet(new.packs)
  <2>1. RequestOK(req[w])
    BY DEF Inv, Idle
  <2> QED
    BY <2>1 DEF Inv, RequestOK
<1>2. ~ BreaksUnique(db, old, new)
  BY DEF Fails
<1>3. Distinct(d)
  BY <1>2 DEF BreaksUnique, Distinct
<1> HIDE DEF old, new, what
<1>4. d \in Rows
  BY <1>1, MergedTyped
<1>5. /\ d.tenant = Written(db.tenant, old.tenant, new.tenant)
      /\ d.tick = Written(db.tick, old.tick, new.tick)
      /\ d.packs = db.packs \cup (new.packs \ old.packs)
  BY <1>1, MergedColumns
<1> HIDE DEF d
<1>6. IsFiniteSet(d.packs)
  <2>1. IsFiniteSet(new.packs \ old.packs)
    BY <1>1, FS_Subset
  <2> QED
    BY <1>1, <1>5, <2>1, FS_Union
<1>7. OnlyAssignable(d)
  <2>1. db.tick \in [Business \X Permission -> Tick] /\ OnlyAssignable(db) /\ OnlyAssignable(new)
    BY <1>1, RowsTyped DEF Inv, TickWrite
  <2>2. \A k \in Business \X Permission : d.tick[k] = new.tick[k] \/ d.tick[k] = db.tick[k]
    BY <1>5, <2>1 DEF Written
  <2> QED
    BY <2>1, <2>2 DEF OnlyAssignable
<1>8. p \in History
  <2>1. past \in History /\ now \in Nat
    BY TenancyAssumption DEF Inv
  <2> QED
    BY <1>1, <2>1, RememberedTyped DEF TickWrite
<1>9. ASSUME NEW l \in Login, d.tenant[l[1]] = "SUSPENDED"
      PROVE  session[l] <= p.suspendedAt[l[1]] + AccessLife
  <2> DEFINE b == l[1]
  <2>1. b \in Business /\ past \in History /\ past.suspendedAt \in [Business -> Nat]
    BY DEF Login, Inv, History
  <2>2. session[l] <= now + AccessLife
    BY DEF Inv
  <2>3. db.tenant[b] = "SUSPENDED" => session[l] <= past.suspendedAt[b] + AccessLife
    BY DEF Inv, SuspensionRunsOut
  <2>4. db.tenant \in [Business -> TenantStatus \cup {"none"}]
    BY <1>1, RowsTyped
  <2> HIDE DEF b
  <2>5. CASE db.tenant[b] = "SUSPENDED"
    <3>1. p.suspendedAt[b] = past.suspendedAt[b]
      <4>1. CASE what[1] = "status"
        BY <2>1, <2>5, <4>1 DEF Remembered, History, p
      <4>2. CASE what[1] # "status"
        BY <2>1, <4>2, HistoryKept DEF p
      <4> QED
        BY <4>1, <4>2
    <3> QED
      BY <2>3, <2>5, <3>1 DEF b
  <2>6. CASE db.tenant[b] # "SUSPENDED"
    <3>1. new.tenant[b] = "SUSPENDED" /\ old.tenant[b] # "SUSPENDED"
      BY <1>5, <1>9, <2>1, <2>4, <2>6 DEF Written, b
    <3>2. what = <<"status", b, "SUSPENDED">>
      BY <1>1, <2>1, <3>1 DEF VenueWrite
    <3>3. what[1] = "status" /\ what[2] = b /\ what[3] = "SUSPENDED"
      BY <3>2
    <3>4. p.suspendedAt[b] = now
      BY <2>1, <2>6, <3>3 DEF Remembered, History, p
    <3> QED
      BY <2>2, <3>4 DEF b
  <2> QED
    BY <2>5, <2>6
<1> QED
  BY <1>3, <1>4, <1>6, <1>7, <1>8, <1>9 DEF d, p, old, new, what

\* What is written over rows nobody else has touched is what was meant.
LEMMA CommittedAlone ==
  ASSUME NEW new \in Rows, db \in Rows
  PROVE  LET d == Merged(db, db, new)
         IN \A f \in {"rep", "active", "spent", "failed", "tick", "reset", "lockedUntil",
                     "tenant", "outlet"} :
              d[f] = new[f]
<1> DEFINE d == Merged(db, db, new)
<1>1. /\ d.rep = Written(db.rep, db.rep, new.rep)
      /\ d.active = Written(db.active, db.active, new.active)
      /\ d.spent = Written(db.spent, db.spent, new.spent)
      /\ d.failed = Written(db.failed, db.failed, new.failed)
      /\ d.tick = Written(db.tick, db.tick, new.tick)
      /\ d.reset = Written(db.reset, db.reset, new.reset)
      /\ d.lockedUntil = Written(db.lockedUntil, db.lockedUntil, new.lockedUntil)
      /\ d.tenant = Written(db.tenant, db.tenant, new.tenant)
      /\ d.outlet = Written(db.outlet, db.outlet, new.outlet)
  BY MergedColumns
<1> HIDE DEF d
<1>2. d.rep = new.rep
  BY <1>1, RowsTyped DEF Written
<1>3. d.active = new.active
  BY <1>1, RowsTyped DEF Written
<1>4. d.spent = new.spent
  BY <1>1, RowsTyped DEF Written
<1>5. d.failed = new.failed
  BY <1>1, RowsTyped DEF Written
<1>6. d.tick = new.tick
  BY <1>1, RowsTyped DEF Written
<1>7. d.reset = new.reset
  BY <1>1, RowsTyped DEF Written
<1>8. d.lockedUntil = new.lockedUntil
  BY <1>1, RowsTyped DEF Written
<1>9. d.tenant = new.tenant
  BY <1>1, RowsTyped DEF Written
<1>10. d.outlet = new.outlet
  BY <1>1, RowsTyped DEF Written
<1> QED
  BY <1>2, <1>3, <1>4, <1>5, <1>6, <1>7, <1>8, <1>9, <1>10 DEF d

LEMMA CommitStep ==
  ASSUME Inv, AloneInv, NEW w \in Worker, Commit(w)
  PROVE  Inv' /\ AloneInv'
<1> DEFINE new == req[w].new
           what == req[w].what
           d == Merged(db, req[w].loaded, new)
           p == Remembered(what, d)
<1>1. /\ req[w].busy /\ req' = [req EXCEPT ![w] = Idle]
      /\ made' = made /\ overlapped' = overlapped /\ session' = session /\ now' = now
      /\ Started' = Started
  BY DEF Commit, Started
<1>2. Fails(w) => db' = db /\ past' = past
  BY DEF Commit
<1>3. ~ Fails(w) => db' = d /\ past' = p
  BY DEF Commit
<1>4. req'[w] = Idle /\ ~ req'[w].busy /\ \A v \in Worker : v # w => req'[v] = req[v]
  BY <1>1 DEF Inv, Idle
<1>5. Inv'
  <2>1. /\ db' \in Rows /\ Distinct(db') /\ OnlyAssignable(db')
        /\ past' \in History /\ IsFiniteSet(db'.packs)
        /\ \A l \in Login : db'.tenant[l[1]] = "SUSPENDED" =>
             session[l] <= past'.suspendedAt[l[1]] + AccessLife
    <3>1. CASE Fails(w)
      BY <1>2, <3>1 DEF Inv, SuspensionRunsOut, Distinct, Contacts, OnlyAssignable
    <3>2. CASE ~ Fails(w)
      BY <1>1, <1>3, <3>2, CommittedRows
    <3> QED
      BY <3>1, <3>2
  <2> HIDE DEF new, what, d, p
  <2>2. req' = [v \in Worker |-> req'[v]]
    BY <1>1 DEF Inv
  <2>3. \A v \in Worker : req'[v] = Idle \/ (req'[v].busy = TRUE /\ RequestOK(req'[v]))
    BY <1>4 DEF Inv
  <2> QED
    BY <1>1, <2>1, <2>2, <2>3 DEF Inv, SuspensionRunsOut
<1>6. AloneInv'
  <2> SUFFICES ASSUME ~ overlapped'
               PROVE  /\ db'.outlet = db'.tenant
                      /\ Orderly(db', past', Started')
                      /\ \A v \in Worker : ~ req'[v].busy
    BY DEF AloneInv
  <2>1. /\ db.outlet = db.tenant
        /\ Orderly(db, past, Started) /\ req[w].loaded = db
        /\ Orderly(new, Remembered(what, new), Started)
        /\ \A v \in Worker : req[v].busy => v = w
    BY <1>1 DEF AloneInv
  <2>2. \A v \in Worker : ~ req'[v].busy
    BY <1>4, <2>1
  <2>3. CASE Fails(w)
    BY <1>1, <1>2, <2>1, <2>2, <2>3
  <2>4. CASE ~ Fails(w)
    <3>1. db \in Rows /\ new \in Rows /\ Started \in Nat
      BY <1>1 DEF Inv, Idle, RequestOK, Started, Kind
    <3>2. \A f \in {"rep", "active", "spent", "failed", "tick", "reset", "lockedUntil",
                    "tenant", "outlet"} : d[f] = new[f]
      BY <2>1, <3>1, CommittedAlone
    <3>5. d.outlet = d.tenant
      <4>1. new.outlet = new.tenant
        BY <1>1, <2>1 DEF Inv, Idle, RequestOK, VenueWrite
      <4> QED
        BY <3>2, <4>1
    <3>3. Remembered(what, d) = Remembered(what, new)
      <4>1. d.lockedUntil = new.lockedUntil
        BY <3>2
      <4> HIDE DEF d, new, what
      <4> QED
        BY <4>1 DEF Remembered
    <3> HIDE DEF d, new, what
    <3>4. Orderly(d, p, Started)
      BY <2>1, <3>1, <3>2, <3>3, OrderlySame
    <3> HIDE DEF p
    <3> QED
      BY <1>1, <1>3, <2>2, <2>4, <3>4, <3>5
  <2> QED
    BY <2>3, <2>4
<1> QED
  BY <1>5, <1>6

\* The outlets are read, after whatever was committed since the business was.
LEMMA OutletsStep ==
  ASSUME Inv, AloneInv, NEW w \in Worker, ReadOutlets(w)
  PROVE  Inv' /\ AloneInv'
<1> DEFINE b == req[w].what[2]
           s == req[w].what[3]
           seen == [db EXCEPT !.tenant[b] = req[w].loaded.tenant[b]]
           new == update_tenant_status(seen, b, s)
           what == <<"status", b, s>>
           r == [busy |-> TRUE, loaded |-> seen, new |-> new, what |-> what]
<1>1. /\ req[w].busy /\ req' = [req EXCEPT ![w] = r]
      /\ db' = db /\ made' = made /\ overlapped' = overlapped /\ session' = session
      /\ now' = now /\ past' = past /\ Started' = Started
  BY DEF ReadOutlets, HasReadVenue, Started
<1>2. req[w].loaded \in Rows /\ db \in Rows /\ b \in Business /\ s \in TenantStatus
  <2>1. req[w].what[1] = "venue"
    BY DEF ReadOutlets, HasReadVenue
  <2> QED
    BY <1>1, <2>1 DEF Inv, Idle, RequestOK, VenueAsked
<1>3. seen \in Rows /\ Elsewhere(db, seen, {"tenant"})
  <2>1. req[w].loaded.tenant[b] \in TenantStatus \cup {"none"}
    BY <1>2, RowsTyped
  <2> QED
    BY <1>2, <2>1 DEF Rows, Elsewhere, Columns
<1>4. RequestOK(r) /\ Elsewhere(db, new, {"tenant", "outlet"})
  BY <1>2, <1>3, StatusOK
<1>5. r.busy = TRUE /\ r.loaded = seen /\ r.new = new /\ r.what = what
  OBVIOUS
<1>6. ~ overlapped => seen = db
  <2>1. ASSUME ~ overlapped
        PROVE  seen = db
    <3>1. req[w].loaded = db
      BY <1>1, <2>1 DEF AloneInv
    <3>2. seen = [db EXCEPT !.tenant[b] = db.tenant[b]]
      BY <3>1
    <3> HIDE DEF seen, b
    <3> QED
      BY <1>2, <3>2 DEF Rows
  <2> QED
    BY <2>1
<1> HIDE DEF r, new, seen
<1>7. req'[w] = r /\ \A v \in Worker : v # w => req'[v] = req[v]
  BY <1>1 DEF Inv
<1>8. Inv'
  <2>1. \A v \in Worker : req'[v] = Idle \/ (req'[v].busy = TRUE /\ RequestOK(req'[v]))
    BY <1>4, <1>5, <1>7 DEF Inv
  <2>2. req' = [v \in Worker |-> req'[v]]
    BY <1>1 DEF Inv
  <2> QED
    BY <1>1, <2>1, <2>2 DEF Inv, SuspensionRunsOut, Distinct, Contacts, OnlyAssignable
<1>9. AloneInv'
  <2> SUFFICES ASSUME ~ overlapped
               PROVE  AloneInv'
    BY <1>1 DEF AloneInv
  <2>1. db.outlet = db.tenant /\ Orderly(db, past, Started)
    BY DEF AloneInv
  <2>2. past \in History /\ Started \in Nat
    BY DEF Inv, Started, Kind
  <2>3. Orderly(new, Remembered(what, new), Started)
    <3>1. what[1] \notin {"wrong", "right", "reset", "save"}
      OBVIOUS
    <3> HIDE DEF what
    <3> DEFINE q == Remembered(what, new)
    <3>2. q.guesses = past.guesses /\ q.setBy = past.setBy /\ q.saved = past.saved
      BY <2>2, <3>1, HistoryKept
    <3>3. \A f \in {"rep", "active", "spent", "failed", "tick", "reset"} : new[f] = db[f]
      BY <1>4 DEF Elsewhere, Columns
    <3> HIDE DEF q
    <3>4. Orderly(new, q, Started)
      BY <2>1, <2>2, <3>2, <3>3, OrderlySame
    <3> QED
      BY <3>4 DEF q
  <2>4. \A d, e : Remembered(e, d)' = Remembered(e, d)
    BY <1>1 DEF Remembered
  <2>5. \A v \in Worker : req[v].busy => v = w
    BY <1>1 DEF AloneInv
  <2>6. \A v \in Worker : req'[v].busy => v = w
    BY <1>7, <2>5
  <2> HIDE DEF what
  <2>7. /\ req'[w].loaded = db' /\ req'[w].new = new /\ req'[w].what = what
    BY <1>1, <1>5, <1>6, <1>7
  <2>8. Orderly(req[w].new, Remembered(req[w].what, req[w].new), Started)'
    BY <1>1, <2>3, <2>4, <2>7
  <2>9. \A v \in Worker : req'[v].busy =>
          /\ req'[v].loaded = db'
          /\ Orderly(req[v].new, Remembered(req[v].what, req[v].new), Started)'
    BY <2>6, <2>7, <2>8
  <2> QED
    BY <1>1, <2>1, <2>6, <2>9 DEF AloneInv
<1> QED
  BY <1>8, <1>9

\* A login changes the tokens only, and is refused to suspended venues.
LEMMA LoginStep ==
  ASSUME Inv, AloneInv, NEW l \in Login, NEW password, OwnerLogin(l, password)
  PROVE  Inv' /\ AloneInv'
<1>1. /\ made' = [made EXCEPT !["access"] = @ + 1] /\ made.access < Limit.access
      /\ session' = [session EXCEPT ![l] = now + AccessLife]
      /\ db' = db /\ req' = req /\ overlapped' = overlapped /\ now' = now /\ past' = past
      /\ db.tenant[l[1]] # "SUSPENDED"
  BY DEF OwnerLogin, MayLogin
<1>2. Started \in Nat /\ Started' = Started + 1 /\ made' \in [Kind -> Nat]
  BY <1>1, StartedGrows DEF Inv, Kind
<1>3. Inv'
  <2>1. now + AccessLife \in Time
    BY AccessAssumption, TenancyAssumption DEF Inv, Time
  <2>2. session' \in [Login -> Time] /\ \A k \in Login : session'[k] <= now' + AccessLife
    BY <1>1, <2>1, AccessAssumption, TenancyAssumption DEF Inv, Time
  <2>3. \A k \in Kind : made'[k] \in 0 .. Limit[k]
    <3>1. \A k \in Kind : Limit[k] \in Nat
      BY TenancyAssumption DEF Kind, Limit
    <3> QED
      BY <1>1, <3>1 DEF Inv, Kind
  <2>4. SuspensionRunsOut'
    BY <1>1 DEF Inv, SuspensionRunsOut, Login
  <2>5. Distinct(db') /\ OnlyAssignable(db')
    BY <1>1 DEF Inv
  <2> QED
    BY <1>1, <1>2, <2>2, <2>3, <2>4, <2>5 DEF Inv
<1>4. AloneInv'
  <2>1. \A what, new : Remembered(what, new)' = Remembered(what, new)
    BY <1>1 DEF Remembered
  <2>2. \A e, q : Orderly(e, q, Started) => Orderly(e, q, Started + 1)
    BY <1>2, OrderlySame
  <2> QED
    BY <1>1, <1>2, <2>1, <2>2 DEF AloneInv
<1> QED
  BY <1>3, <1>4

\* Time is remembered only of suspensions.
LEMMA PassesStep ==
  ASSUME Inv, AloneInv, Passes
  PROVE  Inv' /\ AloneInv'
<1>1. /\ now < MaxTime /\ now' = now + 1
      /\ db' = db /\ req' = req /\ made' = made /\ overlapped' = overlapped
      /\ session' = session /\ past' = past /\ Started' = Started
  BY DEF Passes, Started
<1>2. Inv'
  <2>1. now' \in 0 .. MaxTime /\ \A l \in Login : session'[l] <= now' + AccessLife
    BY <1>1, AccessAssumption, TenancyAssumption DEF Inv, Time
  <2>2. SuspensionRunsOut' /\ Distinct(db') /\ OnlyAssignable(db')
    BY <1>1 DEF Inv, SuspensionRunsOut
  <2> QED
    BY <1>1, <2>1, <2>2 DEF Inv
<1>3. AloneInv'
  <2>1. Started \in Nat /\ past \in History
    BY DEF Inv, Started, Kind
  <2>2. ASSUME NEW what, NEW new
        PROVE  LET q == Remembered(what, new)'
                   p == Remembered(what, new)
               IN q.guesses = p.guesses /\ q.setBy = p.setBy /\ q.saved = p.saved
    <3>1. CASE what[1] = "status"
      BY <1>1, <2>1, <3>1 DEF Remembered, History
    <3>2. CASE what[1] # "status"
      BY <1>1, <3>2 DEF Remembered
    <3> QED
      BY <3>1, <3>2
  <2>3. ASSUME NEW what, NEW new, Orderly(new, Remembered(what, new), Started)
        PROVE  Orderly(new, Remembered(what, new)', Started)
    BY <2>1, <2>2, <2>3, OrderlySame
  <2> QED
    BY <1>1, <2>3 DEF AloneInv
<1> QED
  BY <1>2, <1>3

LEMMA Stuttering ==
  ASSUME Inv, AloneInv, UNCHANGED vars
  PROVE  Inv' /\ AloneInv'
<1>1. /\ db' = db /\ req' = req /\ made' = made /\ overlapped' = overlapped
      /\ session' = session /\ now' = now /\ past' = past
  BY DEF vars
<1>2. SuspensionRunsOut' /\ Started' = Started
  BY <1>1 DEF Inv, SuspensionRunsOut, Started
<1>3. \A what, new : Remembered(what, new)' = Remembered(what, new)
  BY <1>1 DEF Remembered
<1> QED
  BY <1>1, <1>2, <1>3 DEF Inv, AloneInv

-----------------------------------------------------------------------------
(* The initial states *)

LEMMA NoRowsTyped == NoRows \in Rows
<1>1. NoEntry \in Entry /\ NoReset \in Reset /\ 0 \in Time /\ 0 \in 0 .. MaxAttempts
  BY AccessAssumption, TenancyAssumption
     DEF NoEntry, Entry, Category, NoReset, Reset, Role, Time
<1> QED
  BY <1>1 DEF NoRows, Rows, Tick

LEMMA InitInv ==
  ASSUME Init
  PROVE  Inv /\ AloneInv
<1>1. PICK b \in Business, c \in Contact, placeholder \in Contact :
        c # placeholder /\ db = create_tenant(NoRows, b, c, placeholder, "ACTIVE", "nobody")
  BY DEF Init
<1>2. /\ req = [w \in Worker |-> Idle] /\ made = [k \in Kind |-> 0] /\ overlapped = FALSE
      /\ session = [l \in Login |-> 0] /\ now = 0
      /\ past = [guesses |-> [a \in Admin |-> 0], setBy |-> [i \in Id |-> 0],
                 saved |-> [v \in Business |-> STAFF_DEFAULTS],
                 suspendedAt |-> [v \in Business |-> 0]]
  BY DEF Init
<1>3. /\ db \in Rows
      /\ Elsewhere(NoRows, db, {"tenant", "outlet", "helper", "contact", "password", "mustChange"})
      /\ db.tenant = [NoRows.tenant EXCEPT ![b] = "ACTIVE"]
      /\ db.outlet = [NoRows.outlet EXCEPT ![b] = "ACTIVE"]
  <2>1. "ACTIVE" \in TenantStatus /\ "nobody" \in Rep \cup {"nobody"}
    BY DEF TenantStatus
  <2> QED
    BY <1>1, <2>1, NoRowsTyped, OnboardRows
<1>4. db.outlet = db.tenant /\ \A v \in Business : db.tenant[v] # "SUSPENDED"
  BY <1>3 DEF NoRows
<1>5. /\ db.rep = NoRows.rep /\ db.active = NoRows.active /\ db.spent = NoRows.spent
      /\ db.reset = NoRows.reset /\ db.tick = NoRows.tick /\ db.failed = NoRows.failed
  BY <1>3 DEF Elsewhere, Columns
<1>6. Distinct(db)
  <2>1. db.contact = [NoRows.contact EXCEPT ![<<b, "OWNER">>] = c, ![<<b, "EMPLOYEE">>] = placeholder]
    BY <1>1 DEF create_tenant, NoRows
  <2>2. \A l \in Login :
          db.contact[l] = IF l = <<b, "EMPLOYEE">> THEN placeholder
                          ELSE IF l = <<b, "OWNER">> THEN c ELSE "none"
    BY <2>1 DEF NoRows, Login, Role
  <2> QED
    BY <1>1, <2>2 DEF Distinct, Contacts
<1>7. past \in History
  BY <1>2 DEF History, STAFF_DEFAULTS, Permission
<1>8. Started = 0 /\ made \in [Kind -> Nat] /\ \A k \in Kind : made[k] \in 0 .. Limit[k]
  <2>1. \A k \in Kind : Limit[k] \in Nat
    BY TenancyAssumption DEF Kind, Limit
  <2> QED
    BY <1>2, <2>1 DEF Started, Kind
<1>9. session \in [Login -> Time] /\ \A l \in Login : session[l] <= now + AccessLife
  BY <1>2, AccessAssumption, TenancyAssumption DEF Time
<1>10. Inv
  <2>1. OnlyAssignable(db)
    <3>1. \A k \in Business \X Permission : db.tick[k] = "none"
      BY <1>5 DEF NoRows
    <3> QED
      BY <3>1 DEF OnlyAssignable
  <2>4. IsFiniteSet(db.packs)
    BY <1>3, FS_EmptySet DEF NoRows, Elsewhere, Columns
  <2>2. SuspensionRunsOut
    BY <1>4 DEF SuspensionRunsOut, Login
  <2>3. /\ req = [w \in Worker |-> req[w]] /\ \A w \in Worker : req[w] = Idle
        /\ overlapped \in BOOLEAN /\ now \in 0 .. MaxTime
    <3>1. req = [w \in Worker |-> Idle] /\ 0 \in 0 .. MaxTime
      BY <1>2, TenancyAssumption
    <3> HIDE DEF Idle
    <3> QED
      BY <1>2, <3>1
  <2> QED
    <3>1. \A w \in Worker : req[w] = Idle \/ (req[w].busy = TRUE /\ RequestOK(req[w]))
      BY <2>3
    <3> QED
      BY <1>3, <1>4, <1>6, <1>7, <1>8, <1>9, <2>1, <2>2, <2>3, <2>4, <3>1 DEF Inv
<1>11. AloneInv
  <2>1. Team(db) /\ Salaries(db)
    <3>1. \A r \in Rep : db.rep[r] = "none" /\ db.active[r] = FALSE
      BY <1>5 DEF NoRows
    <3>2. \A i \in Id : ~ db.spent[i].live
      BY <1>5 DEF NoRows, NoEntry
    <3> QED
      BY <3>1, <3>2 DEF Team, Salaries
  <2>2. Locks(db, past)
    BY <1>2, <1>5, AccessAssumption DEF Locks, NoRows
  <2>3. Ticks(db, past)
    <3>1. ASSUME NEW v \in Business
          PROVE  resolve_permissions(db, <<v, "EMPLOYEE">>) = STAFF_DEFAULTS
      <4>1. ~ HasRows(db, v)
        BY <1>5 DEF HasRows, NoRows
      <4> QED
        BY <4>1 DEF resolve_permissions, permissions_for_role, is_manager
    <3>2. \A v \in Business : past.saved[v] \cap STAFF_ASSIGNABLE = STAFF_DEFAULTS
      BY <1>2 DEF STAFF_DEFAULTS, STAFF_ASSIGNABLE
    <3> QED
      BY <3>1, <3>2 DEF Ticks
  <2>4. Tokens(db, past, Started)
    BY <1>2, <1>5 DEF Tokens, NoRows, NoReset
  <2>5. \A w \in Worker : ~ req[w].busy
    BY <1>2 DEF Idle
  <2> QED
    BY <1>4, <2>1, <2>2, <2>3, <2>4, <2>5 DEF AloneInv, Orderly
<1> QED
  BY <1>10, <1>11

-----------------------------------------------------------------------------
(* Theorems *)

\* Both invariants hold in every behaviour, for any number of workers,
\* businesses, employees and requests.
THEOREM TenancyInvHolds == Spec => [](Inv /\ AloneInv)
<1>1. Init => Inv /\ AloneInv
  BY InitInv
<1>2. Inv /\ AloneInv /\ [Next]_vars => (Inv /\ AloneInv)'
  <2> SUFFICES ASSUME Inv, AloneInv, [Next]_vars
               PROVE  Inv' /\ AloneInv'
    OBVIOUS
  <2>1. ASSUME NEW w \in Worker,
               ConsoleRequest(w) \/ SalesRequest(w) \/ AccessRequest(w) \/ AdminRequest(w)
        PROVE  Inv' /\ AloneInv'
    BY <2>1, RequestStep
  <2>2. ASSUME NEW w \in Worker, Commit(w)
        PROVE  Inv' /\ AloneInv'
    BY <2>2, CommitStep
  <2>3. ASSUME NEW l \in Login, NEW p \in Password \cup {"issued"}, OwnerLogin(l, p)
        PROVE  Inv' /\ AloneInv'
    BY <2>3, LoginStep
  <2>4. CASE Passes
    BY <2>4, PassesStep
  <2>5. CASE UNCHANGED vars
    BY <2>5, Stuttering
  <2>6. ASSUME NEW w \in Worker, ReadOutlets(w)
        PROVE  Inv' /\ AloneInv'
    BY <2>6, OutletsStep
  <2> QED
    BY <2>1, <2>2, <2>3, <2>4, <2>5, <2>6 DEF Next
<1> QED
  BY <1>1, <1>2, PTL DEF Spec

\* The rows are well typed and contacts stay distinct however requests overlap,
\* and as long as they do not, an outlet has the status of its business.
THEOREM TenancyTyped == Spec => []TypeOK
<1>1. Inv /\ AloneInv => TypeOK
  BY DEF Inv, AloneInv, TypeOK, Distinct
<1> QED
  BY <1>1, TenancyInvHolds, PTL

\* Nobody is signed in to a suspended venue once a token's life has passed.
THEOREM SuspensionEnds == Spec => []SuspensionRunsOut
<1>1. Inv => SuspensionRunsOut
  BY DEF Inv
<1> QED
  BY <1>1, TenancyInvHolds, PTL

\* A receptionist may do what was ticked last, and never what only an owner may.
THEOREM TicksDecideAll == Spec => []TicksDecide
<1>1. Inv /\ AloneInv => TicksDecide
  <2> SUFFICES ASSUME Inv, AloneInv, NEW b \in Business
               PROVE  LET can == resolve_permissions(db, <<b, "EMPLOYEE">>)
                      IN /\ can \subseteq STAFF_ASSIGNABLE
                         /\ ~ overlapped => can = past.saved[b] \cap STAFF_ASSIGNABLE
    BY DEF TicksDecide
  <2>1. resolve_permissions(db, <<b, "EMPLOYEE">>) \subseteq STAFF_ASSIGNABLE
    <3>1. Granted(db, b) \subseteq STAFF_ASSIGNABLE
      BY DEF Granted, Inv, OnlyAssignable
    <3>2. STAFF_DEFAULTS \subseteq STAFF_ASSIGNABLE
      BY DEF STAFF_DEFAULTS, STAFF_ASSIGNABLE
    <3> QED
      BY <3>1, <3>2 DEF resolve_permissions, permissions_for_role, is_manager
  <2>2. ~ overlapped =>
          resolve_permissions(db, <<b, "EMPLOYEE">>) = past.saved[b] \cap STAFF_ASSIGNABLE
    BY DEF AloneInv, Orderly, Ticks
  <2> QED
    BY <2>1, <2>2
<1> QED
  BY <1>1, TenancyInvHolds, PTL

\* One request at a time, a reset token sets one password.
THEOREM TokensSpentOnce == Spec => []TokenSetsOnePassword
<1>1. Inv /\ AloneInv => TokenSetsOnePassword
  <2> SUFFICES ASSUME Inv, AloneInv, ~ overlapped, NEW i \in Id
               PROVE  past.setBy[i] <= 1
    BY DEF TokenSetsOnePassword
  <2>1. past.setBy[i] = 0 \/ past.setBy[i] = 1
    BY DEF AloneInv, Orderly, Tokens
  <2> QED
    BY <2>1
<1> QED
  BY <1>1, TenancyInvHolds, PTL

\* One request at a time, owners are given the support contacts the console
\* employs, and money is booked on employees as salary only.
THEOREM TeamInOrder == Spec => []SalesTeamInOrder
<1>1. Inv /\ AloneInv => SalesTeamInOrder
  <2> SUFFICES ASSUME Inv, AloneInv, ~ overlapped
               PROVE  SalesTeamInOrder
    BY DEF SalesTeamInOrder
  <2>1. Team(db) /\ Salaries(db) /\ db \in Rows
    BY DEF AloneInv, Orderly, Inv
  <2> "nobody" \notin Rep
    BY DeskAssumption
  <2>2. ASSUME NEW b \in Business, db.helper[b] # "nobody"
        PROVE  Support(db, b) # "nobody" <=> db.rep[db.helper[b]] = "ACTIVE"
    <3>1. db.helper[b] \in Rep
      <4>1. db.helper \in [Business -> Rep \cup {"nobody"}]
        BY <2>1, RowsTyped
      <4> QED
        BY <2>2, <4>1
    <3> QED
      BY <2>1, <2>2, <3>1 DEF Team, Support
  <2>3. ASSUME NEW r \in Rep
        PROVE  summary(db, r, Category) = summary(db, r, {"SALES_TEAM_SALARY"})
    <3>1. db.spent \in [Id -> Entry]
      BY <2>1, RowsTyped
    <3>2. \A i \in Id : db.spent[i].live /\ db.spent[i].rep = r =>
                 db.spent[i].category = "SALES_TEAM_SALARY"
      BY <2>1 DEF Salaries
    <3>3. "SALES_TEAM_SALARY" \in Category
      BY DEF Category
    <3>4. {i \in DOMAIN db.spent : db.spent[i].live /\ db.spent[i].rep = r
                                     /\ db.spent[i].category \in Category}
          = {i \in DOMAIN db.spent : db.spent[i].live /\ db.spent[i].rep = r
                                     /\ db.spent[i].category \in {"SALES_TEAM_SALARY"}}
      BY <3>1, <3>2, <3>3
    <3> QED
      BY <3>4 DEF summary
  <2> QED
    BY <2>2, <2>3 DEF SalesTeamInOrder
<1> QED
  BY <1>1, TenancyInvHolds, PTL

\* A wrong password alone cannot fail: it writes nothing others may be in the
\* way of.
LEMMA WrongCommits ==
  ASSUME Inv, AloneInv, ~ overlapped, NEW w \in Worker, req[w].busy, req[w].what[1] = "wrong"
  PROVE  ~ Fails(w)
<1> DEFINE new == req[w].new
           d == Merged(db, db, new)
<1>1. /\ req[w].loaded = db /\ db \in Rows /\ new \in Rows
      /\ Elsewhere(db, new, {"failed", "lockedUntil"})
  <2>1. RequestOK(req[w])
    BY DEF Inv, Idle
  <2> QED
    BY <2>1 DEF AloneInv, Inv, RequestOK, LockWrite
<1> HIDE DEF new
<1>2. new.contact = db.contact /\ new.rep = db.rep /\ new.tick = db.tick /\ new.spent = db.spent
  BY <1>1 DEF Elsewhere, Columns
<1>3. d.contact = db.contact
  <2>1. d.contact = Written(db.contact, db.contact, new.contact)
    BY <1>1, MergedColumns
  <2> QED
    BY <1>1, <1>2, <2>1, RowsTyped DEF Written
<1>4. ~ BreaksUnique(db, db, new)
  <2>1. Distinct(db)
    BY DEF Inv
  <2> HIDE DEF d
  <2>2. Distinct(d)
    BY <1>3, <2>1 DEF Distinct, Contacts
  <2> QED
    BY <1>2, <2>2 DEF BreaksUnique, Distinct, d
<1>5. ~ MissesRow(db, db, new)
  BY <1>2 DEF MissesRow
<1> QED
  BY <1>1, <1>4, <1>5 DEF Fails, new

\* One request at a time, the login of an administrator is locked by the last
\* wrong password that is allowed, and by nothing else.
THEOREM LocksEarned == Spec => LocksAreEarned
<1> DEFINE Last(a) == past.guesses[a] = MaxAttempts - 1
           Guessed(a) == \E w \in Worker : req[w].busy /\ ~ req'[w].busy
                                          /\ req[w].what = <<"wrong", a>>
           Earned == ~ overlapped => \A a \in Admin :
             db'.lockedUntil[a] > db.lockedUntil[a] <=> Last(a) /\ Guessed(a)
<1>1. Inv /\ AloneInv /\ [Next]_vars => Earned
  <2> SUFFICES ASSUME Inv, AloneInv, [Next]_vars, ~ overlapped, NEW a \in Admin
               PROVE  db'.lockedUntil[a] > db.lockedUntil[a] <=> Last(a) /\ Guessed(a)
    OBVIOUS
  <2>1. db.lockedUntil \in [Admin -> Nat] /\ db.failed \in [Admin -> 0 .. MaxAttempts]
    BY RowsTyped, AccessAssumption, TenancyAssumption DEF Inv, Time
  <2>2. ASSUME db' = db, ~ Guessed(a)
        PROVE  db'.lockedUntil[a] > db.lockedUntil[a] <=> Last(a) /\ Guessed(a)
    BY <2>1, <2>2
  <2>3. ASSUME NEW w \in Worker, NEW kind, NEW new, NEW what, Prepare(w, kind, new, what)
        PROVE  db' = db /\ ~ Guessed(a)
    <3>1. db' = db /\ ~ req[w].busy
      BY <2>3 DEF Prepare
    <3>2. \A v \in Worker : v # w => req'[v] = req[v]
      BY <2>3 DEF Prepare, Inv
    <3> QED
      BY <3>1, <3>2
  <2>4. ASSUME NEW w \in Worker,
               ConsoleRequest(w) \/ SalesRequest(w) \/ AccessRequest(w) \/ AdminRequest(w)
        PROVE  db' = db /\ ~ Guessed(a)
    <3> HIDE DEF Guessed
    <3>1. CASE ConsoleRequest(w)
      BY <2>3, <3>1 DEF ConsoleRequest, Onboard, UpdateTenant, UpdateStatus, Collect
    <3>2. CASE SalesRequest(w)
      BY <2>3, <3>2 DEF SalesRequest, CreateEmployee, UpdateEmployee, Spend, Reassign, Unspend
    <3>3. CASE AccessRequest(w)
      BY <2>3, <3>3 DEF AccessRequest, ForgotPassword, ResetPassword, ChangePassword, SavePermissions
    <3>4. CASE AdminRequest(w)
      BY <2>3, <3>4 DEF AdminRequest, PlatformLogin
    <3> QED
      BY <2>4, <3>1, <3>2, <3>3, <3>4
  <2>5. ASSUME NEW w \in Worker, Commit(w)
        PROVE  db'.lockedUntil[a] > db.lockedUntil[a] <=> Last(a) /\ Guessed(a)
    <3> DEFINE new == req[w].new
               what == req[w].what
    <3>1. /\ req[w].busy /\ req[w].loaded = db /\ new \in Rows /\ db \in Rows
          /\ LockWrite(db, new, what)
          /\ past.guesses[a] = db.failed[a] /\ db.failed[a] < MaxAttempts
      <4>1. req[w].busy /\ RequestOK(req[w])
        BY <2>5 DEF Commit, Inv, Idle
      <4> QED
        BY <4>1 DEF AloneInv, Orderly, Locks, Inv, RequestOK
    <3>2. Guessed(a) <=> what = <<"wrong", a>>
      <4>1. ~ req'[w].busy /\ \A v \in Worker : v # w => req'[v] = req[v]
        BY <2>5 DEF Commit, Inv, Idle
      <4> QED
        BY <3>1, <4>1
    <3>3. CASE Fails(w)
      <4>1. db' = db
        BY <2>5, <3>3 DEF Commit
      <4>2. what # <<"wrong", a>>
        BY <3>1, <3>3, WrongCommits
      <4> QED
        BY <2>2, <3>2, <4>1, <4>2
    <3>4. CASE ~ Fails(w)
      <4>1. db' = Merged(db, db, new)
        BY <2>5, <3>1, <3>4 DEF Commit
      <4>2. db'.lockedUntil = new.lockedUntil
        BY <3>1, <4>1, CommittedAlone
      <4>3. new.lockedUntil \in [Admin -> Nat]
        BY <3>1, RowsTyped, AccessAssumption, TenancyAssumption DEF Time
      <4>4. new.lockedUntil[a] > db.lockedUntil[a]
              <=> what = <<"wrong", a>> /\ db.failed[a] + 1 >= MaxAttempts
        <5> HIDE DEF new, what
        <5> QED
          BY <2>1, <3>1, <4>3 DEF LockWrite
      <4>5. db.failed[a] + 1 >= MaxAttempts <=> Last(a)
        BY <2>1, <3>1, AccessAssumption
      <4> HIDE DEF Last, Guessed, new, what
      <4> QED
        BY <3>2, <4>2, <4>4, <4>5
    <3> QED
      BY <3>3, <3>4
  <2>6. ASSUME NEW l \in Login, NEW p \in Password \cup {"issued"}, OwnerLogin(l, p)
        PROVE  db' = db /\ ~ Guessed(a)
    BY <2>6 DEF OwnerLogin
  <2>7. CASE Passes \/ UNCHANGED vars
    <3>1. db' = db /\ req' = req
      BY <2>7 DEF Passes, vars
    <3> QED
      BY <2>2, <3>1
  <2>8. ASSUME NEW w \in Worker, ReadOutlets(w)
        PROVE  db' = db /\ ~ Guessed(a)
    <3>1. db' = db /\ req[w].busy /\ req'[w].busy
      BY <2>8 DEF ReadOutlets, HasReadVenue, Inv
    <3>2. \A v \in Worker : v # w => req'[v] = req[v]
      BY <2>8 DEF ReadOutlets, Inv
    <3> QED
      BY <3>1, <3>2
  <2> HIDE DEF Last, Guessed
  <2> QED
    BY <2>2, <2>4, <2>5, <2>6, <2>7, <2>8 DEF Next
<1>2. Inv /\ AloneInv /\ [Next]_vars =>
        [~ overlapped => \A a \in Admin :
           db'.lockedUntil[a] > db.lockedUntil[a]
             <=> /\ past.guesses[a] = MaxAttempts - 1
                 /\ \E w \in Worker : req[w].busy /\ ~ req'[w].busy /\ req[w].what = <<"wrong", a>>]_vars
  BY <1>1
<1> QED
  BY <1>2, TenancyInvHolds, PTL DEF Spec, LocksAreEarned

\* A venue that has paid has a payment paid last, and of those one entered last.
LEMMA LatestExists ==
  ASSUME NEW d \in Rows, IsFiniteSet(d.packs), NEW b, Packs(d, b) # {}
  PROVE  _latest_collection(d, b) \in Packs(d, b)
<1> DEFINE P == Packs(d, b)
           Paid == {p.paid : p \in P}
           Later(p, q) == q.paid < p.paid \/ (q.paid = p.paid /\ q.id <= p.id)
<1>1. IsFiniteSet(P) /\ \A p \in P : p.paid \in Int /\ p.id \in Int
  <2>1. P \subseteq d.packs /\ d.packs \subseteq Pack
    BY RowsTyped DEF Packs
  <2>2. ASSUME NEW p \in Pack
        PROVE  p.paid \in Int /\ p.id \in Int
    <3>1. p.paid \in Date /\ p.id \in Id
      BY DEF Pack
    <3>2. Date \subseteq Nat /\ MaxRequests \in Nat
      BY DeskAssumption, TenancyAssumption
    <3>3. p.paid \in Nat /\ p.id \in 1 .. MaxRequests
      BY <3>1, <3>2 DEF Id
    <3> QED
      BY <3>2, <3>3, SMT
  <2> HIDE DEF P
  <2> QED
    BY <2>1, <2>2, FS_Subset
<1> HIDE DEF P
<1>2. IsFiniteSet(Paid) /\ Paid # {} /\ Paid \subseteq Int
  <2>1. IsFiniteSet(Paid)
    <3> DEFINE f == [p \in P |-> p.paid]
    <3>1. Paid = {f[p] : p \in P}
      OBVIOUS
    <3> HIDE DEF f, Paid
    <3> QED
      BY <1>1, <3>1, ImageFinite
  <2> QED
    BY <1>1, <2>1 DEF P
<1>3. PICK x \in Paid : \A y \in Paid : y <= x
  BY <1>2, Extremes
<1> DEFINE last == {p \in P : p.paid = x}
           Ids == {p.id : p \in last}
<1>4. IsFiniteSet(Ids) /\ Ids # {} /\ Ids \subseteq Int
  <2>1. last \subseteq P /\ last # {}
    BY <1>3
  <2> HIDE DEF last
  <2>2. IsFiniteSet(last)
    BY <1>1, <2>1, FS_Subset
  <2>3. IsFiniteSet(Ids)
    <3> DEFINE f == [p \in last |-> p.id]
    <3>1. Ids = {f[p] : p \in last}
      OBVIOUS
    <3> HIDE DEF f, Ids
    <3> QED
      BY <2>2, <3>1, ImageFinite
  <2> QED
    BY <1>1, <2>1, <2>3
<1>5. PICK i \in Ids : \A j \in Ids : j <= i
  <2> HIDE DEF Ids
  <2> QED
    BY <1>4, Extremes
<1>6. PICK p \in last : p.id = i
  BY <1>5
<1>7. p \in P /\ \A q \in P : Later(p, q)
  <2>1. \A q \in P : q.paid <= p.paid
    BY <1>3, <1>6
  <2>2. \A q \in P : q.paid = p.paid => q.id <= p.id
    BY <1>5, <1>6
  <2> QED
    BY <1>1, <1>6, <2>1, <2>2
<1> DEFINE Latest(q) == q \in P /\ \A r \in P : Later(q, r)
<1>8. _latest_collection(d, b) = CHOOSE q \in P : \A r \in P : Later(q, r)
  BY DEF _latest_collection, P
<1> HIDE DEF Later
<1> QED
  BY <1>7, <1>8 DEF P

\* However requests overlap, a venue whose last payment leaves it due is called,
\* for a debt at least as old: the last payment is one of all those the list of
\* calls looks at.
THEOREM DueIsCalled == Spec => []ListedDueIsCalled
<1>1. Inv => ListedDueIsCalled
  <2> SUFFICES ASSUME Inv, NEW today \in Date, NEW row \in restaurant_collections(db),
                      row.next <= today + Window
               PROVE  \E call \in collection_calling(db, today) :
                        call.business = row.business /\ call.next <= row.next
    BY DEF ListedDueIsCalled
  <2>1. PICK b \in _load_onboarded_businesses(db) :
          Packs(db, b) # {} /\ row = [business |-> b, next |-> _latest_collection(db, b).next]
    BY DEF restaurant_collections
  <2> DEFINE p == _latest_collection(db, b)
             S == {q.next : q \in DuePacks(db, b, today)}
             call == [business |-> b, next |-> Min(S)]
  <2>2. p \in Packs(db, b) /\ row.business = b /\ row.next = p.next
    BY <2>1, LatestExists DEF Inv
  <2> HIDE DEF p
  <2>3. p \in DuePacks(db, b, today)
    BY <2>2 DEF DuePacks, _due_for_collection_calling
  <2>4. IsFiniteSet(S) /\ S # {} /\ S \subseteq Int
    <3>1. DuePacks(db, b, today) \subseteq db.packs /\ db.packs \subseteq Pack
      BY RowsTyped DEF DuePacks, Packs, Inv
    <3>2. IsFiniteSet(DuePacks(db, b, today))
      BY <3>1, FS_Subset DEF Inv
    <3> DEFINE D == DuePacks(db, b, today)
               f == [q \in D |-> q.next]
    <3>3. IsFiniteSet(S)
      <4>1. S = {f[q] : q \in D}
        OBVIOUS
      <4> HIDE DEF f, S, D
      <4>2. IsFiniteSet(D)
        BY <3>2 DEF D
      <4> QED
        BY <4>1, <4>2, ImageFinite
    <3>4. ASSUME NEW q \in Pack
          PROVE  q.next \in Int
      <4>1. q.next \in Date
        BY DEF Pack
      <4> QED
        <5>1. Date \subseteq Nat
          BY DeskAssumption
        <5>2. q.next \in Nat
          BY <4>1, <5>1
        <5> QED
          BY <5>2, SMT
    <3> QED
      BY <2>3, <3>1, <3>3, <3>4
  <2>5. Min(S) \in S /\ \A y \in S : Min(S) <= y
    <3> HIDE DEF S
    <3>1. \E x \in S : \A y \in S : x <= y
      BY <2>4, Extremes
    <3> QED
      BY <3>1 DEF Min
  <2>6. Min(S) <= p.next
    BY <2>3, <2>5
  <2>7. call \in collection_calling(db, today)
    BY <2>1, <2>3 DEF collection_calling
  <2>8. call.business = b /\ call.next = Min(S)
    OBVIOUS
  <2> HIDE DEF call, S
  <2> QED
    BY <2>2, <2>6, <2>7, <2>8
<1> QED
  BY <1>1, TenancyInvHolds, PTL
=============================================================================
