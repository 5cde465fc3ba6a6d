-------------------------------- MODULE Tenancy --------------------------------
(***************************************************************************)
(* The platform console and the logins of the businesses it onboards,      *)
(* under concurrent requests. As in OutletBooks a request takes two steps: *)
(* Handle, its SELECTs, checks and changes in memory, and Commit, which    *)
(* writes the columns it changed over what the rows hold by then. A change *)
(* of status reads the business and its outlets with two SELECTs, and what *)
(* commits in between is in the second only: it takes a step more.         *)
(***************************************************************************)
EXTENDS StaffAccess

CONSTANTS Worker,        \* server tasks; each handles one request at a time
          NewEmployment, \* the employment statuses employees may be given
          MaxTime,       \* bound on the clock
          MaxConsole, MaxSales, MaxAccess, MaxAdmin, \* bounds on the requests, by kind
          MaxRequests,   \* bound on the requests of a behaviour, one at a time
          MaxOverlapped  \* bound on the requests of a behaviour that overlap

ASSUME TenancyAssumption ==
  /\ NewEmployment \subseteq Employment
  /\ MaxConsole \in Nat /\ MaxSales \in Nat /\ MaxAccess \in Nat /\ MaxAdmin \in Nat
  /\ MaxRequests \in Nat /\ MaxOverlapped \in 0 .. MaxRequests /\ MaxTime \in Nat

VARIABLES db,         \* the committed rows
          req,        \* what each worker is about to write
          made,       \* made[k]: how many requests of kind k were made
          overlapped, \* whether two requests were ever under way at once
          session,    \* session[l]: when the last access token of login l expires
          now,        \* the clock
          past        \* what committed requests did (history)

vars == <<db, req, made, overlapped, session, now, past>>

Kind == {"console", "sales", "access", "admin"}

Limit == [console |-> MaxConsole, sales |-> MaxSales, access |-> MaxAccess, admin |-> MaxAdmin]

Started == made.console + made.sales + made.access + made.admin

Id == 1 .. MaxRequests

Time == 0 .. MaxTime + LockoutTime + ResetLife + AccessLife

Entry == [category : Category, rep : Rep \cup {"nobody"}, live : BOOLEAN]

Pack == [id : Id, business : Business, paid : Date, next : Date]

Reset == [business : Business \cup {"none"}, role : Role, expires : Time, used : BOOLEAN]

Rows == [tenant : [Business -> TenantStatus \cup {"none"}],
         outlet : [Business -> TenantStatus \cup {"none"}],
         helper : [Business -> Rep \cup {"nobody"}],
         contact : [Login -> Contact \cup {"none"}],
         password : [Login -> Password \cup {"issued", "none"}],
         mustChange : [Login -> BOOLEAN],
         rep : [Rep -> Employment \cup {"none"}], active : [Rep -> BOOLEAN],
         spent : [Id -> Entry], packs : SUBSET Pack, reset : [Id -> Reset],
         tick : [Business \X Permission -> Tick],
         failed : [Admin -> 0 .. MaxAttempts], lockedUntil : [Admin -> Time]]

Contacts(d) == {l \in Login : d.contact[l] # "none"}

\* The rows are well typed, no two logins have the same contact, and as long as
\* requests run one at a time an outlet has the status of its business.
TypeOK ==
  /\ db \in Rows
  /\ \A k, l \in Contacts(db) : k # l => db.contact[k] # db.contact[l]
  /\ ~ overlapped => db.outlet = db.tenant
  /\ \A k \in Kind : made[k] \in 0 .. Limit[k]
  /\ session \in [Login -> Time]
  /\ now \in 0 .. MaxTime

NoRows == [tenant |-> [b \in Business |-> "none"], outlet |-> [b \in Business |-> "none"],
           helper |-> [b \in Business |-> "nobody"],
           contact |-> [l \in Login |-> "none"], password |-> [l \in Login |-> "none"],
           mustChange |-> [l \in Login |-> FALSE],
           rep |-> [r \in Rep |-> "none"], active |-> [r \in Rep |-> FALSE],
           spent |-> [i \in Id |-> NoEntry], packs |-> {}, reset |-> [i \in Id |-> NoReset],
           tick |-> [k \in Business \X Permission |-> "none"],
           failed |-> [a \in Admin |-> 0], lockedUntil |-> [a \in Admin |-> 0]]

Idle == [busy |-> FALSE]

\* One business was onboarded, with two logins and without a support contact.
Init ==
  /\ \E b \in Business, c, placeholder \in Contact :
       /\ c # placeholder
       /\ db = create_tenant(NoRows, b, c, placeholder, "ACTIVE", "nobody")
  /\ req = [w \in Worker |-> Idle]
  /\ made = [k \in Kind |-> 0]
  /\ overlapped = FALSE
  /\ session = [l \in Login |-> 0]
  /\ now = 0
  /\ past = [guesses |-> [a \in Admin |-> 0], setBy |-> [i \in Id |-> 0],
             saved |-> [b \in Business |-> STAFF_DEFAULTS], suspendedAt |-> [b \in Business |-> 0]]

-----------------------------------------------------------------------------
(* Requests *)

\* Worker w is about to write new, from the rows it sees now; what[1] names
\* the request where the history tells it apart.
Prepare(w, kind, new, what) ==
  /\ ~ req[w].busy
  /\ overlapped' = (overlapped \/ \E v \in Worker : req[v].busy)
  /\ Started < IF overlapped' THEN MaxOverlapped ELSE MaxRequests
  /\ made[kind] < Limit[kind]
  /\ req' = [req EXCEPT ![w] = [busy |-> TRUE, loaded |-> db, new |-> new, what |-> what]]
  /\ made' = [made EXCEPT ![kind] = @ + 1]
  /\ UNCHANGED <<db, session, now, past>>

Other == <<"other">>

\* The identity of the row a request inserts, and of a business it adds.
NextId == Started + 1

Free == {b \in Business \ Onboarded(db) :
           \A w \in Worker : req[w].busy => req[w].new.tenant[b] = "none"}

Unused == {c \in Contact : \A l \in Login : db.contact[l] # c}

Onboard(w, contact, status, helper) ==
  /\ MayOnboard(db, contact, helper)
  /\ \E b \in Free, placeholder \in Unused :
       Prepare(w, "console", create_tenant(db, b, contact, placeholder, status, helper), Other)

UpdateTenant(w, b, contact, helper) ==
  /\ b \in Onboarded(db)
  /\ helper = "nobody" \/ helper \in Hired(db)
  /\ Prepare(w, "console", update_tenant(db, b, contact, helper), Other)

\* update_tenant_status up to the SELECT of the business.
UpdateStatus(w, b, status) ==
  /\ b \in Onboarded(db)
  /\ Prepare(w, "console", db, <<"venue", b, status>>)

HasReadVenue(w) == req[w].busy /\ req[w].what[1] = "venue"

\* Its outlets follow, and the change of both.
ReadOutlets(w) ==
  LET b == req[w].what[2]
      status == req[w].what[3]
      seen == [db EXCEPT !.tenant[b] = req[w].loaded.tenant[b]]
  IN /\ HasReadVenue(w)
     /\ req' = [req EXCEPT ![w] =
                  [busy |-> TRUE, loaded |-> seen, new |-> update_tenant_status(seen, b, status),
                   what |-> <<"status", b, status>>]]
     /\ UNCHANGED <<db, made, overlapped, session, now, past>>

Collect(w, b, paid, next) ==
  /\ MayCollect(db, b, paid, next)
  /\ Prepare(w, "console", create_collection(db, NextId, b, paid, next), Other)

CreateEmployee(w, r, employment) ==
  /\ r \notin Hired(db)
  /\ Prepare(w, "sales", create_employee(db, r, employment), Other)

UpdateEmployee(w, r, employment, active) ==
  /\ r \in Hired(db)
  /\ Prepare(w, "sales", update_employee(db, r, employment, active), Other)

Spend(w, category, r) ==
  /\ MaySpend(db, category, r)
  /\ Prepare(w, "sales", create_expenditure(db, NextId, category, r), Other)

Reassign(w, i, r) ==
  /\ MayReassign(db, i, r)
  /\ Prepare(w, "sales", update_expenditure(db, i, r), Other)

Unspend(w, i) ==
  /\ db.spent[i].live
  /\ Prepare(w, "sales", delete_expenditure(db, i), Other)

\* get_current_owner: the token is not expired. The status of the business is
\* not looked at.
SignedIn(l) == session[l] > now

\* A login writes nothing: it only issues the token, in the instant it looks at
\* the status.
OwnerLogin(l, password) ==
  /\ MayLogin(db, l, password)
  /\ Started < MaxRequests /\ made.access < Limit.access
  /\ made' = [made EXCEPT !.access = @ + 1]
  /\ session' = [session EXCEPT ![l] = now + AccessLife]
  /\ UNCHANGED <<db, req, overlapped, now, past>>

ForgotPassword(w, l) ==
  /\ l \in Contacts(db)
  /\ Prepare(w, "access", request_password_reset(db, NextId, l, now), Other)

ResetPassword(w, i, password) ==
  /\ MayReset(db, i, now)
  /\ Prepare(w, "access", reset_password(db, i, password), <<"reset", i>>)

ChangePassword(w, l, current, password) ==
  /\ SignedIn(l)
  /\ verify_password(db, l, current)
  /\ Prepare(w, "access", NewPassword(db, l, password), Other)

\* An owner ticks permissions of the receptionist; the payload may hold any code.
SavePermissions(w, b, l, grants) ==
  /\ SignedIn(l) /\ l[1] = b
  /\ is_manager(l[2])
  /\ Prepare(w, "access", _replace_grants(db, b, grants), <<"save", b, grants>>)

PlatformLogin(w, a, right) ==
  /\ _assert_not_locked(db, a, now)
  /\ IF right THEN Prepare(w, "admin", RightPassword(db, a), <<"right", a>>)
     ELSE Prepare(w, "admin", WrongPassword(db, a, now), <<"wrong", a>>)

-----------------------------------------------------------------------------
(* Commits *)

Written(cur, old, new) ==
  [k \in DOMAIN cur |-> IF new[k] # old[k] THEN new[k] ELSE cur[k]]

Merged(cur, old, new) ==
  [f \in DOMAIN cur |-> IF f = "packs" THEN cur[f] \cup (new[f] \ old[f])
                        ELSE Written(cur[f], old[f], new[f])]

\* Mutant of BreaksUnique: a database without its unique constraints.
NeverBreaks(cur, old, new) == FALSE

\* Unique contacts, codes of employees, and permissions of a login.
BreaksUnique(cur, old, new) ==
  \/ LET d == Merged(cur, old, new)
     IN \E k, l \in Contacts(d) : k # l /\ d.contact[k] = d.contact[l]
  \/ \E r \in Rep : old.rep[r] = "none" /\ new.rep[r] # "none" /\ cur.rep[r] # "none"
  \/ \E k \in Business \X Permission :
       old.tick[k] = "none" /\ new.tick[k] # "none" /\ cur.tick[k] # "none"

\* An update of an entry that was deleted meanwhile.
MissesRow(cur, old, new) ==
  \E i \in Id : new.spent[i].live /\ new.spent[i] # old.spent[i]
                  /\ old.spent[i].live /\ ~ cur.spent[i].live

Fails(w) ==
  \/ BreaksUnique(db, req[w].loaded, req[w].new)
  \/ MissesRow(db, req[w].loaded, req[w].new)

\* The history after a request has committed the rows d.
Remembered(what, d) ==
  LET a == what[2]
  IN CASE what[1] = "wrong" ->
            [past EXCEPT !.guesses[a] = IF d.lockedUntil[a] > db.lockedUntil[a] THEN 0 ELSE @ + 1]
       [] what[1] = "right" -> [past EXCEPT !.guesses[a] = 0]
       [] what[1] = "reset" -> [past EXCEPT !.setBy[a] = @ + 1]
       [] what[1] = "save" -> [past EXCEPT !.saved[a] = what[3]]
       [] what[1] = "status" ->
            [past EXCEPT !.suspendedAt[a] =
               IF what[3] = "SUSPENDED" /\ db.tenant[a] # "SUSPENDED" THEN now ELSE @]
       [] OTHER -> past

Commit(w) ==
  /\ req[w].busy /\ ~ HasReadVenue(w)
  /\ IF Fails(w) THEN UNCHANGED <<db, past>>
     ELSE /\ db' = Merged(db, req[w].loaded, req[w].new)
          /\ past' = Remembered(req[w].what, db')
  /\ req' = [req EXCEPT ![w] = Idle]
  /\ UNCHANGED <<made, overlapped, session, now>>

Passes ==
  /\ now < MaxTime
  /\ now' = now + 1
  /\ UNCHANGED <<db, req, made, overlapped, session, past>>

-----------------------------------------------------------------------------
Helper == Rep \cup {"nobody"}

ConsoleRequest(w) ==
  \/ \E c \in Contact, s \in {"DRAFT", "ACTIVE"}, h \in Helper : Onboard(w, c, s, h)
  \/ \E b \in Business, c \in Contact, h \in Helper : UpdateTenant(w, b, c, h)
  \/ \E b \in Business, s \in TenantStatus : UpdateStatus(w, b, s)
  \/ \E b \in Business, paid, next \in Date : Collect(w, b, paid, next)

SalesRequest(w) ==
  \/ \E r \in Rep, e \in NewEmployment : CreateEmployee(w, r, e)
  \/ \E r \in Rep, e \in NewEmployment \cup {"unset"}, f \in {"unset", "yes", "no"} :
       UpdateEmployee(w, r, e, f)
  \/ \E c \in Category, r \in Helper : Spend(w, c, r)
  \/ \E i \in Id, r \in Rep : Reassign(w, i, r)
  \/ \E i \in Id : Unspend(w, i)

AccessRequest(w) ==
  \/ \E l \in Login : ForgotPassword(w, l)
  \/ \E i \in Id, p \in Password : ResetPassword(w, i, p)
  \/ \E l \in Login, c \in Password \cup {"issued"}, p \in Password : ChangePassword(w, l, c, p)
  \/ \E b \in Business, l \in Login, g \in SUBSET Permission : SavePermissions(w, b, l, g)

AdminRequest(w) == \E a \in Admin, right \in BOOLEAN : PlatformLogin(w, a, right)

Next ==
  \/ \E w \in Worker : ConsoleRequest(w) \/ SalesRequest(w) \/ AccessRequest(w)
                         \/ AdminRequest(w) \/ ReadOutlets(w) \/ Commit(w)
  \/ \E l \in Login, p \in Password \cup {"issued"} : OwnerLogin(l, p)
  \/ Passes

Spec == Init /\ [][Next]_vars

-----------------------------------------------------------------------------
(* Properties *)

\* As long as requests run one at a time, what the console shows of the sales
\* team agrees: an owner is given a support contact exactly when the employee
\* assigned is in active employment, and all money booked on an employee is
\* salary, whatever updates, blocks and reassignments came before.
SalesTeamInOrder ==
  ~ overlapped =>
    /\ \A b \in Business : db.helper[b] # "nobody" =>
         (Support(db, b) # "nobody" <=> db.rep[db.helper[b]] = "ACTIVE")
    /\ \A r \in Rep : summary(db, r, Category) = summary(db, r, {"SALES_TEAM_SALARY"})

\* However requests overlap, and on every date: a venue whose payment the
\* console lists as due is on the list of venues to call, for a debt at least
\* as old. The one list looks at the last payment, the other at all of them.
ListedDueIsCalled ==
  \A today \in Date : \A row \in restaurant_collections(db) :
    row.next <= today + Window =>
      \E call \in collection_calling(db, today) :
        call.business = row.business /\ call.next <= row.next

\* However requests overlap, nobody is signed in to a suspended venue when the
\* life of a token has passed since it was suspended: suspension stops no token
\* that was issued, but no login after it issues another.
SuspensionRunsOut ==
  \A l \in Login : db.tenant[l[1]] = "SUSPENDED" =>
    session[l] <= past.suspendedAt[l[1]] + AccessLife

\* One at a time, a platform login is locked by the MaxAttempts-th wrong
\* password since its last lock or login, and by nothing else.
LocksAreEarned ==
  [][~ overlapped => \A a \in Admin :
       db'.lockedUntil[a] > db.lockedUntil[a]
         <=> /\ past.guesses[a] = MaxAttempts - 1
             /\ \E w \in Worker : req[w].busy /\ ~ req'[w].busy /\ req[w].what = <<"wrong", a>>]_vars

\* One at a time, a reset token changes one password, once.
TokenSetsOnePassword == ~ overlapped => \A i \in Id : past.setBy[i] <= 1

\* A receptionist can do at the outlet what was ticked last, and before the
\* first save what staff start with. However saves overlap and whatever codes
\* they hold, never anything only an owner may do.
TicksDecide ==
  \A b \in Business :
    LET can == resolve_permissions(db, <<b, "EMPLOYEE">>)
    IN /\ can \subseteq STAFF_ASSIGNABLE
       /\ ~ overlapped =>
            can = past.saved[b] \cap STAFF_ASSIGNABLE
=============================================================================
