------------------------------- MODULE SalesDesk -------------------------------
(***************************************************************************)
(* What the platform console does (services/platform): onboarding of       *)
(* businesses, their status, the sales team, the subscription payments     *)
(* collected and the money spent. Operators on the rows d: the requests of *)
(* Tenancy compute from them what they write.                              *)
(*                                                                         *)
(* A business has the one outlet and the two logins create_tenant gives    *)
(* it. An owner's e-mail address and mobile number are checked alike and   *)
(* stand here as one contact; a sales employee is identified by the code   *)
(* and the number that must be unique. Money is left out.                  *)
(***************************************************************************)
EXTENDS Integers, FiniteSetsExt

CONSTANTS Business,  \* identities of businesses
          Rep,       \* codes of sales employees
          Contact,   \* contacts of logins
          Date,      \* the dates payments are entered with
          Window     \* CALLING_WINDOW_DAYS

ASSUME DeskAssumption ==
  /\ "nobody" \notin Rep /\ "none" \notin Contact
  /\ Date \subseteq Nat /\ Window \in Nat

TenantStatus == {"DRAFT", "ACTIVE", "SUSPENDED"}

Employment == {"ACTIVE", "BLOCKED", "SUSPENDED", "LEFT", "PART_TIME", "PROBATION", "ON_LEAVE"}

Category == {"SALES_TEAM_SALARY", "OTHER"}

Role == {"OWNER", "EMPLOYEE"}

Login == Business \X Role

NoEntry == [category |-> "OTHER", rep |-> "nobody", live |-> FALSE]

Onboarded(d) == {b \in Business : d.tenant[b] # "none"}

-----------------------------------------------------------------------------
(* onboarding_service.py *)

MayOnboard(d, contact, helper) ==
  /\ \A l \in Login : d.contact[l] # contact
  /\ helper # "nobody" => d.rep[helper] = "ACTIVE"

\* placeholder is the number drawn for the receptionist, unused when drawn.
create_tenant(d, b, contact, placeholder, status, helper) ==
  [d EXCEPT !.tenant[b] = status, !.outlet[b] = status, !.helper[b] = helper,
            !.contact[<<b, "OWNER">>] = contact,
            !.contact[<<b, "EMPLOYEE">>] = placeholder,
            !.password[<<b, "OWNER">>] = "issued", !.password[<<b, "EMPLOYEE">>] = "issued",
            !.mustChange[<<b, "OWNER">>] = TRUE, !.mustChange[<<b, "EMPLOYEE">>] = TRUE]

\* Whether the contact is another login's is left to the database.
update_tenant(d, b, contact, helper) ==
  [d EXCEPT !.contact[<<b, "OWNER">>] = contact,
            !.helper[b] = IF helper = "nobody" THEN @ ELSE helper]

update_tenant_status(d, b, status) ==
  [d EXCEPT !.tenant[b] = status, !.outlet[b] = status]

-----------------------------------------------------------------------------
(* sales_employee_service.py *)

_sync_active_flag(d, r) == [d EXCEPT !.active[r] = (d.rep[r] = "ACTIVE")]

Hired(d) == {r \in Rep : d.rep[r] # "none"}

create_employee(d, r, employment) == _sync_active_flag([d EXCEPT !.rep[r] = employment], r)

\* Mutant of update_employee: blocking an employee leaves the employment.
FlagOnly(d, r, employment, active) ==
  LET e == [d EXCEPT !.rep[r] = IF employment = "unset" THEN @ ELSE employment]
  IN IF active = "unset"
     THEN IF employment = "unset" THEN e ELSE _sync_active_flag(e, r)
     ELSE [e EXCEPT !.active[r] = (active = "yes"),
                    !.rep[r] = IF active = "yes" THEN "ACTIVE" ELSE @]

\* employment and active may be left unset. A flag that is set wins over the
\* employment status and changes it: BLOCKED stands for active no more.
update_employee(d, r, employment, active) ==
  LET e == [d EXCEPT !.rep[r] = IF employment = "unset" THEN @ ELSE employment]
      blocked == IF e.rep[r] = "ACTIVE" THEN "BLOCKED" ELSE e.rep[r]
  IN IF active = "unset"
     THEN IF employment = "unset" THEN e ELSE _sync_active_flag(e, r)
     ELSE [e EXCEPT !.active[r] = (active = "yes"),
                    !.rep[r] = IF active = "yes" THEN "ACTIVE" ELSE blocked]

\* The contact an owner's profile names for support.
Support(d, b) ==
  IF d.helper[b] # "nobody" /\ d.active[d.helper[b]] THEN d.helper[b] ELSE "nobody"

-----------------------------------------------------------------------------
(* expenditure_service.py *)

SalaryEligible(d, r) == d.rep[r] \in {"ACTIVE", "PART_TIME", "PROBATION"}

\* An entry names an employee exactly when it is a salary.
MaySpend(d, category, r) ==
  IF category = "SALES_TEAM_SALARY" THEN r # "nobody" /\ SalaryEligible(d, r) ELSE r = "nobody"

create_expenditure(d, i, category, r) ==
  [d EXCEPT !.spent[i] = [category |-> category, rep |-> r, live |-> TRUE]]

MayReassign(d, i, r) ==
  /\ d.spent[i].live
  /\ d.spent[i].category = "SALES_TEAM_SALARY"
  /\ SalaryEligible(d, r)

update_expenditure(d, i, r) == [d EXCEPT !.spent[i].rep = r]

delete_expenditure(d, i) == [d EXCEPT !.spent[i] = NoEntry]

\* What the summary counts for an employee, of some categories.
summary(d, r, categories) ==
  Cardinality({i \in DOMAIN d.spent :
                 d.spent[i].live /\ d.spent[i].rep = r /\ d.spent[i].category \in categories})

-----------------------------------------------------------------------------
(* collection_service.py *)

_load_onboarded_businesses(d) == {b \in Onboarded(d) : d.tenant[b] # "DRAFT"}

MayCollect(d, b, paid, next) == b \in _load_onboarded_businesses(d) /\ next >= paid

create_collection(d, i, b, paid, next) ==
  [d EXCEPT !.packs = @ \cup {[id |-> i, business |-> b, paid |-> paid, next |-> next]}]

Packs(d, b) == {p \in d.packs : p.business = b}

\* Mutant of _due_for_collection_calling: what is overdue is forgotten.
DueSoon(next, today) == next \in today .. today + Window

_due_for_collection_calling(next, today) == next <= today + Window

DuePacks(d, b, today) == {p \in Packs(d, b) : _due_for_collection_calling(p.next, today)}

\* One row per venue, with the date of its oldest debt.
collection_calling(d, today) ==
  {[business |-> b, next |-> Min({p.next : p \in DuePacks(d, b, today)})] :
     b \in {c \in _load_onboarded_businesses(d) : DuePacks(d, c, today) # {}}}

\* The pack paid last, and of those the one entered last.
_latest_collection(d, b) ==
  CHOOSE p \in Packs(d, b) :
    \A q \in Packs(d, b) : q.paid < p.paid \/ (q.paid = p.paid /\ q.id <= p.id)

restaurant_collections(d) ==
  {[business |-> b, next |-> _latest_collection(d, b).next] :
     b \in {c \in _load_onboarded_businesses(d) : Packs(d, c) # {}}}
=============================================================================
