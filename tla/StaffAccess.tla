------------------------------ MODULE StaffAccess ------------------------------
(***************************************************************************)
(* Who may do what (services/owner/auth_service.py, permissions.py,        *)
(* staff_permission_service.py, services/platform/auth_service.py):        *)
(* passwords and reset tokens, the lock of the platform login, and the     *)
(* permissions of staff. Operators on the rows d, as in SalesDesk.         *)
(*                                                                         *)
(* Of the catalogue of 23 permissions, the model keeps one of each sort:   *)
(* staff may have it and start with it, staff may have it, owner only.     *)
(***************************************************************************)
EXTENDS SalesDesk

CONSTANTS Password,     \* passwords people choose
          Admin,        \* platform administrators
          MaxAttempts,  \* platform_max_password_attempts
          LockoutTime,  \* platform_lockout_minutes
          ResetLife,    \* how long a reset token is valid
          AccessLife    \* owner_access_token_expire_minutes

ASSUME AccessAssumption ==
  /\ "issued" \notin Password /\ "none" \notin Password
  /\ MaxAttempts \in Nat \ {0}
  /\ LockoutTime \in Nat \ {0} /\ ResetLife \in Nat \ {0} /\ AccessLife \in Nat \ {0}

Permission == {"pos.billing", "pos.refund", "settings.all"}

STAFF_ASSIGNABLE == {"pos.billing", "pos.refund"}

STAFF_DEFAULTS == {"pos.billing"}

is_manager(role) == role = "OWNER"

-----------------------------------------------------------------------------
(* Permissions *)

Tick == {"none", "granted", "denied"}

HasRows(d, b) == \E p \in Permission : d.tick[<<b, p>>] # "none"

Granted(d, b) == {p \in Permission : d.tick[<<b, p>>] = "granted"}

permissions_for_role(role) == IF is_manager(role) THEN Permission ELSE STAFF_DEFAULTS

\* A login's permissions with its outlet in the path of the request.
resolve_permissions(d, l) ==
  IF is_manager(l[2]) \/ ~ HasRows(d, l[1]) THEN permissions_for_role(l[2])
  ELSE Granted(d, l[1])

\* Mutant of _replace_grants: rows for the codes asked for, others are kept.
AddGrants(d, b, grants) ==
  [d EXCEPT !.tick = [k \in DOMAIN @ |->
     IF k[1] = b /\ k[2] \in grants THEN "granted" ELSE @[k]]]

\* A row for every permission staff may have; rows of other codes go.
_replace_grants(d, b, grants) ==
  [d EXCEPT !.tick = [k \in DOMAIN @ |->
     IF k[1] # b THEN @[k]
     ELSE IF k[2] \notin STAFF_ASSIGNABLE THEN "none"
     ELSE IF k[2] \in grants THEN "granted" ELSE "denied"]]

-----------------------------------------------------------------------------
(* Passwords of owners and staff *)

verify_password(d, l, password) == d.password[l] = password

NewPassword(d, l, password) ==
  [d EXCEPT !.password[l] = password, !.mustChange[l] = FALSE]

NoReset == [business |-> "none", role |-> "OWNER", expires |-> 0, used |-> FALSE]

request_password_reset(d, i, l, now) ==
  [d EXCEPT !.reset[i] = [business |-> l[1], role |-> l[2], expires |-> now + ResetLife,
                          used |-> FALSE]]

MayReset(d, i, now) ==
  d.reset[i].business # "none" /\ ~ d.reset[i].used /\ d.reset[i].expires >= now

\* Mutant of reset_password: the token stays good.
SetAgain(d, i, password) ==
  NewPassword(d, <<d.reset[i].business, d.reset[i].role>>, password)

reset_password(d, i, password) ==
  [NewPassword(d, <<d.reset[i].business, d.reset[i].role>>, password)
     EXCEPT !.reset[i].used = TRUE]

\* Mutant of MayLogin: a suspended venue is only kept from its services.
WhateverStatus(d, l, password) ==
  /\ d.tenant[l[1]] # "none"
  /\ verify_password(d, l, password)

\* Suspended venues are refused; drafts may log in.
MayLogin(d, l, password) ==
  /\ d.tenant[l[1]] \notin {"none", "SUSPENDED"}
  /\ verify_password(d, l, password)

-----------------------------------------------------------------------------
(* The lock of the platform login *)

_assert_not_locked(d, a, now) == d.lockedUntil[a] <= now

\* Mutant of WrongPassword: a lock does not start the count anew.
KeepCount(d, a, now) ==
  [d EXCEPT !.failed[a] = @ + 1,
            !.lockedUntil[a] = IF d.failed[a] + 1 >= MaxAttempts THEN now + LockoutTime ELSE @]

WrongPassword(d, a, now) ==
  IF d.failed[a] + 1 >= MaxAttempts
  THEN [d EXCEPT !.failed[a] = 0, !.lockedUntil[a] = now + LockoutTime]
  ELSE [d EXCEPT !.failed[a] = @ + 1]

RightPassword(d, a) == [d EXCEPT !.failed[a] = 0, !.lockedUntil[a] = 0]
=============================================================================
