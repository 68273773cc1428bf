------------------------------ MODULE Accounts ------------------------------
(***************************************************************************)
(* Internal accounts and the merchant records that point at them           *)
(* (apps/accounts, apps/finance/user_views.py, apps/merchant_panel's       *)
(* session and scoping).                                                   *)
(*                                                                         *)
(* The desk's views load the account, and the operation decides on what    *)
(* was loaded: no row is locked, and no request is a transaction, so two   *)
(* administrators, or an administrator and the account's owner, interleave *)
(* between the load and the write.  Operations write the columns they      *)
(* name, and every save mirrors the role of the instance it was called on  *)
(* into the groups, which are rows of their own.  A password change writes *)
(* the whole row it loaded, mirrors its role, and clears the flag of a     *)
(* one-time password, in statements of their own; a login saves and        *)
(* mirrors as well.                                                        *)
(***************************************************************************)
EXTENDS Naturals

CONSTANTS
  Staff,      \* internal accounts, existing or not
  Founders,   \* [existing accounts -> role]
  Merchants,
  Subjects,   \* B2CORE subjects, each with a browser of its own
  Overrides,  \* what the permission form is posted with
  MaxOps,     \* bound: how many requests that may write are made; a login is
              \* not counted, and none begins after the last of them
  None

Roles == {"finance_admin", "finance_staff", "merchant"}

IDENTITY_AWARE_ROLES == {"finance_admin", "finance_staff"}

Permissions == {"manage_internal_users", "manage_permissions",
                "reset_user_two_factor", "manage_merchants",
                "view_client_identity"}

MERCHANT_FORBIDDEN == {"manage_internal_users", "manage_permissions",
                       "view_client_identity"}

Form == [granted: SUBSET Permissions, denied: SUBSET Permissions]

ASSUME AccountsAssumption ==
  /\ DOMAIN Founders \subseteq Staff
  /\ Founders \in [DOMAIN Founders -> IDENTITY_AWARE_ROLES]
  /\ Overrides \subseteq Form
  /\ MaxOps \in Nat
  /\ None \notin Staff \cup Merchants \cup Subjects \cup Roles \cup Form

VARIABLES
  user,      \* User rows
  groups,    \* the role groups an account is in
  merchant,  \* Merchant rows
  web,       \* the account's own browser: its login session
  door,      \* the subject's browser: its merchant embed session
  post,      \* the request the account has under way at the desk
  ops,       \* writing requests made so far
  chose,     \* the last password of the account its owner chose, 0 for none
  crossed,   \* the password was handed out while a change of the owner's own
             \* was between its statements
  given      \* the permissions anybody else ever gave the account

history == <<chose, crossed, given>>

accounts == <<user, groups, merchant, web, door, post, ops, history>>

\* password and device number the account's passwords and devices as they
\* come; enrolled is whether the last device still exists.
User == [role: Roles, is_active: BOOLEAN, granted: SUBSET Permissions,
         denied: SUBSET Permissions, password: Nat,
         must_change_password: BOOLEAN, device: Nat, enrolled: BOOLEAN]

ASSUME NoneAssumption == None \notin User

\* A merchant record; is_active also stands for not archived.
Merchant == [user: Staff \cup {None}, b2core_id: Subjects \cup {None},
             is_active: BOOLEAN]

Login == [password: Nat, device: Nat]

Embed == [merchant: Merchants, user: Staff]

\* The columns of the loaded instance that are decided on or written back,
\* and its device.
Copy == [role: Roles, is_active: BOOLEAN, must_change_password: BOOLEAN,
         password: Nat, device: Nat]

Operations == {"create", "attach", "update", "enable", "disable", "password",
               "device", "overrides", "link", "change", "clear", "login"}

\* sync is the next statement of the mirror, and stale what it has read.
Post == [op: Operations, of: Staff, copy: Copy \cup {None},
         role: Roles \cup {None}, form: Overrides \cup {None},
         merchant: Merchants \cup {None},
         sync: {"no", "read", "drop", "join"}, stale: SUBSET Roles]

Idle == [op |-> "idle", of |-> None, copy |-> None, role |-> None,
         form |-> None, merchant |-> None, sync |-> "no", stale |-> {}]

Exists(a) == user[a] # None

\* Row types, and both keys of a merchant record unique.
AccountsTypeOK ==
  /\ user \in [Staff -> User \cup {None}]
  /\ groups \in [Staff -> SUBSET Roles]
  /\ merchant \in [Merchants -> Merchant]
  /\ web \in [Staff -> Login \cup {None}]
  /\ door \in [Subjects -> Embed \cup {None}]
  /\ post \in [Staff -> Post \cup {Idle}]
  /\ ops \in 0..MaxOps
  /\ chose \in [Staff -> Nat]
  /\ crossed \in [Staff -> BOOLEAN]
  /\ given \in [Staff -> SUBSET Permissions]
  /\ \A m, n \in Merchants : merchant[m].user = merchant[n].user
       => m = n \/ merchant[m].user = None
  /\ \A m, n \in Merchants : merchant[m].b2core_id = merchant[n].b2core_id
       => m = n \/ merchant[m].b2core_id = None

-----------------------------------------------------------------------------
\* Permissions.

expected_permissions(role) ==
  CASE role = "finance_admin" -> Permissions
    [] role = "finance_staff" -> {"view_client_identity"}
    [] role = "merchant" -> {}

OfGroups(g) == UNION {expected_permissions(r) : r \in g}

\* fault: the column is asked and not the groups
OfRole(a) == (expected_permissions(user[a].role) \cup user[a].granted) \ user[a].denied

\* ThrottledModelBackend.get_all_permissions: the groups' and the account's
\* own grants, less what it is refused.
get_all_permissions(a) ==
  (OfGroups(groups[a]) \cup user[a].granted) \ user[a].denied

has_perm(a, p) == p \in get_all_permissions(a)

assert_merchant_anonymity(a) ==
  user[a].role = "merchant" => \A p \in MERCHANT_FORBIDDEN : ~ has_perm(a, p)

-----------------------------------------------------------------------------
\* What a login session is let do.

\* Django's own check on every request: the account is active and its password
\* is still the one the session was opened with.
signed_in(a) ==
  /\ Exists(a) /\ web[a] # None
  /\ user[a].is_active
  /\ web[a].password = user[a].password

\* EnforceTwoFactorMiddleware: the device the session was verified with is
\* still the account's.
verified(a) == user[a].enrolled /\ web[a].device = user[a].device

\* ForcePasswordChangeMiddleware.
free(a) == ~ user[a].must_change_password

Works(a) == signed_in(a) /\ verified(a) /\ free(a)

\* RequirePermissionMixin and FinancePanelMixin.
AtDesk(a, p) ==
  Works(a) /\ has_perm(a, p) /\ user[a].role \in IDENTITY_AWARE_ROLES

LinkedTo(a) == {m \in Merchants : merchant[m].user = a}

\* session.resolve_merchant: the record the subject names, if it is in use
\* and points at a working merchant account.
resolve_merchant(s) ==
  {m \in Merchants : /\ merchant[m].b2core_id = s
                     /\ merchant[m].is_active
                     /\ merchant[m].user # None
                     /\ user[merchant[m].user].is_active
                     /\ user[merchant[m].user].role = "merchant"}

\* fault: the session is trusted to be about whatever its subject names now
AsResolved(s) == IF door[s] = None THEN {} ELSE resolve_merchant(s)

\* session.get_merchant: what the session was opened for must still be what
\* its subject names.
get_merchant(s) ==
  IF door[s] = None THEN {}
  ELSE {m \in resolve_merchant(s) :
          m = door[s].merchant /\ merchant[m].user = door[s].user}

\* scoping.require_merchant.
require_merchant(a) ==
  IF user[a].role = "merchant" /\ assert_merchant_anonymity(a)
  THEN {m \in LinkedTo(a) : merchant[m].is_active}
  ELSE {}

\* The merchant whose panel a browser is shown: through the embed door as the
\* record's account, and otherwise as the account that logged in.
PanelAtDoor(s) == UNION {require_merchant(merchant[m].user) : m \in get_merchant(s)}

PanelOnLogin(a) == IF Works(a) THEN require_merchant(a) ELSE {}
-----------------------------------------------------------------------------
\* Founders signed in, one record named by a subject, nobody linked.
Init ==
  /\ user = [a \in Staff |->
       IF a \in DOMAIN Founders
       THEN [role |-> Founders[a], is_active |-> TRUE, granted |-> {},
             denied |-> {}, password |-> 1, must_change_password |-> FALSE,
             device |-> 1, enrolled |-> TRUE]
       ELSE None]
  /\ groups = [a \in Staff |-> IF Exists(a) THEN {user[a].role} ELSE {}]
  /\ merchant \in [Merchants -> {[user |-> None, b2core_id |-> s, is_active |-> TRUE] :
                                   s \in Subjects \cup {None}}]
  /\ \A s \in Subjects : \E m \in Merchants : \A n \in Merchants :
       merchant[n].b2core_id = s <=> n = m
  /\ web = [a \in Staff |-> IF Exists(a) THEN [password |-> 1, device |-> 1] ELSE None]
  /\ door = [s \in Subjects |-> None]
  /\ post = [a \in Staff |-> Idle]
  /\ ops = 0
  /\ chose = [a \in Staff |-> IF Exists(a) THEN 1 ELSE 0]
  /\ crossed = [a \in Staff |-> FALSE]
  /\ given = [a \in Staff |-> OfGroups(groups[a])]

\* Account a makes a request that may write.
Count == ops < MaxOps /\ ops' = ops + 1

Begin(a, p) ==
  /\ post[a] = Idle
  /\ Count
  /\ post' = [post EXCEPT ![a] = p]
  /\ UNCHANGED <<user, groups, merchant, web, door, history>>

CopyOf(t) == [role |-> user[t].role, is_active |-> user[t].is_active,
              must_change_password |-> user[t].must_change_password,
              password |-> user[t].password,
              device |-> IF user[t].enrolled THEN user[t].device ELSE 0]

Of(op, t) == [Idle EXCEPT !.op = op, !.of = t, !.copy = CopyOf(t)]

\* A view of the user screens has checked the caller and loaded account t:
\* UserUpdateView, UserActionView and UserPermissionsView.
Load(a, t) ==
  /\ Exists(t)
  /\ \/ /\ AtDesk(a, "manage_internal_users")
        /\ \/ \E r \in Roles : Begin(a, [Of("update", t) EXCEPT !.role = r])
           \/ \E op \in {"enable", "disable", "password"} : Begin(a, Of(op, t))
           \/ /\ has_perm(a, "reset_user_two_factor")
              /\ Begin(a, Of("device", t))
           \/ \E m \in Merchants \cup {None} :
                Begin(a, [Of("link", t) EXCEPT !.merchant = m])
     \/ /\ AtDesk(a, "manage_permissions")
        /\ \E f \in Overrides : Begin(a, [Of("overrides", t) EXCEPT !.form = f])

\* UserCreateView with a valid form: a merchant record is offered only while
\* it is linked to nobody, and only to a merchant account.
Create(a, t) ==
  /\ ~ Exists(t)
  /\ AtDesk(a, "manage_internal_users")
  /\ \E r \in Roles, m \in {n \in Merchants : merchant[n].user = None} \cup {None} :
       /\ m = None \/ r = "merchant"
       /\ Begin(a, [Idle EXCEPT !.op = "create", !.of = t, !.role = r, !.merchant = m])

\* InternalPasswordChangeView with a valid form; the instance it will save is
\* the one the request was authenticated with.
OpenChange(a) ==
  /\ signed_in(a) /\ verified(a)
  /\ Begin(a, Of("change", a))

-----------------------------------------------------------------------------
\* The operations of provisioning.py.  Each ends its request, whether it
\* writes or raises ProvisioningError, and is one transaction: the mirror of a
\* save commits with it.
Finish(a) == post' = [post EXCEPT ![a] = Idle]

Doing(a, op) == post[a].op = op

\* sync_user_role_group, after a save of account t from an instance with this
\* role.
mirror(t, role) == groups' = [groups EXCEPT ![t] = {role}]

Give(t, permissions) == given' = [given EXCEPT ![t] = @ \cup permissions]

\* fault: nobody is refused anything on their own account
AnyTarget(a, t) == TRUE

guard_not_self(a, t) == a # t

create_account(a) ==
  LET j == post[a]
  IN /\ Doing(a, "create")
     /\ \/ Exists(j.of) /\ Finish(a) /\ UNCHANGED <<user, groups, given>>
        \/ /\ ~ Exists(j.of)
           /\ user' = [user EXCEPT ![j.of] =
                [role |-> j.role, is_active |-> TRUE, granted |-> {}, denied |-> {},
                 password |-> 1, must_change_password |-> TRUE,
                 device |-> 0, enrolled |-> FALSE]]
           /\ mirror(j.of, j.role)
           /\ Give(j.of, expected_permissions(j.role))
           /\ post' = [post EXCEPT ![a] =
                IF j.merchant = None THEN Idle
                ELSE [j EXCEPT !.op = "attach",
                      !.copy = [role |-> j.role, is_active |-> TRUE,
                                must_change_password |-> TRUE, password |-> 1,
                                device |-> 0]]]
     /\ UNCHANGED <<merchant, web, door, ops, chose, crossed>>

\* A rename posts the role as well.  Leaving it as loaded asks no question.
update_account(a) ==
  LET j == post[a]
      refused == /\ j.role # j.copy.role
                 /\ \/ ~ guard_not_self(a, j.of)
                    \/ j.copy.role = "merchant" /\ LinkedTo(j.of) # {}
  IN /\ Doing(a, "update")
     /\ \/ refused /\ UNCHANGED <<user, groups, given>>
        \/ /\ ~ refused
           /\ user' = [user EXCEPT ![j.of].role = j.role]
           /\ mirror(j.of, j.role)
           /\ Give(j.of, IF a = j.of THEN {} ELSE expected_permissions(j.role))
     /\ Finish(a)
     /\ UNCHANGED <<merchant, web, door, ops, chose, crossed>>

set_active(a) ==
  LET j == post[a]
      refused == Doing(a, "disable") /\ ~ guard_not_self(a, j.of)
  IN /\ Doing(a, "enable") \/ Doing(a, "disable")
     /\ \/ refused /\ UNCHANGED <<user, groups>>
        \/ /\ ~ refused
           /\ user' = [user EXCEPT ![j.of].is_active = Doing(a, "enable")]
           /\ mirror(j.of, j.copy.role)
     /\ Finish(a)
     /\ UNCHANGED <<merchant, web, door, ops, history>>

\* fault: the password is issued and the obligation is not
ResetSilently(a) ==
  LET j == post[a]
  IN /\ Doing(a, "password")
     /\ user' = [user EXCEPT ![j.of].password = @ + 1]
     /\ mirror(j.of, j.copy.role)
     /\ crossed' = [crossed EXCEPT ![j.of] = Doing(j.of, "clear")]
     /\ Finish(a)
     /\ UNCHANGED <<merchant, web, door, ops, chose, given>>

reset_password(a) ==
  LET j == post[a]
  IN /\ Doing(a, "password")
     /\ user' = [user EXCEPT ![j.of].password = @ + 1,
                            ![j.of].must_change_password = TRUE]
     /\ mirror(j.of, j.copy.role)
     /\ crossed' = [crossed EXCEPT ![j.of] = Doing(j.of, "clear")]
     /\ Finish(a)
     /\ UNCHANGED <<merchant, web, door, ops, chose, given>>

reset_two_factor(a) ==
  LET j == post[a]
  IN /\ Doing(a, "device")
     /\ user' = [user EXCEPT ![j.of].enrolled = FALSE]
     /\ mirror(j.of, j.copy.role)
     /\ Finish(a)
     /\ UNCHANGED <<merchant, web, door, ops, history>>

\* The grants are rows of their own: the account itself is not saved.
set_permission_overrides(a) ==
  LET j == post[a]
      refused == \/ ~ guard_not_self(a, j.of)
                 \/ j.form.granted \cap j.form.denied # {}
                 \/ /\ j.copy.role = "merchant"
                    /\ j.form.granted \cap MERCHANT_FORBIDDEN # {}
  IN /\ Doing(a, "overrides")
     /\ \/ refused /\ UNCHANGED <<user, given>>
        \/ /\ ~ refused
           /\ user' = [user EXCEPT ![j.of].granted = j.form.granted,
                                  ![j.of].denied = j.form.denied]
           /\ Give(j.of, IF a = j.of THEN {} ELSE j.form.granted)
     /\ Finish(a)
     /\ UNCHANGED <<groups, merchant, web, door, ops, chose, crossed>>

\* MerchantLinkForm looks at the records now; an account just created goes
\* straight to the link.
Offered(a) ==
  \/ Doing(a, "attach") \/ post[a].merchant = None
  \/ merchant[post[a].merchant].user \in {None, post[a].of}

\* fault: the record the account had keeps pointing at it
LinkOnly(a) ==
  LET j == post[a]
  IN /\ Doing(a, "link") \/ Doing(a, "attach")
     /\ merchant' = IF ~ Offered(a) \/ j.merchant = None \/ j.copy.role # "merchant"
                    THEN merchant ELSE [merchant EXCEPT ![j.merchant].user = j.of]
     /\ Finish(a)
     /\ UNCHANGED <<user, groups, web, door, ops, history>>

link_merchant(a) ==
  LET j == post[a]
      refused == ~ Offered(a) \/ (j.merchant # None /\ j.copy.role # "merchant")
  IN /\ Doing(a, "link") \/ Doing(a, "attach")
     /\ merchant' = IF refused THEN merchant
                    ELSE [m \in Merchants |->
                            IF m = j.merchant THEN [merchant[m] EXCEPT !.user = j.of]
                            ELSE IF merchant[m].user = j.of
                            THEN [merchant[m] EXCEPT !.user = None] ELSE merchant[m]]
     /\ Finish(a)
     /\ UNCHANGED <<user, groups, web, door, ops, history>>

\* The merchant form, which also holds the link, the subject and the switch.
EditMerchant(a, m) ==
  /\ post[a] = Idle
  /\ AtDesk(a, "manage_merchants")
  /\ \E u \in Staff \cup {None}, s \in Subjects \cup {None}, on \in BOOLEAN :
       /\ u # None => /\ Exists(u) /\ user[u].role = "merchant" /\ user[u].is_active
                      /\ LinkedTo(u) \subseteq {m}
       /\ s # None => \A n \in Merchants \ {m} : merchant[n].b2core_id # s
       /\ merchant' = [merchant EXCEPT ![m] = [user |-> u, b2core_id |-> s, is_active |-> on]]
       /\ merchant' # merchant
  /\ Count
  /\ UNCHANGED <<user, groups, web, door, post, history>>

-----------------------------------------------------------------------------
\* The same after a save of the owner's own, which is in no transaction: its
\* statements are the next ones of the request.
sync_user_role_group(a) ==
  LET j == post[a]
      others == groups[a] \ {j.copy.role}
  IN /\ \/ /\ j.sync = "read"
           /\ post' = [post EXCEPT ![a].sync = IF others = {} THEN "join" ELSE "drop",
                                  ![a].stale = others]
           /\ UNCHANGED groups
        \/ /\ j.sync = "drop"
           /\ groups' = [groups EXCEPT ![a] = @ \ j.stale]
           /\ post' = [post EXCEPT ![a].sync = "join", ![a].stale = {}]
        \/ /\ j.sync = "join"
           /\ groups' = [groups EXCEPT ![a] = @ \cup {j.copy.role}]
           /\ post' = [post EXCEPT ![a].sync = "no"]
     /\ UNCHANGED <<user, merchant, web, door, ops, history>>

\* The password change: the whole loaded row is written, with the new password.
save_password(a) ==
  LET c == post[a].copy
      new == user[a].password + 1
  IN /\ Doing(a, "change")
     /\ user' = [user EXCEPT ![a].role = c.role, ![a].is_active = c.is_active,
                            ![a].must_change_password = c.must_change_password,
                            ![a].password = new]
     /\ chose' = [chose EXCEPT ![a] = new]
     /\ crossed' = [crossed EXCEPT ![a] = FALSE]
     /\ post' = [post EXCEPT ![a].op = "clear", ![a].copy.password = new,
                            ![a].sync = "read"]
     /\ UNCHANGED <<groups, merchant, web, door, ops, given>>

\* The obligation is discharged, and the session goes on under the password
\* this request has set.
clear_flag(a) ==
  LET c == post[a].copy
  IN /\ Doing(a, "clear") /\ post[a].sync = "no"
     /\ user' = IF c.must_change_password
                THEN [user EXCEPT ![a].must_change_password = FALSE] ELSE user
     /\ web' = IF web[a] = None THEN web ELSE [web EXCEPT ![a].password = c.password]
     /\ Finish(a)
     /\ UNCHANGED <<groups, merchant, door, ops, history>>

\* The login form and its second factor.  A merchant is refused here.  The
\* login writes the time of it, which is a save like any other.
authenticate(a) ==
  /\ Exists(a) /\ user[a].is_active /\ user[a].role # "merchant"
  /\ ~ signed_in(a)
  /\ post[a] = Idle /\ ops < MaxOps
  /\ post' = [post EXCEPT ![a] = [Of("login", a) EXCEPT !.sync = "read"]]
  /\ UNCHANGED <<user, groups, merchant, web, door, ops, history>>

\* The session is stored last, for what the login had loaded.
login(a) ==
  LET c == post[a].copy
  IN /\ Doing(a, "login") /\ post[a].sync = "no"
     /\ web' = [web EXCEPT ![a] = [password |-> c.password, device |-> c.device]]
     /\ Finish(a)
     /\ UNCHANGED <<user, groups, merchant, door, ops, history>>

\* The enrolment wizard: a device, and the session verified with it.
Enrol(a) ==
  /\ signed_in(a) /\ ~ user[a].enrolled
  /\ user' = [user EXCEPT ![a].device = @ + 1, ![a].enrolled = TRUE]
  /\ web' = [web EXCEPT ![a].device = user[a].device + 1]
  /\ UNCHANGED <<groups, merchant, door, post, ops, history>>

Logout(a) ==
  /\ web[a] # None
  /\ web' = [web EXCEPT ![a] = None]
  /\ UNCHANGED <<user, groups, merchant, door, post, ops, history>>

-----------------------------------------------------------------------------
\* MerchantSessionView.post with a token of s: a session for what it resolves
\* to, and the end of the one there was when it resolves to nothing.
SignIn(s) ==
  /\ \/ \E m \in resolve_merchant(s) :
          door' = [door EXCEPT ![s] = [merchant |-> m, user |-> merchant[m].user]]
     \/ resolve_merchant(s) = {} /\ door' = [door EXCEPT ![s] = None]
  /\ UNCHANGED <<user, groups, merchant, web, post, ops, history>>

\* A page of the panel asked for under a session that no longer holds, which
\* ends it; a logout, or the session's expiry, does too.
End(s) ==
  /\ door[s] # None
  /\ door' = [door EXCEPT ![s] = None]
  /\ UNCHANGED <<user, groups, merchant, web, post, ops, history>>

-----------------------------------------------------------------------------
Owner(a) ==
  \/ OpenChange(a) \/ save_password(a) \/ clear_flag(a)
  \/ authenticate(a) \/ sync_user_role_group(a) \/ login(a)
  \/ Enrol(a) \/ Logout(a)

Desk(a) ==
  \/ \E t \in Staff : Load(a, t) \/ Create(a, t)
  \/ create_account(a) \/ update_account(a) \/ set_active(a)
  \/ reset_password(a) \/ reset_two_factor(a)
  \/ set_permission_overrides(a) \/ link_merchant(a)
  \/ \E m \in Merchants : EditMerchant(a, m)

Next ==
  \/ \E a \in Staff : Owner(a) \/ Desk(a)
  \/ \E s \in Subjects : SignIn(s) \/ End(s)

Spec == Init /\ [][Next]_accounts

-----------------------------------------------------------------------------
\* The panel a subject's browser is shown is that of the record its token was
\* resolved to, under the account that record had then, and the record is
\* still the subject's: no edit or re-link of the records in between turns
\* one merchant's session into another's (merchant_panel/session.py).
ServedAsSignedIn ==
  \A s \in Subjects : \A m \in PanelAtDoor(s) :
    /\ m = door[s].merchant /\ merchant[m].user = door[s].user
    /\ merchant[m].b2core_id = s

\* An account that is shown a merchant panel, through either door, holds no
\* permission over client identity: whatever was granted to it, in whichever
\* role, and whatever group a save from a stale instance left it in
\* (accounts/permissions.py).
Shown == {merchant[m].user : m \in UNION {PanelAtDoor(s) : s \in Subjects}}
         \cup {a \in Staff : PanelOnLogin(a) # {}}

MerchantsSeeNoIdentity ==
  \A a \in Shown :
    /\ user[a].role = "merchant"
    /\ MERCHANT_FORBIDDEN \cap (OfGroups(groups[a]) \cup user[a].granted)
         \subseteq user[a].denied

\* Nobody works under a password the desk handed out, the first or a later
\* one, unless it was handed out between the statements of a change of the
\* owner's own, which then takes the flag off it (accounts/views.py).
HandedOutIsReplaced ==
  \A a \in Staff : Works(a) =>
    /\ chose[a] # 0
    /\ chose[a] = user[a].password \/ crossed[a]

\* Whatever an account may do, somebody else once let it: no sequence of
\* requests of its own, from however stale an instance, and no login makes
\* more of it than others have (provisioning.guard_not_self and the mirror of
\* every save).
GivenByOthers ==
  \A a \in Staff : Exists(a) => get_all_permissions(a) \subseteq given[a]

-----------------------------------------------------------------------------
\* What the code's own comments say, and its interleavings break.

\* A disabled account comes back by being enabled, and not otherwise
\* (provisioning.py: disabling is the lever against a compromised account).
DisabledStaysOut ==
  [][\A a \in Staff :
       Exists(a) /\ ~ user[a].is_active /\ user'[a].is_active =>
         \E b \in Staff : post[b].of = a /\ post[b].op = "enable" /\ post'[b] = Idle
    ]_accounts

\* No merchant account holds a permission over client identity.
MerchantsHoldNoIdentity ==
  \A a \in Staff : Exists(a) => assert_merchant_anonymity(a)

\* Somebody can still administer accounts.
AdministratorRemains ==
  \E a \in Staff : Exists(a) /\ user[a].is_active /\ has_perm(a, "manage_internal_users")

\* Between requests, groups and role are in lockstep (permissions.py).
GroupFollowsRole ==
  \A a \in Staff :
    Exists(a) /\ (\A b \in Staff : post[b].of # a) => groups[a] = {user[a].role}

\* A password the desk handed out does nothing but get itself replaced.
OneTimePasswordOnlyOnce == \A a \in Staff : Works(a) => chose[a] = user[a].password

\* A password reset ends no session.
ResetKeepsSessions ==
  [][\A a \in Staff : signed_in(a) /\ (\E b \in Staff : reset_password(b)) => signed_in(a)'
    ]_accounts
=============================================================================
