--------------------------- MODULE AccountsProofs ---------------------------
(***************************************************************************)
(* Theorems about Accounts, for any number of accounts, merchant records,  *)
(* subjects and writing requests, and any permission form.                 *)
(***************************************************************************)
EXTENDS Accounts, TLAPS

(***************************************************************************)
(* The owner chose a password, and it is still the account's unless one    *)
(* was handed out across a change of the owner's.                          *)
(***************************************************************************)
Settled(a) == chose[a] # 0 /\ (crossed[a] \/ chose[a] = user[a].password)

(***************************************************************************)
(* What a request has loaded still holds when it writes: the account it is *)
(* of exists, nobody creates their own account, and the role of the copy,  *)
(* which the mirror will write, was given to the account by somebody else. *)
(***************************************************************************)
Prepared(a, j) ==
  /\ j.op # "idle" => j.of \in Staff
  /\ j.op \notin {"idle", "create"} =>
       /\ Exists(j.of) /\ j.copy \in Copy
       /\ expected_permissions(j.copy.role) \subseteq given[j.of]
  /\ j.op \in {"create", "update"} => j.role \in Roles
  /\ j.op = "overrides" => j.form \in Overrides
  /\ j.op \in {"create", "attach"} => j.of # a
  /\ j.op \in {"change", "clear", "login"} => j.of = a
  /\ j.op = "clear" => Settled(a)
  /\ j.sync # "no" => j.op \in {"clear", "login"}

\* The merchant records' part of the type invariant.
Records ==
  /\ merchant \in [Merchants -> Merchant]
  /\ \A m, n \in Merchants : merchant[m].user = merchant[n].user
       => m = n \/ merchant[m].user = None
  /\ \A m, n \in Merchants : merchant[m].b2core_id = merchant[n].b2core_id
       => m = n \/ merchant[m].b2core_id = None

\* An account that need not change its password has settled on it.
Chosen(a) == Exists(a) => user[a].must_change_password \/ Settled(a)

\* Role, grants and groups are of what others gave.
Held(a) ==
  /\ Exists(a) => /\ expected_permissions(user[a].role) \subseteq given[a]
                  /\ user[a].granted \subseteq given[a]
  /\ \A r \in groups[a] : expected_permissions(r) \subseteq given[a]

AccountsInv ==
  /\ AccountsTypeOK
  /\ \A a \in Staff : Prepared(a, post[a]) /\ Chosen(a) /\ Held(a)

-----------------------------------------------------------------------------
(* An account that exists has a row.                                       *)
LEMMA RowOf ==
  ASSUME AccountsTypeOK, NEW a \in Staff, Exists(a)
  PROVE  user[a] \in User
BY DEF AccountsTypeOK, Exists

(* Only an account that exists works.                                      *)
LEMMA WorkerExists ==
  ASSUME NEW a \in Staff, Works(a)
  PROVE  Exists(a) /\ user[a].is_active
BY DEF Works, signed_in

(* Writing one row, of an account that exists or is made to, keeps the rows*)
(* typed and every account there was.                                      *)
LEMMA RowWritten ==
  ASSUME AccountsTypeOK, NEW t \in Staff, NEW row \in User,
         user' = [user EXCEPT ![t] = row]
  PROVE  /\ user' \in [Staff -> User \cup {None}]
         /\ \A b \in Staff : Exists(b) => Exists(b)'
BY NoneAssumption DEF AccountsTypeOK, Exists

(* Finishing a request leaves an idle one, and every other as it was.      *)
LEMMA Finished ==
  ASSUME AccountsTypeOK, NEW a \in Staff, Finish(a)
  PROVE  /\ post' \in [Staff -> Post \cup {Idle}]
         /\ post'[a] = Idle
         /\ \A b \in Staff \ {a} : post'[b] = post[b]
BY DEF AccountsTypeOK, Finish

(* The baseline of a role is permissions.                                  *)
LEMMA Baseline ==
  ASSUME NEW r \in Roles
  PROVE  expected_permissions(r) \subseteq Permissions
BY DEF expected_permissions, Roles, Permissions

(* A request of an account that still is stays prepared.                   *)
LEMMA StillPrepared ==
  ASSUME NEW a \in Staff, NEW j, Prepared(a, j),
         \A b \in Staff : Exists(b) => Exists(b)',
         \A b \in Staff : given[b] \subseteq given'[b],
         j.op = "clear" /\ Settled(a) => Settled(a)',
         post'[a] = j
  PROVE  Prepared(a, post[a])'
BY DEF Prepared

(* An idle account is prepared.                                            *)
LEMMA IdlePrepared ==
  ASSUME NEW a \in Staff, post'[a] = Idle
  PROVE  Prepared(a, post[a])'
BY DEF Prepared, Idle

(* A step of one account's request that leaves the rows and the history    *)
(* alone keeps the invariant, if what it leaves under way is well formed   *)
(* and prepared, and the groups are of what others gave.                   *)
LEMMA Moved ==
  ASSUME AccountsInv, NEW a \in Staff, NEW p \in Post \cup {Idle},
         post' = [post EXCEPT ![a] = p], Prepared(a, p),
         UNCHANGED <<user, door, history>>, Records',
         ops' \in 0 .. MaxOps, web' \in [Staff -> Login \cup {None}],
         groups' \in [Staff -> SUBSET Roles],
         \A b \in Staff : \A r \in groups'[b] : expected_permissions(r) \subseteq given[b]
  PROVE  AccountsInv'
<1>1. /\ post' \in [Staff -> Post \cup {Idle}]
      /\ post'[a] = p
      /\ \A b \in Staff \ {a} : post'[b] = post[b]
  BY DEF AccountsInv, AccountsTypeOK
<1>2. AccountsTypeOK'
  BY <1>1 DEF AccountsInv, AccountsTypeOK, Records, history
<1>3. ASSUME NEW b \in Staff PROVE Prepared(b, post[b])'
  <2>1. /\ \A c \in Staff : Exists(c) => Exists(c)'
        /\ Settled(b) => Settled(b)'
        /\ \A c \in Staff : given[c] \subseteq given'[c]
    BY DEF Exists, Settled, history
  <2>2. CASE b = a
    BY <1>1, <2>1, <2>2, StillPrepared
  <2>3. CASE b # a
    <3>1. Prepared(b, post[b]) /\ post'[b] = post[b]
      BY <1>1, <2>3 DEF AccountsInv
    <3> QED
      BY <2>1, <3>1, StillPrepared
  <2> QED
    BY <2>2, <2>3
<1>4. ASSUME NEW b \in Staff PROVE Chosen(b)' /\ Held(b)'
  BY DEF AccountsInv, Chosen, Held, Settled, Exists, history
<1> QED
  BY <1>2, <1>3, <1>4 DEF AccountsInv

(* Groups left alone are of what others gave.                              *)
LEMMA GroupsStand ==
  ASSUME AccountsInv, UNCHANGED groups
  PROVE  /\ groups' \in [Staff -> SUBSET Roles]
         /\ \A b \in Staff : \A r \in groups'[b] :
              expected_permissions(r) \subseteq given[b]
BY DEF AccountsInv, AccountsTypeOK, Held

(* Records left alone keep their part of the type invariant.               *)
LEMMA RecordsStand ==
  ASSUME AccountsInv, UNCHANGED merchant
  PROVE  Records'
BY DEF AccountsInv, AccountsTypeOK, Records

(* Beginning a well-formed request keeps the invariant.                    *)
LEMMA Begun ==
  ASSUME AccountsInv, NEW a \in Staff, NEW p \in Post, Begin(a, p), Prepared(a, p)
  PROVE  AccountsInv'
<1>1. /\ post' = [post EXCEPT ![a] = p]
      /\ UNCHANGED <<user, groups, merchant, web, door, history>>
      /\ ops' \in 0 .. MaxOps
  BY AccountsAssumption DEF AccountsInv, AccountsTypeOK, Begin, Count
<1>2. web' \in [Staff -> Login \cup {None}]
  BY <1>1 DEF AccountsInv, AccountsTypeOK
<1> QED
  BY <1>1, <1>2, GroupsStand, RecordsStand, Moved

(* What a step writes in the row of account t, in its groups and in its    *)
(* history: the row keeps its obligation, is settled or is given one, its  *)
(* role, its grants and its groups are of what others have given, and a    *)
(* new password is marked as crossing a change between its statements.     *)
Written(t, new, g, x, p) ==
  /\ user' = [user EXCEPT ![t] = new]
  /\ groups' = [groups EXCEPT ![t] = g]
  /\ crossed' = [crossed EXCEPT ![t] = x]
  /\ given' = [given EXCEPT ![t] = given[t] \cup p]
  /\ expected_permissions(new.role) \subseteq given[t] \cup p
  /\ new.granted \subseteq given[t] \cup p
  /\ \A r \in g : expected_permissions(r) \subseteq given[t] \cup p
  /\ \/ /\ new.password = user[t].password /\ x = crossed[t]
        /\ \/ new.must_change_password = user[t].must_change_password
           \/ Settled(t)
     \/ new.must_change_password /\ (post[t].op = "clear" => x)

(* Finishing a request that wrote so keeps the invariant.                  *)
LEMMA EndedWriting ==
  ASSUME AccountsInv, NEW a \in Staff, Finish(a),
         NEW t \in Staff, Exists(t), NEW new \in User,
         NEW g \in SUBSET Roles, NEW x \in BOOLEAN, NEW p \in SUBSET Permissions,
         Written(t, new, g, x, p),
         web' \in [Staff -> Login \cup {None}],
         UNCHANGED <<merchant, door, ops, chose>>
  PROVE  AccountsInv'
<1>1. /\ user' \in [Staff -> User \cup {None}]
      /\ \A b \in Staff : Exists(b) => Exists(b)'
  BY RowWritten DEF AccountsInv, Written
<1>2. /\ user'[t] = new /\ \A b \in Staff \ {t} : user'[b] = user[b]
      /\ groups' \in [Staff -> SUBSET Roles]
      /\ groups'[t] = g /\ \A b \in Staff \ {t} : groups'[b] = groups[b]
      /\ crossed' \in [Staff -> BOOLEAN]
      /\ crossed'[t] = x /\ \A b \in Staff \ {t} : crossed'[b] = crossed[b]
  BY DEF AccountsInv, AccountsTypeOK, Written
<1>3. /\ given' \in [Staff -> SUBSET Permissions]
      /\ given'[t] = given[t] \cup p
      /\ \A b \in Staff \ {t} : given'[b] = given[b]
      /\ \A b \in Staff : given[b] \subseteq given'[b]
  BY DEF AccountsInv, AccountsTypeOK, Written
<1>4. /\ post' \in [Staff -> Post \cup {Idle}]
      /\ post'[a] = Idle
      /\ \A b \in Staff \ {a} : post'[b] = post[b]
  BY Finished DEF AccountsInv
<1>5. AccountsTypeOK'
  BY <1>1, <1>2, <1>3, <1>4 DEF AccountsInv, AccountsTypeOK
<1>6. ASSUME NEW b \in Staff PROVE Prepared(b, post[b])'
  <2>1. CASE b = a
    BY <1>4, <2>1, IdlePrepared
  <2>2. CASE b # a
    <3>1. Prepared(b, post[b]) /\ post'[b] = post[b]
      BY <1>4, <2>2 DEF AccountsInv
    <3>2. post[b].op = "clear" /\ Settled(b) => Settled(b)'
      BY <1>2 DEF Settled, Written
    <3> QED
      BY <1>1, <1>3, <3>1, <3>2, StillPrepared
  <2> QED
    BY <2>1, <2>2
<1>7. ASSUME NEW b \in Staff PROVE Chosen(b)' /\ Held(b)'
  <2>1. Chosen(b) /\ Held(b)
    BY DEF AccountsInv
  <2>2. CASE b = t
    BY <1>2, <1>3, <2>1, <2>2 DEF Chosen, Held, Settled, Exists, Written
  <2>3. CASE b # t
    BY <1>2, <1>3, <2>1, <2>3 DEF Chosen, Held, Settled, Exists
  <2> QED
    BY <2>2, <2>3
<1> QED
  BY <1>5, <1>6, <1>7 DEF AccountsInv

(* ... and so does finishing one that wrote nothing.                       *)
LEMMA EndedIdly ==
  ASSUME AccountsInv, NEW a \in Staff, Finish(a),
         UNCHANGED <<user, groups, merchant, web, door, ops, history>>
  PROVE  AccountsInv'
<1>1. post' = [post EXCEPT ![a] = Idle] /\ Prepared(a, Idle)
  BY DEF Finish, Prepared, Idle
<1>2. web' \in [Staff -> Login \cup {None}] /\ ops' \in 0 .. MaxOps
  BY DEF AccountsInv, AccountsTypeOK
<1> QED
  BY <1>1, <1>2, GroupsStand, RecordsStand, Moved

-----------------------------------------------------------------------------
(* What a view loads of an account that exists is a copy of a row, with a  *)
(* role that others gave.                                                  *)
LEMMA LoadedCopy ==
  ASSUME AccountsInv, NEW t \in Staff, Exists(t)
  PROVE  /\ CopyOf(t) \in Copy
         /\ expected_permissions(CopyOf(t).role) \subseteq given[t]
<1>1. user[t] \in User /\ expected_permissions(user[t].role) \subseteq given[t]
  BY RowOf DEF AccountsInv, Held
<1>2. CopyOf(t) \in Copy /\ CopyOf(t).role = user[t].role
  BY <1>1 DEF CopyOf, Copy, User
<1> QED
  BY <1>1, <1>2

(* The views of the user screens prepare what they begin.                  *)
LEMMA LoadKeeps ==
  ASSUME AccountsInv, NEW a \in Staff, NEW t \in Staff, Load(a, t)
  PROVE  AccountsInv'
<1>0. /\ Exists(t)
      /\ CopyOf(t) \in Copy
      /\ expected_permissions(CopyOf(t).role) \subseteq given[t]
  BY LoadedCopy DEF Load
<1>1. ASSUME NEW r \in Roles, Begin(a, [Of("update", t) EXCEPT !.role = r])
      PROVE  AccountsInv'
  <2>1. /\ [Of("update", t) EXCEPT !.role = r] \in Post
        /\ Prepared(a, [Of("update", t) EXCEPT !.role = r])
    BY <1>0 DEF Of, Idle, Post, Operations, Prepared
  <2> QED
    BY <1>1, <2>1, Begun
<1>2. ASSUME NEW op \in {"enable", "disable", "password", "device"}, Begin(a, Of(op, t))
      PROVE  AccountsInv'
  <2>1. Of(op, t) \in Post /\ Prepared(a, Of(op, t))
    BY <1>0 DEF Of, Idle, Post, Operations, Prepared
  <2> QED
    BY <1>2, <2>1, Begun
<1>3. ASSUME NEW m \in Merchants \cup {None},
             Begin(a, [Of("link", t) EXCEPT !.merchant = m])
      PROVE  AccountsInv'
  <2>1. /\ [Of("link", t) EXCEPT !.merchant = m] \in Post
        /\ Prepared(a, [Of("link", t) EXCEPT !.merchant = m])
    BY <1>0 DEF Of, Idle, Post, Operations, Prepared
  <2> QED
    BY <1>3, <2>1, Begun
<1>4. ASSUME NEW f \in Overrides, Begin(a, [Of("overrides", t) EXCEPT !.form = f])
      PROVE  AccountsInv'
  <2>1. /\ [Of("overrides", t) EXCEPT !.form = f] \in Post
        /\ Prepared(a, [Of("overrides", t) EXCEPT !.form = f])
    BY <1>0 DEF Of, Idle, Post, Operations, Prepared
  <2> QED
    BY <1>4, <2>1, Begun
<1> QED
  BY <1>1, <1>2, <1>3, <1>4 DEF Load

(* The creation screen is only somebody's who exists already.              *)
LEMMA CreateKeeps ==
  ASSUME AccountsInv, NEW a \in Staff, NEW t \in Staff, Create(a, t)
  PROVE  AccountsInv'
<1>1. a # t
  BY WorkerExists DEF Create, AtDesk
<1>2. PICK r \in Roles, m \in Merchants \cup {None} :
        Begin(a, [Idle EXCEPT !.op = "create", !.of = t, !.role = r, !.merchant = m])
  BY DEF Create
<1>3. /\ [Idle EXCEPT !.op = "create", !.of = t, !.role = r, !.merchant = m] \in Post
      /\ Prepared(a, [Idle EXCEPT !.op = "create", !.of = t, !.role = r, !.merchant = m])
  BY <1>1 DEF Idle, Post, Operations, Prepared
<1> QED
  BY <1>2, <1>3, Begun

(* A password change begins on the caller's own row.                       *)
LEMMA OpenChangeKeeps ==
  ASSUME AccountsInv, NEW a \in Staff, OpenChange(a)
  PROVE  AccountsInv'
<1>1. /\ Exists(a) /\ CopyOf(a) \in Copy
      /\ expected_permissions(CopyOf(a).role) \subseteq given[a]
  BY LoadedCopy DEF OpenChange, signed_in
<1>2. Of("change", a) \in Post /\ Prepared(a, Of("change", a))
  BY <1>1 DEF Of, Idle, Post, Operations, Prepared
<1> QED
  BY <1>2, Begun DEF OpenChange

-----------------------------------------------------------------------------
(* The operations, one lemma for each whose writing takes a step of its    *)
(* own to describe.                                                        *)
LEMMA CreateAccountKeeps ==
  ASSUME AccountsInv, NEW a \in Staff, create_account(a)
  PROVE  AccountsInv'
<1>1. PICK j \in Post :
        /\ j = post[a] /\ j.op = "create" /\ j.of \in Staff \ {a} /\ j.role \in Roles
        /\ Prepared(a, j)
  BY DEF AccountsInv, AccountsTypeOK, create_account, Doing, Prepared, Idle
<1> DEFINE t == j.of
           p == expected_permissions(j.role)
           new == [role |-> j.role, is_active |-> TRUE, granted |-> {}, denied |-> {},
                   password |-> 1, must_change_password |-> TRUE,
                   device |-> 0, enrolled |-> FALSE]
           copy == [role |-> j.role, is_active |-> TRUE, must_change_password |-> TRUE,
                    password |-> 1, device |-> 0]
           attach == [j EXCEPT !.op = "attach", !.copy = copy]
           rest == IF j.merchant = None THEN Idle ELSE attach
<1>2. CASE Finish(a) /\ UNCHANGED <<user, groups, given>>
  BY <1>2, EndedIdly DEF create_account, history
<1>3. CASE ~ (Finish(a) /\ UNCHANGED <<user, groups, given>>)
  <2>1. new \in User /\ new.must_change_password /\ new.role = j.role /\ new.granted = {}
    BY <1>1 DEF User
  <2>2. p \subseteq Permissions
    BY <1>1, Baseline
  <2>3. /\ ~ Exists(t)
        /\ user' = [user EXCEPT ![t] = new]
        /\ groups' = [groups EXCEPT ![t] = {j.role}]
        /\ given' = [given EXCEPT ![t] = @ \cup p]
        /\ post' = [post EXCEPT ![a] = rest]
        /\ UNCHANGED <<merchant, web, door, ops, chose, crossed>>
    BY <1>1, <1>3 DEF create_account, mirror, Give
  <2>4. rest \in Post \cup {Idle}
    BY <1>1 DEF Post, Copy, Operations
  <2>5. /\ rest.op \in {"idle", "attach"} /\ rest.sync = "no"
        /\ rest.op = "attach" => rest.of = t /\ rest.copy = copy
    BY <1>1 DEF Idle, Prepared, Post
  <2>6. copy \in Copy /\ expected_permissions(copy.role) = p
    BY <1>1 DEF Copy
  <2> HIDE DEF new, copy, rest, t, p
  <2>7. /\ user' \in [Staff -> User \cup {None}]
        /\ \A b \in Staff : Exists(b) => Exists(b)'
    BY <1>1, <2>1, <2>3, RowWritten DEF AccountsInv, t
  <2>8. /\ user'[t] = new /\ \A b \in Staff \ {t} : user'[b] = user[b]
        /\ groups' \in [Staff -> SUBSET Roles]
        /\ groups'[t] = {j.role} /\ \A b \in Staff \ {t} : groups'[b] = groups[b]
        /\ given' \in [Staff -> SUBSET Permissions]
        /\ p \subseteq given'[t]
        /\ \A b \in Staff : given[b] \subseteq given'[b]
    BY <1>1, <2>2, <2>3 DEF AccountsInv, AccountsTypeOK, t
  <2>9. /\ post' \in [Staff -> Post \cup {Idle}]
        /\ post'[a] = rest
        /\ \A b \in Staff \ {a} : post'[b] = post[b]
    BY <2>3, <2>4 DEF AccountsInv, AccountsTypeOK
  <2>10. AccountsTypeOK'
    BY <2>3, <2>7, <2>8, <2>9 DEF AccountsInv, AccountsTypeOK
  <2>11. Exists(t)'
    BY <2>1, <2>8, NoneAssumption DEF Exists
  <2>12. Prepared(a, post[a])'
    <3>1. Prepared(a, rest)'
      BY <1>1, <2>5, <2>6, <2>8, <2>11 DEF Prepared, t
    <3> QED
      BY <2>9, <3>1 DEF Prepared
  <2>13. ASSUME NEW b \in Staff \ {a} PROVE Prepared(b, post[b])'
    <3>1. Prepared(b, post[b]) /\ post'[b] = post[b]
      BY <2>9 DEF AccountsInv
    <3>2. post[b].op = "clear" => b # t
      BY <2>3, <3>1 DEF Prepared, t
    <3>3. post[b].op = "clear" /\ Settled(b) => Settled(b)'
      BY <2>3, <2>8, <3>2 DEF Settled
    <3> QED
      BY <2>7, <2>8, <3>1, <3>3, StillPrepared
  <2>14. ASSUME NEW b \in Staff PROVE Chosen(b)' /\ Held(b)'
    <3>1. Chosen(b) /\ Held(b)
      BY DEF AccountsInv
    <3>2. CASE b = t
      BY <2>1, <2>8, <3>2 DEF Chosen, Held, p
    <3>3. CASE b # t
      BY <2>3, <2>8, <3>1, <3>3 DEF Chosen, Held, Settled, Exists
    <3> QED
      BY <3>2, <3>3
  <2> QED
    BY <2>10, <2>12, <2>13, <2>14 DEF AccountsInv
<1> QED
  BY <1>2, <1>3

(* What an operation on an account is given: a row, the request's copy of  *)
(* it, and that the role in either was given to the account by another.    *)
LEMMA Given ==
  ASSUME AccountsInv, NEW a \in Staff, post[a].op \notin {"idle", "create"}
  PROVE  /\ post[a] \in Post
         /\ post[a].of \in Staff
         /\ user[post[a].of] \in User
         /\ Exists(post[a].of)
         /\ post[a].copy \in Copy
         /\ Prepared(a, post[a])
         /\ expected_permissions(post[a].copy.role) \subseteq given[post[a].of]
         /\ Held(post[a].of)
<1>1. Prepared(a, post[a]) /\ post[a] \in Post
  BY DEF AccountsInv, AccountsTypeOK, Idle
<1>2. /\ post[a].of \in Staff /\ Exists(post[a].of) /\ post[a].copy \in Copy
      /\ expected_permissions(post[a].copy.role) \subseteq given[post[a].of]
  BY <1>1 DEF Prepared
<1> QED
  BY <1>1, <1>2, RowOf DEF AccountsInv

(* An operation on an account that saves an instance with the copy's role  *)
(* keeps the invariant, if the row keeps its role and its grants and keeps *)
(* its obligation or is given one.                                         *)
LEMMA Saved ==
  ASSUME AccountsInv, NEW a \in Staff, post[a].op \notin {"idle", "create"}, Finish(a),
         NEW t \in Staff, t = post[a].of, NEW new \in User, NEW x \in BOOLEAN,
         user' = [user EXCEPT ![t] = new],
         mirror(t, post[a].copy.role),
         crossed' = [crossed EXCEPT ![t] = x],
         new.role = user[t].role, new.granted = user[t].granted,
         \/ /\ new.password = user[t].password /\ x = crossed[t]
            /\ new.must_change_password = user[t].must_change_password
         \/ new.must_change_password /\ (post[t].op = "clear" => x),
         UNCHANGED <<merchant, web, door, ops, chose, given>>
  PROVE  AccountsInv'
<1> DEFINE g == {post[a].copy.role}
<1>1. /\ Exists(t) /\ Held(t) /\ post[a].copy.role \in Roles
      /\ \A r \in g : expected_permissions(r) \subseteq given[t]
  BY Given DEF Copy
<1>2. /\ groups' = [groups EXCEPT ![t] = g] /\ g \in SUBSET Roles
      /\ given' = [given EXCEPT ![t] = given[t] \cup {}]
      /\ web' \in [Staff -> Login \cup {None}]
  BY <1>1 DEF mirror, AccountsInv, AccountsTypeOK
<1>3. /\ expected_permissions(new.role) \subseteq given[t] \cup {}
      /\ new.granted \subseteq given[t] \cup {}
  BY <1>1 DEF Held
<1> HIDE DEF g
<1>4. Written(t, new, g, x, {})
  BY <1>1, <1>2, <1>3 DEF Written
<1> QED
  BY <1>1, <1>2, <1>4, EndedWriting

LEMMA UpdateAccountKeeps ==
  ASSUME AccountsInv, NEW a \in Staff, update_account(a)
  PROVE  AccountsInv'
<1> DEFINE t == post[a].of
           r == post[a].role
           new == [user[t] EXCEPT !.role = r]
           p == IF a = t THEN {} ELSE expected_permissions(r)
<1>1. /\ t \in Staff /\ user[t] \in User /\ Exists(t) /\ r \in Roles /\ Held(t)
      /\ expected_permissions(post[a].copy.role) \subseteq given[t]
  BY Given DEF update_account, Doing, Prepared
<1>2. CASE UNCHANGED <<user, groups, given>>
  BY <1>2, EndedIdly DEF update_account, history
<1>3. CASE ~ UNCHANGED <<user, groups, given>>
  <2>1. /\ new \in User /\ new.must_change_password = user[t].must_change_password
        /\ new.password = user[t].password /\ new.granted = user[t].granted
        /\ new.role = r
    BY <1>1 DEF User
  <2>2. p \in SUBSET Permissions
    BY <1>1, Baseline
  <2>3. /\ user' = [user EXCEPT ![t] = new]
        /\ groups' = [groups EXCEPT ![t] = {r}]
        /\ given' = [given EXCEPT ![t] = given[t] \cup p]
        /\ Finish(a) /\ UNCHANGED <<merchant, web, door, ops, chose, crossed>>
    BY <1>1, <1>3 DEF update_account, mirror, Give
  <2>4. expected_permissions(r) \subseteq given[t] \cup p
    BY <1>1, <1>3 DEF update_account, guard_not_self
  <2>5. /\ crossed[t] \in BOOLEAN /\ crossed' = [crossed EXCEPT ![t] = crossed[t]]
        /\ web' \in [Staff -> Login \cup {None}]
        /\ new.granted \subseteq given[t] \cup p
    BY <1>1, <2>1, <2>3 DEF AccountsInv, AccountsTypeOK, Held
  <2>6. {r} \in SUBSET Roles /\ \A q \in {r} : expected_permissions(q) \subseteq given[t] \cup p
    BY <1>1, <2>4
  <2> HIDE DEF new, t, p, r
  <2>7. Written(t, new, {r}, crossed[t], p)
    BY <2>1, <2>3, <2>4, <2>5, <2>6 DEF Written
  <2> QED
    BY <1>1, <2>1, <2>2, <2>3, <2>5, <2>6, <2>7, EndedWriting
<1> QED
  BY <1>2, <1>3

LEMMA SetActiveKeeps ==
  ASSUME AccountsInv, NEW a \in Staff, set_active(a)
  PROVE  AccountsInv'
<1> DEFINE t == post[a].of
           new == [user[t] EXCEPT !.is_active = Doing(a, "enable")]
<1>1. t \in Staff /\ user[t] \in User /\ post[a].op \notin {"idle", "create"}
  BY Given DEF set_active, Doing
<1>2. CASE UNCHANGED <<user, groups>>
  BY <1>2, EndedIdly DEF set_active
<1>3. CASE ~ UNCHANGED <<user, groups>>
  <2>1. /\ new \in User /\ new.must_change_password = user[t].must_change_password
        /\ new.password = user[t].password
        /\ new.granted = user[t].granted /\ new.role = user[t].role
    BY <1>1 DEF User, Doing
  <2>2. /\ user' = [user EXCEPT ![t] = new] /\ mirror(t, post[a].copy.role)
        /\ crossed' = [crossed EXCEPT ![t] = crossed[t]] /\ crossed[t] \in BOOLEAN
        /\ Finish(a) /\ UNCHANGED <<merchant, web, door, ops, chose, given>>
    BY <1>1, <1>3 DEF set_active, history, AccountsInv, AccountsTypeOK
  <2> HIDE DEF new
  <2> QED
    BY <1>1, <2>1, <2>2, Saved
<1> QED
  BY <1>2, <1>3

LEMMA ResetPasswordKeeps ==
  ASSUME AccountsInv, NEW a \in Staff, reset_password(a)
  PROVE  AccountsInv'
<1> DEFINE t == post[a].of
           x == Doing(t, "clear")
           new == [user[t] EXCEPT !.password = @ + 1, !.must_change_password = TRUE]
<1>1. t \in Staff /\ user[t] \in User /\ post[a].op \notin {"idle", "create"}
  BY Given DEF reset_password, Doing
<1>2. /\ new \in User /\ new.must_change_password
      /\ new.granted = user[t].granted /\ new.role = user[t].role
  <2>1. user[t].password + 1 \in Nat
    BY <1>1 DEF User
  <2>2. /\ new.must_change_password = TRUE
        /\ new.granted = user[t].granted /\ new.role = user[t].role
    BY <1>1 DEF User
  <2> QED
    BY <1>1, <2>1, <2>2 DEF User
<1>3. /\ Finish(a) /\ UNCHANGED <<merchant, web, door, ops, chose, given>>
      /\ user' = [user EXCEPT ![t] = new] /\ mirror(t, post[a].copy.role)
      /\ crossed' = [crossed EXCEPT ![t] = x]
      /\ x \in BOOLEAN /\ (post[t].op = "clear" => x)
  BY <1>1 DEF reset_password, Doing, AccountsInv, AccountsTypeOK
<1> HIDE DEF new, x
<1> QED
  BY <1>1, <1>2, <1>3, Saved

LEMMA ResetTwoFactorKeeps ==
  ASSUME AccountsInv, NEW a \in Staff, reset_two_factor(a)
  PROVE  AccountsInv'
<1> DEFINE t == post[a].of
           new == [user[t] EXCEPT !.enrolled = FALSE]
<1>1. t \in Staff /\ user[t] \in User /\ post[a].op \notin {"idle", "create"}
  BY Given DEF reset_two_factor, Doing
<1>2. /\ new \in User /\ new.must_change_password = user[t].must_change_password
      /\ new.password = user[t].password
      /\ new.granted = user[t].granted /\ new.role = user[t].role
  BY <1>1 DEF User
<1>3. /\ user' = [user EXCEPT ![t] = new] /\ mirror(t, post[a].copy.role)
      /\ crossed' = [crossed EXCEPT ![t] = crossed[t]] /\ crossed[t] \in BOOLEAN
      /\ Finish(a) /\ UNCHANGED <<merchant, web, door, ops, chose, given>>
  BY <1>1 DEF reset_two_factor, history, AccountsInv, AccountsTypeOK
<1> HIDE DEF new
<1> QED
  BY <1>1, <1>2, <1>3, Saved

LEMMA OverridesKeep ==
  ASSUME AccountsInv, NEW a \in Staff, set_permission_overrides(a)
  PROVE  AccountsInv'
<1> DEFINE t == post[a].of
           f == post[a].form
           new == [user[t] EXCEPT !.granted = f.granted, !.denied = f.denied]
<1>1. t \in Staff /\ user[t] \in User /\ Exists(t) /\ f \in Form /\ Held(t)
  BY Given, AccountsAssumption DEF set_permission_overrides, Doing, Prepared
<1>2. CASE UNCHANGED <<user, given>>
  BY <1>2, EndedIdly DEF set_permission_overrides, history
<1>3. CASE ~ UNCHANGED <<user, given>>
  <2>1. /\ new \in User /\ new.must_change_password = user[t].must_change_password
        /\ new.password = user[t].password /\ new.granted = f.granted
        /\ new.role = user[t].role /\ f.granted \in SUBSET Permissions
    BY <1>1 DEF User, Form
  <2>2. /\ user' = [user EXCEPT ![t] = new]
        /\ given' = [given EXCEPT ![t] = given[t] \cup f.granted]
        /\ Finish(a) /\ UNCHANGED <<groups, merchant, web, door, ops, chose, crossed>>
    BY <1>1, <1>3 DEF set_permission_overrides, guard_not_self, Give, AccountsInv, AccountsTypeOK
  <2>3. /\ crossed[t] \in BOOLEAN /\ crossed' = [crossed EXCEPT ![t] = crossed[t]]
        /\ groups[t] \in SUBSET Roles /\ groups' = [groups EXCEPT ![t] = groups[t]]
        /\ web' \in [Staff -> Login \cup {None}]
    BY <1>1, <2>2 DEF AccountsInv, AccountsTypeOK
  <2>4. /\ expected_permissions(new.role) \subseteq given[t] \cup f.granted
        /\ new.granted \subseteq given[t] \cup f.granted
        /\ \A r \in groups[t] : expected_permissions(r) \subseteq given[t] \cup f.granted
    BY <1>1, <2>1 DEF Held
  <2> HIDE DEF new, t, f
  <2>5. Written(t, new, groups[t], crossed[t], f.granted)
    BY <2>1, <2>2, <2>3, <2>4 DEF Written
  <2> QED
    BY <1>1, <2>1, <2>2, <2>3, <2>5, EndedWriting
<1> QED
  BY <1>2, <1>3

(* The link keeps each account to one record and each record to its row.   *)
LEMMA LinkKeeps ==
  ASSUME AccountsInv, NEW a \in Staff, link_merchant(a)
  PROVE  AccountsInv'
<1> DEFINE j == post[a]
<1>1. j.of \in Staff /\ None \notin Staff /\ None \notin Merchants
  BY Given, AccountsAssumption DEF link_merchant, Doing
<1>2. merchant \in [Merchants -> Merchant] /\ Records
  BY DEF AccountsInv, AccountsTypeOK, Records
<1>3. Records'
  <2>1. CASE merchant' = merchant
    BY <2>1, RecordsStand
  <2>2. CASE merchant' = [m \in Merchants |->
                            IF m = j.merchant THEN [merchant[m] EXCEPT !.user = j.of]
                            ELSE IF merchant[m].user = j.of
                            THEN [merchant[m] EXCEPT !.user = None] ELSE merchant[m]]
    <3>1. merchant' \in [Merchants -> Merchant]
      BY <1>1, <1>2, <2>2 DEF Merchant
    <3>2. \A m \in Merchants :
            /\ merchant'[m].b2core_id = merchant[m].b2core_id
            /\ merchant'[m].user = IF m = j.merchant THEN j.of
                                   ELSE IF merchant[m].user = j.of THEN None
                                   ELSE merchant[m].user
      BY <1>1, <1>2, <2>2 DEF Merchant
    <3> QED
      BY <1>1, <1>2, <3>1, <3>2 DEF Records
  <2> QED
    BY <2>1, <2>2 DEF link_merchant
<1>4. /\ post' = [post EXCEPT ![a] = Idle] /\ Prepared(a, Idle)
      /\ UNCHANGED <<user, groups, web, door, ops, history>>
  BY DEF link_merchant, Finish, Prepared, Idle
<1>5. web' \in [Staff -> Login \cup {None}] /\ ops' \in 0 .. MaxOps
  BY <1>4 DEF AccountsInv, AccountsTypeOK
<1> QED
  BY <1>3, <1>4, <1>5, GroupsStand, Moved

(* A step that leaves the requests, the rows, the groups and the history   *)
(* alone has only its types to keep.                                       *)
LEMMA Aside ==
  ASSUME AccountsInv, UNCHANGED <<user, groups, post, history>>, AccountsTypeOK'
  PROVE  AccountsInv'
<1>1. ASSUME NEW b \in Staff PROVE Prepared(b, post[b])'
  <2>1. /\ \A c \in Staff : Exists(c) => Exists(c)'
        /\ Settled(b) => Settled(b)'
        /\ \A c \in Staff : given[c] \subseteq given'[c]
    BY DEF Exists, Settled, history
  <2> QED
    BY <2>1, StillPrepared DEF AccountsInv
<1>2. ASSUME NEW b \in Staff PROVE Chosen(b)' /\ Held(b)'
  BY DEF AccountsInv, Chosen, Held, Settled, Exists, history
<1> QED
  BY <1>1, <1>2 DEF AccountsInv

(* The merchant form looks at both keys before it writes them.             *)
LEMMA EditMerchantKeeps ==
  ASSUME AccountsInv, NEW a \in Staff, NEW m \in Merchants, EditMerchant(a, m)
  PROVE  AccountsInv'
<1>1. PICK u \in Staff \cup {None}, s \in Subjects \cup {None}, on \in BOOLEAN :
        /\ u # None => LinkedTo(u) \subseteq {m}
        /\ s # None => \A n \in Merchants \ {m} : merchant[n].b2core_id # s
        /\ merchant' = [merchant EXCEPT ![m] = [user |-> u, b2core_id |-> s, is_active |-> on]]
  BY DEF EditMerchant
<1>2. [user |-> u, b2core_id |-> s, is_active |-> on] \in Merchant
  BY DEF Merchant
<1>3. /\ merchant' \in [Merchants -> Merchant]
      /\ merchant'[m].user = u /\ merchant'[m].b2core_id = s
      /\ \A n \in Merchants \ {m} : merchant'[n] = merchant[n]
  BY <1>1, <1>2 DEF AccountsInv, AccountsTypeOK
<1>4. Records'
  BY <1>1, <1>3 DEF AccountsInv, AccountsTypeOK, Records, LinkedTo
<1>5. ops' \in 0 .. MaxOps /\ UNCHANGED <<user, groups, web, door, post, history>>
  BY AccountsAssumption DEF EditMerchant, Count, AccountsInv, AccountsTypeOK
<1>6. AccountsTypeOK'
  BY <1>4, <1>5 DEF AccountsInv, AccountsTypeOK, Records, history
<1> QED
  BY <1>5, <1>6, Aside

(* Writing the whole row back under the new password settles the account,  *)
(* and leaves in it only a role that others gave.                          *)
LEMMA SavePasswordKeeps ==
  ASSUME AccountsInv, NEW a \in Staff, save_password(a)
  PROVE  AccountsInv'
<1> DEFINE c == post[a].copy
           password == user[a].password + 1
           new == [user[a] EXCEPT !.role = c.role, !.is_active = c.is_active,
                                  !.must_change_password = c.must_change_password,
                                  !.password = password]
           next == [post[a] EXCEPT !.op = "clear", !.sync = "read",
                                   !.copy = [c EXCEPT !.password = password]]
<1>1. /\ post[a].of = a /\ user[a] \in User /\ Exists(a) /\ c \in Copy
      /\ post[a] \in Post /\ post[a].op = "change"
      /\ expected_permissions(c.role) \subseteq given[a]
  BY Given DEF save_password, Doing, Prepared
<1>2. password \in Nat /\ password # 0
  BY <1>1 DEF User
<1>3. /\ new \in User /\ new.password = password
      /\ new.role = c.role /\ new.granted = user[a].granted
  BY <1>1, <1>2 DEF User, Copy
<1>4. /\ next \in Post /\ next.op = "clear" /\ next.of = a /\ next.copy \in Copy
      /\ next.copy.role = c.role
  BY <1>1, <1>2 DEF Post, Copy, Operations
<1>5. /\ user' = [user EXCEPT ![a] = new]
      /\ chose' = [chose EXCEPT ![a] = password]
      /\ crossed' = [crossed EXCEPT ![a] = FALSE]
      /\ post' = [post EXCEPT ![a] = next]
      /\ UNCHANGED <<groups, merchant, web, door, ops, given>>
  BY <1>1 DEF save_password, AccountsInv, AccountsTypeOK
<1> HIDE DEF new, next, password, c
<1>6. /\ user' \in [Staff -> User \cup {None}]
      /\ \A b \in Staff : Exists(b) => Exists(b)'
  BY <1>3, <1>5, RowWritten DEF AccountsInv
<1>7. /\ chose' \in [Staff -> Nat] /\ crossed' \in [Staff -> BOOLEAN]
      /\ chose'[a] = password /\ user'[a] = new
      /\ \A b \in Staff \ {a} : /\ chose'[b] = chose[b] /\ crossed'[b] = crossed[b]
                                /\ user'[b] = user[b]
  BY <1>2, <1>5 DEF AccountsInv, AccountsTypeOK
<1>8. /\ post' \in [Staff -> Post \cup {Idle}] /\ post'[a] = next
      /\ \A b \in Staff \ {a} : post'[b] = post[b]
  BY <1>4, <1>5 DEF AccountsInv, AccountsTypeOK
<1>9. AccountsTypeOK'
  BY <1>5, <1>6, <1>7, <1>8 DEF AccountsInv, AccountsTypeOK
<1>10. Settled(a)'
  BY <1>2, <1>3, <1>7 DEF Settled
<1>11. Prepared(a, post[a])'
  <2>1. next.op \notin {"idle", "create", "attach", "update", "overrides"}
    BY <1>4
  <2> QED
    BY <1>1, <1>4, <1>5, <1>6, <1>8, <1>10, <2>1 DEF Prepared
<1>12. ASSUME NEW b \in Staff \ {a} PROVE Prepared(b, post[b])'
  <2>1. Settled(b) => Settled(b)'
    BY <1>7 DEF Settled
  <2> QED
    BY <1>5, <1>6, <1>8, <2>1, StillPrepared DEF AccountsInv
<1>13. ASSUME NEW b \in Staff PROVE Chosen(b)' /\ Held(b)'
  <2>1. Chosen(b) /\ Held(b)
    BY DEF AccountsInv
  <2>2. CASE b = a
    BY <1>1, <1>3, <1>5, <1>7, <1>10, <2>1, <2>2 DEF Chosen, Held
  <2>3. CASE b # a
    BY <1>5, <1>7, <2>1, <2>3 DEF Chosen, Held, Settled, Exists
  <2> QED
    BY <2>2, <2>3
<1> QED
  BY <1>9, <1>11, <1>12, <1>13 DEF AccountsInv

(* The mirror of an owner's save puts the account into the group of a role *)
(* that others gave, and takes it out of others.                           *)
LEMMA MirrorKeeps ==
  ASSUME AccountsInv, NEW a \in Staff, sync_user_role_group(a)
  PROVE  AccountsInv'
<1> DEFINE j == post[a]
           r == j.copy.role
<1>1. j.sync # "no" /\ j.op \in {"clear", "login"}
  BY DEF sync_user_role_group, AccountsInv, Prepared
<1>2. /\ j \in Post /\ j.of = a /\ r \in Roles /\ Prepared(a, j)
      /\ expected_permissions(r) \subseteq given[a]
  BY <1>1, Given DEF Prepared, Copy
<1>3. PICK sync \in {"no", "read", "drop", "join"}, stale \in SUBSET Roles :
        post' = [post EXCEPT ![a] = [j EXCEPT !.sync = sync, !.stale = stale]]
  <2>1. groups[a] \ {r} \in SUBSET Roles /\ j.stale \in SUBSET Roles /\ {} \in SUBSET Roles
    BY <1>2 DEF AccountsInv, AccountsTypeOK, Post
  <2>2. CASE j.sync = "read"
    <3>1. post' = [post EXCEPT ![a] = [j EXCEPT
                     !.sync = IF groups[a] \ {r} = {} THEN "join" ELSE "drop",
                     !.stale = groups[a] \ {r}]]
      BY <2>2 DEF sync_user_role_group, AccountsInv, AccountsTypeOK
    <3> QED
      BY <2>1, <3>1
  <2>3. CASE j.sync = "drop"
    <3>1. post' = [post EXCEPT ![a] = [j EXCEPT !.sync = "join", !.stale = {}]]
      BY <2>3 DEF sync_user_role_group, AccountsInv, AccountsTypeOK
    <3> QED
      BY <2>1, <3>1
  <2>4. CASE j.sync = "join"
    <3>1. [j EXCEPT !.sync = "no"] = [j EXCEPT !.sync = "no", !.stale = j.stale]
      BY <1>2 DEF Post
    <3>2. post' = [post EXCEPT ![a] = [j EXCEPT !.sync = "no", !.stale = j.stale]]
      BY <2>4, <3>1 DEF sync_user_role_group, AccountsInv, AccountsTypeOK
    <3> QED
      BY <2>1, <3>2
  <2> QED
    BY <2>2, <2>3, <2>4 DEF sync_user_role_group
<1> DEFINE p == [j EXCEPT !.sync = sync, !.stale = stale]
<1>4. p \in Post /\ Prepared(a, p)
  BY <1>1, <1>2 DEF Post, Prepared
<1>5. \E g \in SUBSET Roles :
        /\ groups' = [groups EXCEPT ![a] = g]
        /\ g \subseteq groups[a] \cup {r}
  <2>1. groups \in [Staff -> SUBSET Roles]
    BY DEF AccountsInv, AccountsTypeOK
  <2>2. CASE groups' = groups
    BY <2>1, <2>2
  <2>3. CASE groups' = [groups EXCEPT ![a] = groups[a] \ j.stale]
    BY <2>1, <2>3
  <2>4. CASE groups' = [groups EXCEPT ![a] = groups[a] \cup {r}]
    BY <1>2, <2>1, <2>4
  <2> QED
    BY <2>2, <2>3, <2>4 DEF sync_user_role_group
<1>6. /\ groups' \in [Staff -> SUBSET Roles]
      /\ \A b \in Staff : \A q \in groups'[b] : expected_permissions(q) \subseteq given[b]
  <2>1. groups \in [Staff -> SUBSET Roles] /\ \A b \in Staff : Held(b)
    BY DEF AccountsInv, AccountsTypeOK
  <2> QED
    BY <1>2, <1>5, <2>1 DEF Held
<1>7. /\ UNCHANGED <<user, merchant, web, door, ops, history>>
      /\ web' \in [Staff -> Login \cup {None}] /\ ops' \in 0 .. MaxOps
  BY DEF sync_user_role_group, AccountsInv, AccountsTypeOK
<1> HIDE DEF p
<1> QED
  BY <1>3, <1>4, <1>6, <1>7, RecordsStand, Moved DEF p

(* The obligation is taken away once the account is settled.               *)
LEMMA ClearFlagKeeps ==
  ASSUME AccountsInv, NEW a \in Staff, clear_flag(a)
  PROVE  AccountsInv'
<1> DEFINE new == [user[a] EXCEPT !.must_change_password = FALSE]
           row == IF post[a].copy.must_change_password THEN new ELSE user[a]
<1>1. /\ post[a].of = a /\ user[a] \in User /\ Exists(a) /\ post[a].copy \in Copy
      /\ Settled(a) /\ Held(a)
  BY Given DEF clear_flag, Doing, Prepared
<1>2. /\ row \in User /\ row.password = user[a].password
      /\ row.role = user[a].role /\ row.granted = user[a].granted
  BY <1>1 DEF User
<1>3. user' = [user EXCEPT ![a] = row]
  <2>1. user' = IF post[a].copy.must_change_password
                THEN [user EXCEPT ![a] = new] ELSE user
    BY <1>1 DEF clear_flag, AccountsInv, AccountsTypeOK
  <2> QED
    BY <1>1, <2>1 DEF AccountsInv, AccountsTypeOK
<1>4. web' \in [Staff -> Login \cup {None}]
  BY <1>1 DEF clear_flag, AccountsInv, AccountsTypeOK, Login, Copy
<1>5. /\ Finish(a) /\ UNCHANGED <<groups, merchant, door, ops, history>>
      /\ groups[a] \in SUBSET Roles /\ groups' = [groups EXCEPT ![a] = groups[a]]
      /\ crossed[a] \in BOOLEAN /\ crossed' = [crossed EXCEPT ![a] = crossed[a]]
      /\ given' = [given EXCEPT ![a] = given[a] \cup {}]
  BY DEF clear_flag, AccountsInv, AccountsTypeOK, history
<1>6. /\ expected_permissions(row.role) \subseteq given[a] \cup {}
      /\ row.granted \subseteq given[a] \cup {}
      /\ \A r \in groups[a] : expected_permissions(r) \subseteq given[a] \cup {}
  BY <1>1, <1>2 DEF Held
<1> HIDE DEF row, new
<1>7. Written(a, row, groups[a], crossed[a], {})
  BY <1>1, <1>2, <1>3, <1>5, <1>6 DEF Written
<1>8. UNCHANGED chose
  BY <1>5 DEF history
<1> QED
  BY <1>1, <1>2, <1>4, <1>5, <1>7, <1>8, EndedWriting

(* The login and its end: what it has loaded is a copy of the row.         *)
LEMMA LoginKeeps ==
  ASSUME AccountsInv, NEW a \in Staff, authenticate(a) \/ login(a)
  PROVE  AccountsInv'
<1>1. CASE authenticate(a)
  <2> DEFINE p == [Of("login", a) EXCEPT !.sync = "read"]
  <2>1. /\ Exists(a) /\ CopyOf(a) \in Copy
        /\ expected_permissions(CopyOf(a).role) \subseteq given[a]
    BY <1>1, LoadedCopy DEF authenticate
  <2>2. p \in Post /\ Prepared(a, p)
    BY <2>1 DEF Of, Idle, Post, Operations, Prepared
  <2>3. /\ post' = [post EXCEPT ![a] = p]
        /\ UNCHANGED <<user, groups, merchant, web, door, ops, history>>
        /\ web' \in [Staff -> Login \cup {None}] /\ ops' \in 0 .. MaxOps
    BY <1>1 DEF authenticate, AccountsInv, AccountsTypeOK
  <2> HIDE DEF p
  <2> QED
    BY <2>2, <2>3, GroupsStand, RecordsStand, Moved
<1>2. CASE login(a)
  <2>1. post[a].copy \in Copy
    BY <1>2, Given DEF login, Doing
  <2>2. /\ post' = [post EXCEPT ![a] = Idle] /\ Prepared(a, Idle)
        /\ UNCHANGED <<user, groups, merchant, door, ops, history>>
        /\ web' \in [Staff -> Login \cup {None}] /\ ops' \in 0 .. MaxOps
    BY <1>2, <2>1 DEF login, Finish, Idle, Prepared, Copy, Login, AccountsInv, AccountsTypeOK
  <2> QED
    BY <2>2, GroupsStand, RecordsStand, Moved
<1> QED
  BY <1>1, <1>2

LEMMA EnrolKeeps ==
  ASSUME AccountsInv, NEW a \in Staff, Enrol(a)
  PROVE  AccountsInv'
<1> DEFINE new == [user[a] EXCEPT !.device = @ + 1, !.enrolled = TRUE]
<1>1. Exists(a) /\ user[a] \in User /\ web[a] \in Login
  BY RowOf DEF Enrol, signed_in, AccountsInv, AccountsTypeOK
<1>2. /\ new \in User /\ new.must_change_password = user[a].must_change_password
      /\ new.password = user[a].password
      /\ new.role = user[a].role /\ new.granted = user[a].granted
  <2>1. user[a].device + 1 \in Nat
    BY <1>1 DEF User
  <2> QED
    BY <1>1, <2>1 DEF User
<1>3. /\ user' = [user EXCEPT ![a] = new]
      /\ web' = [web EXCEPT ![a].device = user[a].device + 1]
      /\ UNCHANGED <<groups, merchant, door, post, ops, history>>
  BY <1>1 DEF Enrol, AccountsInv, AccountsTypeOK
<1>4. web' \in [Staff -> Login \cup {None}]
  BY <1>1, <1>3 DEF AccountsInv, AccountsTypeOK, Login, User
<1> HIDE DEF new
<1>5. /\ user' \in [Staff -> User \cup {None}]
      /\ \A b \in Staff : Exists(b) => Exists(b)'
      /\ user'[a] = new /\ \A b \in Staff \ {a} : user'[b] = user[b]
  BY <1>2, <1>3, RowWritten DEF AccountsInv, AccountsTypeOK
<1>6. AccountsTypeOK'
  BY <1>3, <1>4, <1>5 DEF AccountsInv, AccountsTypeOK, history
<1>7. ASSUME NEW b \in Staff PROVE Settled(b) => Settled(b)'
  <2>1. CASE b = a
    BY <1>2, <1>3, <1>5, <2>1 DEF Settled, history
  <2>2. CASE b # a
    BY <1>3, <1>5, <2>2 DEF Settled, history
  <2> QED
    BY <2>1, <2>2
<1>8. ASSUME NEW b \in Staff PROVE Prepared(b, post[b])'
  BY <1>3, <1>5, <1>7, StillPrepared DEF AccountsInv, history
<1>9. ASSUME NEW b \in Staff PROVE Chosen(b)' /\ Held(b)'
  <2>1. Chosen(b) /\ Held(b)
    BY DEF AccountsInv
  <2>2. CASE b = a
    BY <1>1, <1>2, <1>3, <1>5, <1>7, <2>1, <2>2 DEF Chosen, Held, Exists, history
  <2>3. CASE b # a
    BY <1>3, <1>5, <1>7, <2>1, <2>3 DEF Chosen, Held, Exists, history
  <2> QED
    BY <2>2, <2>3
<1> QED
  BY <1>6, <1>8, <1>9 DEF AccountsInv

(* Signing in through the door, and out of either, touches the sessions.   *)
LEMMA SessionsKeep ==
  ASSUME AccountsInv,
         \/ \E a \in Staff : Logout(a)
         \/ \E s \in Subjects : SignIn(s) \/ End(s)
  PROVE  AccountsInv'
<1> DEFINE Kept == AccountsTypeOK' /\ UNCHANGED <<user, groups, post, history>>
<1>1. ASSUME NEW a \in Staff, Logout(a) PROVE Kept
  BY <1>1 DEF Logout, AccountsInv, AccountsTypeOK, history
<1>2. ASSUME NEW s \in Subjects, SignIn(s) PROVE Kept
  <2>1. \A m \in resolve_merchant(s) : [merchant |-> m, user |-> merchant[m].user] \in Embed
    BY DEF resolve_merchant, AccountsInv, AccountsTypeOK, Merchant, Embed
  <2> QED
    BY <1>2, <2>1 DEF SignIn, AccountsInv, AccountsTypeOK, history
<1>3. ASSUME NEW s \in Subjects, End(s) PROVE Kept
  BY <1>3 DEF End, AccountsInv, AccountsTypeOK, history
<1> QED
  BY <1>1, <1>2, <1>3, Aside

-----------------------------------------------------------------------------
(* Founders have chosen their password, and nobody has begun anything.     *)
LEMMA InitSound == Init => AccountsInv
<1> SUFFICES ASSUME Init PROVE AccountsInv
  OBVIOUS
<1>1. user \in [Staff -> User \cup {None}]
  BY AccountsAssumption DEF Init, User, IDENTITY_AWARE_ROLES, Roles
<1>2. Records
  <2>1. merchant \in [Merchants -> Merchant] /\ \A m \in Merchants : merchant[m].user = None
    <3>1. \A s \in Subjects \cup {None} :
            [user |-> None, b2core_id |-> s, is_active |-> TRUE] \in Merchant
      BY DEF Merchant
    <3>2. \A m \in Merchants : \E s \in Subjects \cup {None} :
            merchant[m] = [user |-> None, b2core_id |-> s, is_active |-> TRUE]
      BY DEF Init
    <3>3. merchant = [m \in Merchants |-> merchant[m]]
      BY DEF Init
    <3> QED
      BY <3>1, <3>2, <3>3
  <2>2. ASSUME NEW m \in Merchants, NEW n \in Merchants,
               merchant[m].b2core_id = merchant[n].b2core_id, merchant[m].b2core_id # None
        PROVE  m = n
    BY <2>1, <2>2 DEF Init, Merchant
  <2> QED
    BY <2>1, <2>2 DEF Records
<1>3. /\ groups \in [Staff -> SUBSET Roles]
      /\ \A a \in Staff : groups[a] = IF Exists(a) THEN {user[a].role} ELSE {}
  BY <1>1 DEF Init, Exists, User
<1>4. given \in [Staff -> SUBSET Permissions] /\ \A a \in Staff : Held(a)
  <2>1. \A a \in Staff : OfGroups(groups[a]) \subseteq Permissions
    BY <1>3, Baseline DEF OfGroups
  <2>2. \A a \in Staff : \A r \in groups[a] : expected_permissions(r) \subseteq given[a]
    BY DEF Init, OfGroups
  <2>3. \A a \in Staff : Exists(a) => user[a].granted = {}
    BY DEF Init, Exists
  <2> QED
    BY <1>3, <2>1, <2>2, <2>3 DEF Init, Held
<1>5. AccountsTypeOK
  <2>1. /\ web \in [Staff -> Login \cup {None}]
        /\ door \in [Subjects -> Embed \cup {None}]
        /\ post \in [Staff -> Post \cup {Idle}]
    BY DEF Init, Login
  <2>2. ops \in 0 .. MaxOps /\ chose \in [Staff -> Nat] /\ crossed \in [Staff -> BOOLEAN]
    BY AccountsAssumption DEF Init
  <2> QED
    BY <1>1, <1>2, <1>3, <1>4, <2>1, <2>2 DEF AccountsTypeOK, Records
<1>6. \A a \in Staff : Prepared(a, post[a]) /\ Chosen(a)
  <2> TAKE a \in Staff
  <2>1. Prepared(a, post[a])
    BY DEF Init, Idle, Prepared
  <2>2. Exists(a) => chose[a] = 1 /\ user[a].password = 1
    BY DEF Init, Exists
  <2> QED
    BY <2>1, <2>2 DEF Chosen, Settled
<1> QED
  BY <1>4, <1>5, <1>6 DEF AccountsInv

(* Every step keeps the invariant.                                         *)
LEMMA StepSound == AccountsInv /\ [Next]_accounts => AccountsInv'
<1> SUFFICES ASSUME AccountsInv, [Next]_accounts PROVE AccountsInv'
  OBVIOUS
<1>1. ASSUME NEW a \in Staff, Owner(a) PROVE AccountsInv'
  BY <1>1, OpenChangeKeeps, SavePasswordKeeps, ClearFlagKeeps, LoginKeeps, MirrorKeeps,
     SessionsKeep, EnrolKeeps DEF Owner
<1>2. ASSUME NEW a \in Staff, Desk(a) PROVE AccountsInv'
  BY <1>2, LoadKeeps, CreateKeeps, CreateAccountKeeps, UpdateAccountKeeps, SetActiveKeeps,
     ResetPasswordKeeps, ResetTwoFactorKeeps, OverridesKeep, LinkKeeps, EditMerchantKeeps
     DEF Desk
<1>3. CASE \E s \in Subjects : SignIn(s) \/ End(s)
  BY <1>3, SessionsKeep
<1>4. CASE UNCHANGED accounts
  <2>1. AccountsTypeOK'
    BY <1>4 DEF AccountsInv, AccountsTypeOK, accounts, history
  <2> QED
    BY <1>4, <2>1, Aside DEF accounts
<1> QED
  BY <1>1, <1>2, <1>3, <1>4 DEF Next

(* What is loaded still holds when it is written, in every behaviour.      *)
THEOREM PreparedAlways == Spec => []AccountsInv
BY InitSound, StepSound, PTL DEF Spec

(* Rows, sessions and requests keep their types, no two records point at   *)
(* one account, and no two are named by one subject.                       *)
THEOREM TypeCorrect == Spec => []AccountsTypeOK
<1>1. AccountsInv => AccountsTypeOK
  BY DEF AccountsInv
<1> QED
  BY <1>1, PreparedAlways, PTL

(* The panel at a subject's door is that of the one record its session was *)
(* opened for.                                                             *)
LEMMA DoorShowsOne ==
  ASSUME AccountsTypeOK, NEW s \in Subjects, NEW m \in PanelAtDoor(s)
  PROVE  /\ m \in Merchants /\ m \in get_merchant(s)
         /\ m \in require_merchant(merchant[m].user)
<1>1. PICK n \in get_merchant(s) : m \in require_merchant(merchant[n].user)
  BY DEF PanelAtDoor
<1>2. /\ n \in Merchants /\ merchant[n].user # None
      /\ m \in Merchants /\ merchant[m].user = merchant[n].user
  BY <1>1 DEF get_merchant, resolve_merchant, require_merchant, LinkedTo
<1>3. m = n
  BY <1>2 DEF AccountsTypeOK
<1> QED
  BY <1>1, <1>2, <1>3

(* The panel a subject's browser is shown is that of the record its token  *)
(* was resolved to, under the account it had, still named by the subject.  *)
THEOREM DoorServesItsSession == Spec => []ServedAsSignedIn
<1>1. AccountsInv => ServedAsSignedIn
  BY DoorShowsOne DEF AccountsInv, ServedAsSignedIn, get_merchant, resolve_merchant
<1> QED
  BY <1>1, PreparedAlways, PTL

(* An account shown a merchant panel holds no permission over client       *)
(* identity, by its grants or by any group it is in.                       *)
THEOREM PanelsHideIdentity == Spec => []MerchantsSeeNoIdentity
<1>1. ASSUME NEW a, require_merchant(a) # {}
      PROVE  /\ user[a].role = "merchant"
             /\ MERCHANT_FORBIDDEN \cap (OfGroups(groups[a]) \cup user[a].granted)
                  \subseteq user[a].denied
  BY <1>1 DEF require_merchant, assert_merchant_anonymity, has_perm, get_all_permissions
<1>2. AccountsInv => MerchantsSeeNoIdentity
  <2> SUFFICES ASSUME AccountsInv, NEW a \in Shown PROVE require_merchant(a) # {}
    BY <1>1 DEF MerchantsSeeNoIdentity
  <2>1. CASE a \in Staff /\ PanelOnLogin(a) # {}
    BY <2>1 DEF PanelOnLogin
  <2>2. CASE \E s \in Subjects : \E m \in PanelAtDoor(s) : a = merchant[m].user
    BY <2>2, DoorShowsOne DEF AccountsInv
  <2> QED
    BY <2>1, <2>2 DEF Shown
<1> QED
  BY <1>2, PreparedAlways, PTL

(* Whoever works under an account has replaced the password the desk       *)
(* handed out for it, the first or a later one, unless it was handed out   *)
(* between the statements of a change of the owner's own.                  *)
THEOREM HandedOutAreReplaced == Spec => []HandedOutIsReplaced
<1>1. AccountsInv => HandedOutIsReplaced
  BY WorkerExists DEF AccountsInv, HandedOutIsReplaced, Chosen, Settled, Works, free
<1> QED
  BY <1>1, PreparedAlways, PTL

(* What an account may do was given to it by others, whatever its own      *)
(* requests and logins have written back.                                  *)
THEOREM NobodyRaisesThemselves == Spec => []GivenByOthers
<1>1. AccountsInv => GivenByOthers
  BY DEF AccountsInv, GivenByOthers, Held, get_all_permissions, OfGroups
<1> QED
  BY <1>1, PreparedAlways, PTL

=============================================================================
