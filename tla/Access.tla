------------------------------- MODULE Access -------------------------------
(* Who may do what and see what: services/auth_service.py, account_service.py, *)
(* api/routes_users.py, routes_accounts.py and the guard of main.py, over the  *)
(* second factor.                                                              *)
(*                                                                             *)
(* The middleware runs on the event loop, one request at a time: it finds or   *)
(* makes the user and admits the call or not.  The route runs on a thread: it  *)
(* loads and checks, and then writes.                                          *)
EXTENDS SecondFactor

CONSTANTS Accounts, Rows,
  Snapshots,   \* the rows that go with their account: balances, holdings, values
  Pages,       \* the pages an owner may block
  Nobody, NoAccount, NoRow,
  Fields,      \* what an owner changes of a user: the bodies of PATCH /users/{id}
  Households   \* what the runs start from

VARIABLES
  users, accounts,
  rows,      \* the account of each row; NoAccount for one that lost it
  calls,     \* calls still to be made (a bound)
  may,       \* the kinds of call of this household
  parted     \* two changes of users overlapped (history)

Kinds == FactorKinds \cup
  {"visit", "row", "tick", "ai", "update_user", "delete_user",
   "create_account", "update_account", "delete_account", "merge_account"}

vars == <<now, factorVars, at, users, accounts, rows, calls, may, parted>>

ROLES == {"owner", "member", "viewer", "child"}
Statuses == {"pending", "approved", "disabled"}
WRITE_ROLES == {"owner", "member"}
ADMIN_ROLES == {"owner"}

NoUser == [role |-> "none", status |-> "none", policy |-> "optional", blocked |-> {}]
\* A row with the fields a PATCH carries set.
Set(row, fields) == [f \in DOMAIN row |-> IF f \in DOMAIN fields THEN fields[f] ELSE row[f]]

UserRow == [role : ROLES \cup {"none"}, status : Statuses \cup {"none"},
            policy : {"optional", "required"}, blocked : SUBSET Pages]
AccountRow == [owner : People \cup {Nobody}, shared : BOOLEAN]
Account(owner, shared) == [owner |-> owner, shared |-> shared]
There(u) == users[u] # NoUser
Open(a) == accounts[a] # NoAccount

can_write(role) == role \in WRITE_ROLES
is_admin(role) == role \in ADMIN_ROLES

ASSUME NamesAssumption ==
  /\ IsFiniteSet(People) /\ Nobody \notin People
  /\ NoAccount \notin Accounts \cup AccountRow /\ NoRow \notin Accounts \cup {NoAccount}
ASSUME FieldsAssumption == \A fields \in Fields, row \in UserRow : Set(row, fields) \in UserRow

\* A household at rest: who is there has an approved owner, and whoever has a second
\* factor has a secret of their own.
ASSUME HouseholdsAssumption ==
  \A h \in Households :
    /\ h.users \in [People -> UserRow] /\ h.factor \in [People -> Factor]
    /\ h.accounts \in [Accounts -> AccountRow \cup {NoAccount}]
    /\ h.rows \in [Rows -> Accounts \cup {NoAccount, NoRow}]
    /\ h.calls \in Nat /\ h.may \subseteq Kinds
    /\ \/ \E u \in People : h.users[u].role = "owner" /\ h.users[u].status = "approved"
       \/ \A u \in People : h.users[u] = NoUser
    /\ \A u \in People : h.factor[u].secret <= 1 /\ h.factor[u].pending = NoSecret
    /\ \A u, v \in People : h.factor[u].secret = h.factor[v].secret => u = v \/ h.factor[u].secret = NoSecret

----------------------------------------------------------------------------
(* Who sees which account *)

_shared_or_own(a, u) ==
  accounts[a].owner = Nobody \/ accounts[a].shared \/ accounts[a].owner = u

visible_account_ids(u) ==
  {a \in Accounts : Open(a) /\ (is_admin(users[u].role) \/ _shared_or_own(a, u))}

\* A row with no account is for owners only.
Sees(u, r) ==
  /\ rows[r] # NoRow
  /\ is_admin(users[u].role) \/ rows[r] \in visible_account_ids(u)

----------------------------------------------------------------------------
(* The guard *)

Page(kind) ==
  CASE kind \in {"create_account", "update_account", "delete_account", "merge_account"} -> "accounts"
    [] kind \in FactorKinds -> "mfa"
    [] kind \in {"update_user", "delete_user"} -> "users"
    [] kind = "ai" -> "ai"

SelfService(kind) == Page(kind) = "mfa"
blocked_api_prefixes(u) == IF is_admin(users[u].role) THEN {} ELSE users[u].blocked
MfaSetupRequired(u) == users[u].policy = "required" /\ ~factor[u].on
MfaOk(u, token) == factor[u].on => get_valid_session(u, token) # {}

\* Every call of the model changes something, so none is a safe method; a child is
\* admitted to its allowance only.
_access_denied(u, kind, token) ==
  \/ users[u].status # "approved"
  \/ MfaSetupRequired(u) /\ ~SelfService(kind)
  \/ ~MfaOk(u, token) /\ ~SelfService(kind)
  \/ ~can_write(users[u].role) /\ ~SelfService(kind)
  \/ users[u].role = "child"
  \/ Page(kind) \in blocked_api_prefixes(u)

require_owner(u) == users[u].status # "disabled" /\ is_admin(users[u].role)
require_owner_step_up(u, token) ==
  /\ require_owner(u)
  /\ factor[u].on /\ factor[u].scope = "app_admin" => has_recent_step_up(u, token)

\* A new identity makes a user: the first an owner, the others to be approved.
_create_user(u) ==
  [NoUser EXCEPT !.role = IF \A v \in People : ~There(v) THEN "owner" ELSE "member",
                 !.status = IF \A v \in People : ~There(v) THEN "approved" ELSE "pending"]

resolve_current_user(u) ==
  /\ ~There(u) /\ "visit" \in may
  /\ users' = [users EXCEPT ![u] = _create_user(u)]
  /\ UNCHANGED <<now, factorVars, at, accounts, rows, calls, may, parted>>

----------------------------------------------------------------------------
(* The calls.  Each is a record of what the request carries. *)

Tokens(u) == {NoToken} \cup {s.token : s \in sessions[u]}

Asked(u, kind, token) ==
  CASE kind \in FactorKinds ->
         [step : {"admitted"}, kind : {kind}, user : {u}, token : {token},
          code : IF kind = "backup_codes" THEN {Wrong} ELSE Typeable(u),
          scope : IF kind = "enable" THEN Scopes ELSE {"app_admin"}, seen : {Off}, counter : {NoCounter}]
    [] kind = "ai" -> [step : {"admitted"}, kind : {kind}, user : {u}, token : {token}]
    [] kind = "update_user" ->
         [step : {"admitted"}, kind : {kind}, user : {u}, token : {token},
          target : People, fields : Fields, row : {NoUser}]
    [] kind = "delete_user" ->
         [step : {"admitted"}, kind : {kind}, user : {u}, token : {token}, target : People]
    [] kind = "create_account" ->
         [step : {"admitted"}, kind : {kind}, user : {u}, token : {token},
          owner : People \cup {Nobody}, shared : BOOLEAN]
    [] kind = "update_account" ->
         [step : {"admitted"}, kind : {kind}, user : {u}, token : {token}, account : Accounts,
          fields : [{"owner"} -> People \cup {Nobody}] \cup [{"shared"} -> BOOLEAN], row : {Account(Nobody, FALSE)}]
    [] kind = "delete_account" ->
         [step : {"admitted"}, kind : {kind}, user : {u}, token : {token}, account : Accounts, held : {{}}]
    [] kind = "merge_account" ->
         [step : {"admitted"}, kind : {kind}, user : {u}, token : {token},
          account : Accounts, target : Accounts, seen : {<<>>}]

_auth_guard(c) ==
  /\ at[c] = Idle /\ calls > 0
  /\ \E u \in {v \in People : There(v)}, kind \in may \ {"visit", "row", "tick"} :
       \E token \in Tokens(u) :
         /\ ~_access_denied(u, kind, token)
         /\ \E call \in Asked(u, kind, token) : at' = [at EXCEPT ![c] = call]
  /\ calls' = calls - 1
  /\ UNCHANGED <<now, factorVars, users, accounts, rows, may, parted>>

Checks(c, kind) == Under(c, kind, "admitted") /\ UNCHANGED <<now, factorVars, users, accounts, rows, calls, may, parted>>
Writes(c, kind) == Under(c, kind, "writing") /\ UNCHANGED <<now, calls, may>>
Goes(c, call) == at' = [at EXCEPT ![c] = [call EXCEPT !.step = "writing"]]

----------------------------------------------------------------------------
(* Users *)

approved_owners == {u \in People : users[u].role = "owner" /\ users[u].status = "approved"}
_is_last_owner(u) == u \in approved_owners /\ Cardinality(approved_owners) <= 1

\* The last owner may not be demoted, but may be disabled by another.
_validate_user_update_RoleOnly(actor, target, fields) ==
  LET new == Set(users[target], fields) IN
  /\ ~(actor = target /\ "status" \in DOMAIN fields /\ fields.status = "disabled")
  /\ _is_last_owner(target) => new.role = "owner"

_validate_user_update(actor, target, fields) ==
  LET new == Set(users[target], fields) IN
  /\ ~(actor = target /\ "status" \in DOMAIN fields /\ fields.status = "disabled")
  /\ _is_last_owner(target) => new.role = "owner" /\ new.status = "approved"

\* The load, the step-up, the target and the checks.
UpdateUserCheck(c) ==
  LET call == at[c] IN
  /\ Checks(c, "update_user")
  /\ IF /\ There(call.user) /\ require_owner_step_up(call.user, call.token)
        /\ There(call.target) /\ _validate_user_update(call.user, call.target, call.fields)
       THEN Goes(c, [call EXCEPT !.row = users[call.target]])
       ELSE Ends(c)

\* Another call had checked when this one wrote.
Parts(c) ==
  parted' = (parted \/ \E d \in Callers \ {c} : Writing(d) /\ at[d].kind \in {"update_user", "delete_user"})

\* An UPDATE of a row that is gone fails.
_apply_user_changes(c) ==
  LET call == at[c] IN
  /\ Writes(c, "update_user")
  /\ users' = IF There(call.target)
                THEN [users EXCEPT ![call.target] = Over(@, call.row, Set(call.row, call.fields))]
                ELSE users
  /\ Parts(c) /\ Ends(c)
  /\ UNCHANGED <<factorVars, accounts, rows>>

DeleteUserCheck(c) ==
  LET call == at[c] IN
  /\ Checks(c, "delete_user")
  /\ IF /\ There(call.user) /\ require_owner_step_up(call.user, call.token)
        /\ There(call.target) /\ call.user # call.target /\ ~_is_last_owner(call.target)
       THEN Goes(c, call)
       ELSE Ends(c)

\* The sessions and codes go with the user, the accounts are nobody's; the user's
\* own calls find no row, unless they had loaded all they need.
delete_user(c) ==
  LET u == at[c].target IN
  /\ Writes(c, "delete_user")
  /\ users' = [users EXCEPT ![u] = NoUser]
  /\ accounts' = [a \in Accounts |-> IF Open(a) /\ accounts[a].owner = u
                                       THEN [accounts[a] EXCEPT !.owner = Nobody] ELSE accounts[a]]
  /\ factor' = [factor EXCEPT ![u] = Off]
  /\ codes' = [codes EXCEPT ![u] = NoCodes]
  /\ sessions' = [sessions EXCEPT ![u] = {}]
  /\ at' = [d \in Callers |->
              IF d = c \/ (at[d] # Idle /\ at[d].user = u /\ (at[d].step = "admitted" \/ at[d].kind \in FactorKinds))
                THEN Idle ELSE at[d]]
  /\ Parts(c)
  /\ UNCHANGED <<issued, failed, asked, entered, clashed, lapsed, rows>>

----------------------------------------------------------------------------
(* Accounts *)

CreateAccountCheck(c) ==
  LET call == at[c] IN
  /\ Checks(c, "create_account")
  /\ IF ~There(call.user) THEN Ends(c)
     ELSE IF ~is_admin(users[call.user].role) THEN Goes(c, [call EXCEPT !.owner = call.user])
     ELSE IF call.owner = Nobody \/ There(call.owner) THEN Goes(c, call) ELSE Ends(c)

\* The foreign key refuses an owner who is gone.
create_account(c) ==
  LET call == at[c] IN
  /\ Writes(c, "create_account")
  /\ IF call.owner # Nobody /\ ~There(call.owner)
       THEN UNCHANGED accounts
       ELSE \E a \in Accounts : ~Open(a) /\ accounts' = [accounts EXCEPT ![a] = Account(call.owner, call.shared)]
  /\ Ends(c)
  /\ UNCHANGED <<factorVars, users, rows, parted>>

UpdateAccountCheck(c) ==
  LET call == at[c]
      row == accounts[call.account] IN
  /\ Checks(c, "update_account")
  /\ IF /\ There(call.user) /\ call.account \in visible_account_ids(call.user)
        /\ \/ is_admin(users[call.user].role)
           \/ row.owner = call.user /\ ("owner" \in DOMAIN call.fields => call.fields.owner = row.owner)
        /\ "owner" \in DOMAIN call.fields /\ call.fields.owner # Nobody => There(call.fields.owner)
       THEN Goes(c, [call EXCEPT !.row = row])
       ELSE Ends(c)

update_account(c) ==
  LET call == at[c]
      new == Set(call.row, call.fields) IN
  /\ Writes(c, "update_account")
  /\ accounts' = IF Open(call.account) /\ (new.owner \in {Nobody, call.row.owner} \/ There(new.owner))
                   THEN [accounts EXCEPT ![call.account] = Over(@, call.row, new)]
                   ELSE accounts
  /\ Ends(c)
  /\ UNCHANGED <<factorVars, users, rows, parted>>

Held(a) == {r \in Rows : rows[r] = a}
account_usage(a) == Held(a)

DeleteAccountCheck(c) ==
  LET call == at[c] IN
  /\ Checks(c, "delete_account")
  /\ IF There(call.user) /\ require_owner(call.user) /\ Open(call.account) /\ account_usage(call.account) = {}
       THEN Goes(c, [call EXCEPT !.held = Held(call.account)])
       ELSE Ends(c)

\* What the foreign keys do with the rows of an account that goes.
WithoutAccount(a) ==
  [r \in Rows |-> IF rows[r] # a THEN rows[r] ELSE IF r \in Snapshots THEN NoRow ELSE NoAccount]

delete_account(c) ==
  LET a == at[c].account IN
  /\ Writes(c, "delete_account")
  /\ accounts' = [accounts EXCEPT ![a] = NoAccount]
  /\ rows' = WithoutAccount(a)
  /\ Ends(c)
  /\ UNCHANGED <<factorVars, users, parted>>

_is_private(a) == accounts[a].owner # Nobody /\ ~accounts[a].shared

\* Only a shared target is taken to be wider.
_assert_merge_allowed_SharedOnly(source, target) == _is_private(source) => ~accounts[target].shared

_assert_merge_allowed(source, target) ==
  _is_private(source) => ~(accounts[target].shared \/ accounts[target].owner # accounts[source].owner)

MergeAccountCheck(c) ==
  LET call == at[c] IN
  /\ Checks(c, "merge_account")
  /\ IF /\ There(call.user) /\ require_owner(call.user)
        /\ call.account # call.target /\ Open(call.account) /\ Open(call.target)
        /\ _assert_merge_allowed(call.account, call.target)
       THEN Goes(c, [call EXCEPT !.seen = <<accounts[call.account], accounts[call.target]>>])
       ELSE Ends(c)

\* The rows whose account a merge sets: all of the tables that refer to one.
_ACCOUNT_REFS_NoSnapshots == Rows \ Snapshots
_ACCOUNT_REFS == Rows
Repointed(source, target) ==
  [r \in Rows |-> IF r \in _ACCOUNT_REFS /\ rows[r] = source THEN target ELSE WithoutAccount(source)[r]]

\* The foreign key refuses a target that is gone, if there is a row to move.
merge_account(c) ==
  LET call == at[c] IN
  /\ Writes(c, "merge_account")
  /\ IF ~Open(call.target) /\ Held(call.account) # {}
       THEN UNCHANGED <<accounts, rows>>
       ELSE /\ rows' = Repointed(call.account, call.target)
            /\ accounts' = [accounts EXCEPT ![call.account] = NoAccount]
  /\ Ends(c)
  /\ UNCHANGED <<factorVars, users, parted>>

\* An import or an edit stores a row in an account.
AddRow(r) ==
  /\ "row" \in may /\ rows[r] = NoRow
  /\ \E a \in Accounts : Open(a) /\ rows' = [rows EXCEPT ![r] = a]
  /\ UNCHANGED <<now, factorVars, at, users, accounts, calls, may, parted>>

----------------------------------------------------------------------------

Tick ==
  /\ "tick" \in may /\ now < MaxNow
  /\ now' = now + 1
  /\ UNCHANGED <<factorVars, at, users, accounts, rows, calls, may, parted>>

Init ==
  /\ FactorInit
  /\ \E h \in Households : users = h.users /\ accounts = h.accounts /\ rows = h.rows /\ may = h.may
                             /\ calls = h.calls /\ factor = h.factor
  /\ parted = FALSE

Factors(c) == FactorStep(c) /\ UNCHANGED <<now, users, accounts, rows, calls, may, parted>>

UserStep(c) ==
  \/ UpdateUserCheck(c) \/ _apply_user_changes(c)
  \/ DeleteUserCheck(c) \/ delete_user(c)

AccountStep(c) ==
  \/ CreateAccountCheck(c) \/ create_account(c)
  \/ UpdateAccountCheck(c) \/ update_account(c)
  \/ DeleteAccountCheck(c) \/ delete_account(c)
  \/ MergeAccountCheck(c) \/ merge_account(c)

Next ==
  \/ Tick
  \/ \E u \in People : resolve_current_user(u)
  \/ \E r \in Rows : AddRow(r)
  \/ \E c \in Callers : _auth_guard(c) \/ Factors(c) \/ UserStep(c) \/ AccountStep(c)

Spec == Init /\ [][Next]_vars

----------------------------------------------------------------------------
(* Properties *)

\* A household that has users has an approved owner, unless two calls that change or
\* delete users overlapped ("guarded against losing the last owner", auth_service).
OwnerLeft == approved_owners # {} \/ parted \/ \A u \in People : ~There(u)

\* A row leaves its account only when the account is merged, and then nobody sees it
\* who did not, unless one of the two accounts was changed while the merge ran
\* (_assert_merge_allowed); or when an account that was empty is deleted and the row
\* came to it in between.
MovesAreSafe ==
  [][\A r \in Rows : rows[r] \in Accounts /\ rows'[r] # rows[r] =>
       \E c \in Callers :
         /\ at[c] # Idle /\ Writing(c) /\ at'[c] = Idle
         /\ \/ /\ at[c].kind = "merge_account" /\ rows'[r] = at[c].target
               /\ <<accounts[at[c].account], accounts[at[c].target]>> = at[c].seen =>
                    \A u \in People : Sees(u, r)' => Sees(u, r)
            \/ at[c].kind = "delete_account" /\ r \notin at[c].held]_vars

=============================================================================
