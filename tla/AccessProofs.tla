---------------------------- MODULE AccessProofs ----------------------------
(* What Access and SecondFactor promise, proved for every household, number of *)
(* people and threads, limit and length of the clock:                          *)
(*   OwnerTheorem     a household keeps an approved owner;                     *)
(*   MovesTheorem     a row changes its account only as a merge or a deletion  *)
(*                    may;                                                     *)
(*   SessionsTheorem  the sessions of a user are few, of the live secret, and  *)
(*                    no code has opened two;                                  *)
(*   ThrottlesTheorem the throttles are passed by the calls in flight only.    *)
EXTENDS Access, FiniteSetTheorems, WellFoundedInduction, TLAPS

Steps == {"admitted", "writing", "bad"}
Code == {"totp", "backup", "wrong"} \X Nat \X Nat
CodeBook == [issued : SUBSET Code, used : SUBSET Code]
Session == [token : Nat, expires : Nat, stepped : Nat, secret : Nat, again : BOOLEAN]

FactorCall == [step : Steps, kind : FactorKinds, user : People, token : Nat,
               code : Code, scope : Scopes, seen : Factor, counter : Nat]
AiCall == [step : Steps, kind : {"ai"}, user : People, token : Nat]
UpdateUserCall == [step : Steps, kind : {"update_user"}, user : People, token : Nat,
                   target : People, fields : Fields, row : UserRow]
DeleteUserCall == [step : Steps, kind : {"delete_user"}, user : People, token : Nat, target : People]
CreateAccountCall == [step : Steps, kind : {"create_account"}, user : People, token : Nat,
                      owner : People \cup {Nobody}, shared : BOOLEAN]
UpdateAccountCall == [step : Steps, kind : {"update_account"}, user : People, token : Nat, account : Accounts,
                      fields : [{"owner"} -> People \cup {Nobody}] \cup [{"shared"} -> BOOLEAN],
                      row : AccountRow]
DeleteAccountCall == [step : Steps, kind : {"delete_account"}, user : People, token : Nat,
                      account : Accounts, held : SUBSET Rows]
MergeAccountCall == [step : Steps, kind : {"merge_account"}, user : People, token : Nat,
                     account : Accounts, target : Accounts,
                     seen : {<<>>} \cup (AccountRow \cup {NoAccount}) \X (AccountRow \cup {NoAccount})]
Calls == FactorCall \cup AiCall \cup UpdateUserCall \cup DeleteUserCall
         \cup CreateAccountCall \cup UpdateAccountCall \cup DeleteAccountCall \cup MergeAccountCall

TypeOK ==
  /\ users \in [People -> UserRow]
  /\ accounts \in [Accounts -> AccountRow \cup {NoAccount}]
  /\ rows \in [Rows -> Accounts \cup {NoAccount, NoRow}]
  /\ calls \in Nat /\ may \subseteq Kinds /\ parted \in BOOLEAN
  /\ now \in Nat \ {0} /\ issued \in Nat
  /\ factor \in [People -> Factor] /\ codes \in [People -> CodeBook]
  /\ sessions \in [People -> SUBSET Session]
  /\ entered \subseteq Code /\ clashed \subseteq People
  /\ at \in [Callers -> Calls \cup {Idle}]

-------------------------------------------------------------------------------
(* Types                                                                       *)
\* Every code that can be typed is one.
LEMMA TypeableTypes ==
  ASSUME TypeOK, NEW u \in People PROVE Typeable(u) \subseteq Code
<1>1. ASSUME NEW s \in {factor[u].secret, factor[u].pending}, NEW k \in (now - 1)..now
      PROVE  Totp(s, k) \in Code
  BY DEF TypeOK, Totp, Code, Factor
<1>2. codes[u].issued \subseteq Code BY DEF TypeOK, CodeBook
<1>3. Wrong \in Code BY DEF Wrong, Code
<1> QED BY <1>1, <1>2, <1>3 DEF Typeable

\* What a request carries is a call of its kind (Asked).
LEMMA AskedTypes ==
  ASSUME TypeOK, NEW u \in People, NEW kind \in Kinds \ {"visit", "row", "tick"}, NEW token \in Tokens(u),
         NEW call \in Asked(u, kind, token)
  PROVE  /\ call \in Calls /\ call.step = "admitted" /\ call.kind = kind /\ call.user = u
<1>1. token \in Nat BY DEF Tokens, TypeOK, Session, NoToken
<1> USE DEF Asked, Kinds, Steps, Calls
<1>2. CASE kind \in FactorKinds
  <2>1. Typeable(u) \subseteq Code /\ Wrong \in Code BY TypeableTypes DEF Wrong, Code
  <2>2. Off \in Factor BY DEF Off, Factor, Scopes, NoSecret, NoCounter
  <2>3. call \in [step : {"admitted"}, kind : {kind}, user : {u}, token : {token},
                  code : IF kind = "backup_codes" THEN {Wrong} ELSE Typeable(u),
                  scope : IF kind = "enable" THEN Scopes ELSE {"app_admin"}, seen : {Off}, counter : {NoCounter}]
    BY <1>2 DEF FactorKinds
  <2>4. PICK code \in Code, scope \in Scopes :
          call = [step |-> "admitted", kind |-> kind, user |-> u, token |-> token,
                  code |-> code, scope |-> scope, seen |-> Off, counter |-> NoCounter]
    BY <2>1, <2>3 DEF Scopes
  <2> QED BY <1>1, <1>2, <2>2, <2>4 DEF FactorCall, NoCounter
<1>3. CASE kind = "ai" BY <1>1, <1>3 DEF AiCall, FactorKinds
<1>4. CASE kind = "update_user"
  <2>1. NoUser \in UserRow BY DEF NoUser, UserRow
  <2> QED BY <1>1, <1>4, <2>1 DEF UpdateUserCall, FactorKinds
<1>5. CASE kind = "delete_user" BY <1>1, <1>5 DEF DeleteUserCall, FactorKinds
<1>6. CASE kind = "create_account" BY <1>1, <1>6 DEF CreateAccountCall, FactorKinds
<1>7. CASE kind = "update_account"
  <2>1. Account(Nobody, FALSE) \in AccountRow BY DEF Account, AccountRow
  <2> QED BY <1>1, <1>7, <2>1 DEF UpdateAccountCall, FactorKinds
<1>8. CASE kind = "delete_account" BY <1>1, <1>8 DEF DeleteAccountCall, FactorKinds
<1>9. CASE kind = "merge_account" BY <1>1, <1>9 DEF MergeAccountCall, FactorKinds
<1> QED BY <1>2, <1>3, <1>4, <1>5, <1>6, <1>7, <1>8, <1>9

\* The kind of a call tells what it carries.
LEMMA KindTypes ==
  ASSUME TypeOK, NEW c \in Callers, at[c] # Idle
  PROVE  /\ at[c].step \in Steps /\ at[c].user \in People
         /\ at[c].kind \in FactorKinds => at[c] \in FactorCall
         /\ at[c].kind = "ai" => at[c] \in AiCall
         /\ at[c].kind = "update_user" => at[c] \in UpdateUserCall
         /\ at[c].kind = "delete_user" => at[c] \in DeleteUserCall
         /\ at[c].kind = "create_account" => at[c] \in CreateAccountCall
         /\ at[c].kind = "update_account" => at[c] \in UpdateAccountCall
         /\ at[c].kind = "delete_account" => at[c] \in DeleteAccountCall
         /\ at[c].kind = "merge_account" => at[c] \in MergeAccountCall
  BY DEF TypeOK, Calls, FactorCall, AiCall, UpdateUserCall, DeleteUserCall, CreateAccountCall,
         UpdateAccountCall, DeleteAccountCall, MergeAccountCall, FactorKinds

\* A thread ends its call, or goes on with it.
LEMMA EndTypes ==
  ASSUME TypeOK, NEW c \in Callers, Ends(c) PROVE at' \in [Callers -> Calls \cup {Idle}]
  BY DEF TypeOK, Ends

\* A call that goes on to its write stays a call.
LEMMA GoTypes ==
  ASSUME TypeOK, NEW c \in Callers, NEW call \in Calls, Goes(c, call)
  PROVE  at' \in [Callers -> Calls \cup {Idle}]
<1>1. [call EXCEPT !.step = "writing"] \in Calls
  BY DEF Calls, FactorCall, AiCall, UpdateUserCall, DeleteUserCall, CreateAccountCall,
         UpdateAccountCall, DeleteAccountCall, MergeAccountCall, Steps
<1> QED BY <1>1 DEF TypeOK, Goes

\* An UPDATE sets a well-formed row.
LEMMA OverTypes ==
  /\ \A held, seen, new \in Factor : Over(held, seen, new) \in Factor
  /\ \A held, seen, new \in UserRow : Over(held, seen, new) \in UserRow
  /\ \A held, seen, new \in AccountRow : Over(held, seen, new) \in AccountRow
<1>1. ASSUME NEW held \in Factor, NEW seen \in Factor, NEW new \in Factor
      PROVE Over(held, seen, new) \in Factor
  BY DEF Over, Factor
<1>2. ASSUME NEW held \in UserRow, NEW seen \in UserRow, NEW new \in UserRow
      PROVE Over(held, seen, new) \in UserRow
  BY DEF Over, UserRow
<1>3. ASSUME NEW held \in AccountRow, NEW seen \in AccountRow, NEW new \in AccountRow
      PROVE Over(held, seen, new) \in AccountRow
  BY DEF Over, AccountRow
<1> QED BY <1>1, <1>2, <1>3

\* The session that verify_and_open opens.
LEMMA OpenedTypes ==
  ASSUME TypeOK, NEW c \in Callers, at[c] \in FactorCall PROVE Opened(c, issued + 1) \in Session
  BY LimitsAssumption DEF TypeOK, FactorCall, Factor, Session, Opened

\* Types are kept by the routes of the second factor and the AI throttle, ...
LEMMA FactorTypes ==
  ASSUME TypeOK, NEW c \in Callers, Factors(c) PROVE TypeOK'
<1> DEFINE call == at[c]
<1> USE DEF Factors, Under, Fails, factorVars
<1>1. CASE AiCheck(c)
  <2>1. at[c] \in AiCall BY <1>1, KindTypes DEF AiCheck, Idle
  <2>2. [at[c] EXCEPT !.step = "writing"] \in AiCall BY <2>1 DEF AiCall, Steps
  <2> QED BY <1>1, <2>2, EndTypes DEF AiCheck, TypeOK, Calls
<1>2. CASE AiRecord(c) BY <1>2, EndTypes DEF AiRecord, TypeOK
<1>3. CASE CheckCode(c)
  <2>1. at[c] \in FactorCall BY <1>3, KindTypes DEF CheckCode, Idle
  <2>2. factor[at[c].user] \in Factor BY <2>1 DEF FactorCall, TypeOK
  <2>3. matched_counter(factor[at[c].user].secret, at[c].code) \in Nat
    BY <2>1 DEF matched_counter, FactorCall, Code, NoCounter
  <2>4. ASSUME NEW step \in Steps, NEW seen \in Factor, NEW counter \in Nat
        PROVE  [at[c] EXCEPT !.step = step, !.seen = seen, !.counter = counter] \in FactorCall
    BY <2>1 DEF FactorCall
  <2>5. at' \in [Callers -> Calls \cup {Idle}]
    <3>1. CASE Ends(c) BY <3>1, EndTypes
    <3>2. CASE ~Ends(c)
      <4>1. PICK step \in Steps :
              at' = [at EXCEPT ![c] = [at[c] EXCEPT !.step = step, !.seen = factor[at[c].user],
                                        !.counter = matched_counter(factor[at[c].user].secret, at[c].code)]]
        BY <1>3, <3>2 DEF CheckCode, Steps
      <4>2. [at[c] EXCEPT !.step = step, !.seen = factor[at[c].user],
                          !.counter = matched_counter(factor[at[c].user].secret, at[c].code)] \in Calls
        BY <2>2, <2>3, <2>4 DEF Calls
      <4> QED BY <4>1, <4>2 DEF TypeOK
    <3> QED BY <3>1, <3>2
  <2> QED BY <1>3, <2>5 DEF CheckCode, TypeOK
<1>4. CASE _bad_code(c) BY <1>4, EndTypes DEF _bad_code, TypeOK
<1>5. ASSUME NEW u \in People, NEW new \in Factor, u = at[c].user, at[c] \in FactorCall, Saves(c, new)
      PROVE  factor' \in [People -> Factor] /\ clashed' \subseteq People /\ at' \in [Callers -> Calls \cup {Idle}]
  BY <1>5, OverTypes, EndTypes DEF Saves, TypeOK, FactorCall
<1>6. at[c].step = "writing" /\ at[c].kind \in FactorKinds => at[c] \in FactorCall BY KindTypes DEF Idle
<1>7. CASE start_enrolment(c)
  <2>1. at[c] \in FactorCall BY <1>6, <1>7 DEF start_enrolment, FactorKinds
  <2>2. [at[c].seen EXCEPT !.pending = issued + 1] \in Factor BY <2>1 DEF TypeOK, FactorCall, Factor
  <2> QED BY <1>5, <1>7, <2>1, <2>2 DEF start_enrolment, TypeOK, FactorCall
<1>8. CASE enable(c)
  <2>1. at[c] \in FactorCall BY <1>6, <1>8 DEF enable, FactorKinds
  <2>2. [on |-> TRUE, secret |-> at[c].seen.pending, pending |-> NoSecret,
               last |-> NoCounter, scope |-> at[c].scope] \in Factor
    BY <2>1 DEF FactorCall, Factor, NoSecret, NoCounter
  <2> QED BY <1>5, <1>8, <2>1, <2>2 DEF enable, TypeOK, FactorCall
<1>9. CASE disable(c)
  <2>1. at[c] \in FactorCall BY <1>6, <1>9 DEF disable, FactorKinds
  <2>2. [at[c].seen EXCEPT !.on = FALSE, !.secret = NoSecret, !.pending = NoSecret] \in Factor
    BY <2>1 DEF FactorCall, Factor, NoSecret
  <2>3. NoCodes \in CodeBook BY DEF NoCodes, CodeBook
  <2>4. CASE Stale(c) BY <1>9, <2>4, EndTypes DEF disable, TypeOK
  <2>5. CASE ~Stale(c) BY <1>5, <1>9, <2>1, <2>2, <2>3, <2>5 DEF disable, TypeOK, FactorCall
  <2> QED BY <2>4, <2>5
<1>10. CASE verify_and_open(c)
  <2>1. at[c] \in FactorCall BY <1>6, <1>10 DEF verify_and_open, FactorKinds
  <2>2. CASE Stale(c) BY <1>10, <2>2, EndTypes DEF verify_and_open, TypeOK
  <2>3. CASE ~Stale(c)
    <3>1. at[c].seen \in Factor /\ [at[c].seen EXCEPT !.last = at[c].counter] \in Factor
      BY <2>1 DEF FactorCall, Factor
    <3>2. Opened(c, issued + 1) \in Session BY <2>1, OpenedTypes
    <3>3. \A S \in SUBSET Session : _evict_excess_sessions(S) \in SUBSET Session
      BY DEF _evict_excess_sessions
    <3>4. codes' \in [People -> CodeBook]
      BY <1>10, <2>1, <2>3 DEF verify_and_open, TypeOK, Spent, CodeBook, FactorCall
    <3>5. sessions' \in [People -> SUBSET Session]
      BY <1>10, <2>3, <3>2, <3>3 DEF verify_and_open, TypeOK
    <3> QED BY <1>5, <1>10, <2>1, <2>3, <3>1, <3>4, <3>5 DEF verify_and_open, TypeOK, FactorCall
  <2> QED BY <2>2, <2>3
<1>11. CASE step_up(c)
  <2>1. at[c] \in FactorCall BY <1>6, <1>11 DEF step_up, FactorKinds
  <2>2. CASE Holding(at[c].user, at[c].token) = {} BY <1>11, <2>2, EndTypes DEF step_up, TypeOK
  <2>3. CASE Holding(at[c].user, at[c].token) # {}
    <3>1. \A s \in Session : [s EXCEPT !.stepped = now] \in Session BY DEF Session, TypeOK
    <3>2. sessions' \in [People -> SUBSET Session]
      BY <1>11, <2>3, <3>1 DEF step_up, TypeOK
    <3> QED BY <1>5, <1>11, <2>1, <2>3, <3>2 DEF step_up, TypeOK, FactorCall
  <2> QED BY <2>2, <2>3
<1>12. CASE generate_backup_codes(c)
  <2>1. {Backup(issued + 1, i) : i \in 1..BACKUP_CODE_COUNT} \subseteq Code BY DEF TypeOK, Backup, Code
  <2>2. [issued |-> {Backup(issued + 1, i) : i \in 1..BACKUP_CODE_COUNT}, used |-> {}] \in CodeBook
    BY <2>1 DEF CodeBook
  <2>3. codes' \in [People -> CodeBook] BY <1>12, <2>2 DEF generate_backup_codes, TypeOK
  <2> QED BY <1>12, <2>3, EndTypes DEF generate_backup_codes, TypeOK
<1> QED
  BY <1>1, <1>2, <1>3, <1>4, <1>7, <1>8, <1>9, <1>10, <1>11, <1>12 DEF FactorStep

\* ... by those of users, ...
LEMMA UserTypes ==
  ASSUME TypeOK, NEW c \in Callers, UserStep(c) PROVE TypeOK'
<1> USE DEF Checks, Writes, Under, factorVars
<1>1. CASE UpdateUserCheck(c)
  <2>1. at[c] \in UpdateUserCall BY <1>1, KindTypes DEF UpdateUserCheck, Idle
  <2>2. [at[c] EXCEPT !.row = users[at[c].target]] \in Calls
    BY <2>1 DEF TypeOK, UpdateUserCall, Calls
  <2> QED BY <1>1, <2>2, GoTypes, EndTypes DEF UpdateUserCheck, TypeOK
<1>2. CASE _apply_user_changes(c)
  <2>1. at[c] \in UpdateUserCall BY <1>2, KindTypes DEF _apply_user_changes, Idle
  <2>2. Set(at[c].row, at[c].fields) \in UserRow BY <2>1, FieldsAssumption DEF UpdateUserCall
  <2>3. Over(users[at[c].target], at[c].row, Set(at[c].row, at[c].fields)) \in UserRow
    BY <2>1, <2>2, OverTypes DEF TypeOK, UpdateUserCall
  <2>4. users' \in [People -> UserRow] BY <1>2, <2>3 DEF _apply_user_changes, TypeOK
  <2> QED BY <1>2, <2>4, EndTypes DEF _apply_user_changes, TypeOK, Parts
<1>3. CASE DeleteUserCheck(c)
  <2>1. at[c] \in Calls BY <1>3, KindTypes DEF DeleteUserCheck, Idle, Calls
  <2> QED BY <1>3, <2>1, GoTypes, EndTypes DEF DeleteUserCheck, TypeOK
<1>4. CASE delete_user(c)
  <2>1. NoUser \in UserRow BY DEF NoUser, UserRow
  <2>2. \A row \in AccountRow : [row EXCEPT !.owner = Nobody] \in AccountRow BY DEF AccountRow
  <2>3. accounts' \in [Accounts -> AccountRow \cup {NoAccount}]
    BY <1>4, <2>2 DEF delete_user, TypeOK, Open
  <2>4. Off \in Factor /\ NoCodes \in CodeBook
    BY DEF Off, Factor, Scopes, NoSecret, NoCounter, NoCodes, CodeBook
  <2>5. at' \in [Callers -> Calls \cup {Idle}] BY <1>4 DEF delete_user, TypeOK
  <2>6. users' \in [People -> UserRow] /\ factor' \in [People -> Factor]
    BY <1>4, <2>1, <2>4 DEF delete_user, TypeOK
  <2>7. codes' \in [People -> CodeBook] /\ sessions' \in [People -> SUBSET Session]
    BY <1>4, <2>4 DEF delete_user, TypeOK
  <2> QED BY <1>4, <2>3, <2>5, <2>6, <2>7 DEF delete_user, TypeOK, Parts
<1> QED BY <1>1, <1>2, <1>3, <1>4 DEF UserStep

\* ... by those of accounts, ...
LEMMA AccountTypes ==
  ASSUME TypeOK, NEW c \in Callers, AccountStep(c) PROVE TypeOK'
<1> USE DEF Checks, Writes, Under, factorVars
<1>1. CASE CreateAccountCheck(c)
  <2>1. at[c] \in CreateAccountCall BY <1>1, KindTypes DEF CreateAccountCheck, Idle
  <2>2. at[c] \in Calls /\ [at[c] EXCEPT !.owner = at[c].user] \in Calls
    BY <2>1 DEF CreateAccountCall, Calls
  <2> QED BY <1>1, <2>2, GoTypes, EndTypes DEF CreateAccountCheck, TypeOK
<1>2. CASE create_account(c)
  <2>1. at[c] \in CreateAccountCall BY <1>2, KindTypes DEF create_account, Idle
  <2>2. Account(at[c].owner, at[c].shared) \in AccountRow
    BY <2>1 DEF CreateAccountCall, Account, AccountRow
  <2> QED BY <1>2, <2>2, EndTypes DEF create_account, TypeOK
<1>3. CASE UpdateAccountCheck(c)
  <2>1. at[c] \in UpdateAccountCall BY <1>3, KindTypes DEF UpdateAccountCheck, Idle
  <2>2. Open(at[c].account) => [at[c] EXCEPT !.row = accounts[at[c].account]] \in Calls
    BY <2>1 DEF UpdateAccountCall, Calls, TypeOK, Open
  <2> QED BY <1>3, <2>2, GoTypes, EndTypes DEF UpdateAccountCheck, TypeOK, visible_account_ids
<1>4. CASE update_account(c)
  <2>1. at[c] \in UpdateAccountCall BY <1>4, KindTypes DEF update_account, Idle
  <2>2. at[c].row \in AccountRow /\ Set(at[c].row, at[c].fields) \in AccountRow
    BY <2>1 DEF UpdateAccountCall, AccountRow, Set
  <2>3. accounts' \in [Accounts -> AccountRow \cup {NoAccount}]
    BY <1>4, <2>1, <2>2, OverTypes DEF update_account, TypeOK, Open, UpdateAccountCall
  <2> QED BY <1>4, <2>3, EndTypes DEF update_account, TypeOK
<1>5. CASE DeleteAccountCheck(c)
  <2>1. at[c] \in DeleteAccountCall BY <1>5, KindTypes DEF DeleteAccountCheck, Idle
  <2>2. [at[c] EXCEPT !.held = Held(at[c].account)] \in Calls BY <2>1 DEF DeleteAccountCall, Calls, Held
  <2> QED BY <1>5, <2>2, GoTypes, EndTypes DEF DeleteAccountCheck, TypeOK
<1>6. CASE delete_account(c)
  <2>1. WithoutAccount(at[c].account) \in [Rows -> Accounts \cup {NoAccount, NoRow}]
    BY DEF WithoutAccount, TypeOK
  <2> QED BY <1>6, <2>1, EndTypes DEF delete_account, TypeOK
<1>7. CASE MergeAccountCheck(c)
  <2>1. at[c] \in MergeAccountCall BY <1>7, KindTypes DEF MergeAccountCheck, Idle
  <2>2. [at[c] EXCEPT !.seen = <<accounts[at[c].account], accounts[at[c].target]>>] \in Calls
    BY <2>1 DEF MergeAccountCall, Calls, TypeOK
  <2> QED BY <1>7, <2>2, GoTypes, EndTypes DEF MergeAccountCheck, TypeOK
<1>8. CASE merge_account(c)
  <2>1. at[c] \in MergeAccountCall BY <1>8, KindTypes DEF merge_account, Idle
  <2>2. at[c].target \in Accounts BY <2>1 DEF MergeAccountCall
  <2>3. Repointed(at[c].account, at[c].target) \in [Rows -> Accounts \cup {NoAccount, NoRow}]
    BY <2>2 DEF Repointed, WithoutAccount, TypeOK
  <2> QED BY <1>8, <2>3, EndTypes DEF merge_account, TypeOK
<1> QED BY <1>1, <1>2, <1>3, <1>4, <1>5, <1>6, <1>7, <1>8 DEF AccountStep

\* ... and they hold to begin with.
LEMMA InitTypes == Init => TypeOK
<1> SUFFICES ASSUME Init PROVE TypeOK OBVIOUS
<1>1. NoCodes \in CodeBook BY DEF NoCodes, CodeBook
<1>2. PICK h \in Households : users = h.users /\ accounts = h.accounts /\ rows = h.rows /\ may = h.may
                               /\ calls = h.calls /\ factor = h.factor
  BY DEF Init
<1>3. /\ users \in [People -> UserRow] /\ factor \in [People -> Factor]
      /\ accounts \in [Accounts -> AccountRow \cup {NoAccount}]
      /\ rows \in [Rows -> Accounts \cup {NoAccount, NoRow}]
      /\ calls \in Nat /\ may \subseteq Kinds
  BY <1>2, HouseholdsAssumption
<1>4. now \in Nat \ {0} /\ issued \in Nat /\ entered \subseteq Code /\ clashed \subseteq People /\ parted \in BOOLEAN
  <2>1. now = 2 /\ issued = 1 /\ entered = {} /\ clashed = {} /\ parted = FALSE BY DEF Init, FactorInit
  <2>2. now \in Nat \ {0} /\ issued \in Nat BY <2>1
  <2>3. entered \subseteq Code /\ clashed \subseteq People /\ parted \in BOOLEAN BY <2>1
  <2> QED BY <2>2, <2>3
<1>5. sessions \in [People -> SUBSET Session] /\ codes \in [People -> CodeBook]
  BY <1>1 DEF Init, FactorInit
<1>6. at \in [Callers -> Calls \cup {Idle}]
  BY DEF Init, FactorInit
<1> QED BY <1>3, <1>4, <1>5, <1>6 DEF TypeOK

\* Every step keeps the types.
LEMMA StepTypes == TypeOK /\ [Next]_vars => TypeOK'
<1> SUFFICES ASSUME TypeOK, [Next]_vars PROVE TypeOK' OBVIOUS
<1>1. CASE Tick BY <1>1 DEF Tick, TypeOK, factorVars
<1>2. ASSUME NEW u \in People, resolve_current_user(u) PROVE TypeOK'
  <2>1. _create_user(u) \in UserRow BY DEF _create_user, NoUser, UserRow, ROLES, Statuses
  <2> QED BY <1>2, <2>1 DEF resolve_current_user, TypeOK, factorVars
<1>3. ASSUME NEW r \in Rows, AddRow(r) PROVE TypeOK' BY <1>3 DEF AddRow, TypeOK, factorVars
<1>4. ASSUME NEW c \in Callers, _auth_guard(c) PROVE TypeOK'
  <2>1. PICK u \in People, kind \in may \ {"visit", "row", "tick"} :
          \E token \in Tokens(u) : \E call \in Asked(u, kind, token) : at' = [at EXCEPT ![c] = call]
    BY <1>4 DEF _auth_guard
  <2>2. at' \in [Callers -> Calls \cup {Idle}] BY <2>1, AskedTypes DEF TypeOK
  <2> QED BY <1>4, <2>2 DEF _auth_guard, TypeOK, factorVars
<1>5. CASE UNCHANGED vars BY <1>5 DEF vars, TypeOK, factorVars
<1> QED BY <1>1, <1>2, <1>3, <1>4, <1>5, FactorTypes, UserTypes, AccountTypes DEF Next

-------------------------------------------------------------------------------
(* What the step of one thread does to the calls of the others                *)
\* A route of the second factor or the AI throttle ends its call or goes on with it.
LEMMA FactorFrame ==
  ASSUME TypeOK, NEW c \in Callers, FactorStep(c)
  PROVE  \A d \in Callers : \/ at'[d] = at[d]
                            \/ /\ d = c
                               /\ \/ at'[d] = Idle
                                  \/ at'[d].kind = at[d].kind /\ at[d].kind \in FactorKinds \cup {"ai"}
<1>1. CASE Ends(c) BY <1>1 DEF Ends, TypeOK
<1>2. CASE AiCheck(c) /\ ~Ends(c) BY <1>2, KindTypes DEF AiCheck, TypeOK, AiCall, Idle, Under
<1>3. CASE CheckCode(c) /\ ~Ends(c)
  <2>1. at[c] \in FactorCall BY <1>3, KindTypes DEF CheckCode, Idle
  <2>2. PICK step, seen, counter :
          at' = [at EXCEPT ![c] = [at[c] EXCEPT !.step = step, !.seen = seen, !.counter = counter]]
    BY <1>3 DEF CheckCode
  <2>3. [at[c] EXCEPT !.step = step, !.seen = seen, !.counter = counter].kind = at[c].kind
    BY <2>1 DEF FactorCall
  <2> QED BY <1>3, <2>2, <2>3 DEF CheckCode, TypeOK
<1>4. ~AiCheck(c) /\ ~CheckCode(c) => Ends(c)
  BY DEF FactorStep, AiRecord, _bad_code, start_enrolment, enable, disable, verify_and_open, step_up,
         generate_backup_codes, Saves, Fails
<1> QED BY <1>1, <1>2, <1>3, <1>4

\* A route of accounts ends its call or goes on with it.
LEMMA AccountFrame ==
  ASSUME TypeOK, NEW c \in Callers, AccountStep(c)
  PROVE  \A d \in Callers : \/ at'[d] = at[d]
                            \/ /\ d = c
                               /\ \/ at'[d] = Idle
                                  \/ /\ at'[d].kind = at[d].kind /\ at'[d].step = "writing"
                                     /\ at[d].kind \notin FactorKinds \cup {"ai", "update_user", "delete_user"}
<1> USE DEF Under, Checks, Writes, FactorKinds
<1>1. CASE Ends(c) BY <1>1 DEF Ends, TypeOK
<1>2. CASE ~Ends(c)
  <2>1. at[c].kind \in {"create_account", "update_account", "delete_account", "merge_account"}
    BY DEF AccountStep, CreateAccountCheck, create_account, UpdateAccountCheck, update_account,
         DeleteAccountCheck, delete_account, MergeAccountCheck, merge_account
  <2>2. CASE CreateAccountCheck(c)
    <3>1. at[c] \in CreateAccountCall BY <2>2, KindTypes DEF CreateAccountCheck, Idle
    <3>2. PICK call : at' = [at EXCEPT ![c] = [call EXCEPT !.step = "writing"]]
                      /\ (call = at[c] \/ call = [at[c] EXCEPT !.owner = at[c].user])
      BY <1>2, <2>2 DEF CreateAccountCheck, Goes
    <3>3. call \in CreateAccountCall BY <3>1, <3>2 DEF CreateAccountCall
    <3>4. LET new == [call EXCEPT !.step = "writing"] IN new.kind = "create_account" /\ new.step = "writing"
      BY <3>3 DEF CreateAccountCall
    <3>5. at[c].kind = "create_account" BY <3>1 DEF CreateAccountCall
    <3> QED BY <2>1, <3>2, <3>4, <3>5 DEF TypeOK
  <2>3. CASE UpdateAccountCheck(c)
    <3>1. at[c] \in UpdateAccountCall BY <2>3, KindTypes DEF UpdateAccountCheck, Idle
    <3>2. at' = [at EXCEPT ![c] = [[at[c] EXCEPT !.row = accounts[at[c].account]] EXCEPT !.step = "writing"]]
      BY <1>2, <2>3 DEF UpdateAccountCheck, Goes
    <3> QED BY <2>1, <3>1, <3>2 DEF UpdateAccountCall, TypeOK
  <2>4. CASE DeleteAccountCheck(c)
    <3>1. at[c] \in DeleteAccountCall BY <2>4, KindTypes DEF DeleteAccountCheck, Idle
    <3>2. at' = [at EXCEPT ![c] = [[at[c] EXCEPT !.held = Held(at[c].account)] EXCEPT !.step = "writing"]]
      BY <1>2, <2>4 DEF DeleteAccountCheck, Goes
    <3> QED BY <2>1, <3>1, <3>2 DEF DeleteAccountCall, TypeOK
  <2>5. CASE MergeAccountCheck(c)
    <3>1. at[c] \in MergeAccountCall BY <2>5, KindTypes DEF MergeAccountCheck, Idle
    <3>2. PICK seen : at' = [at EXCEPT ![c] = [[at[c] EXCEPT !.seen = seen] EXCEPT !.step = "writing"]]
      BY <1>2, <2>5 DEF MergeAccountCheck, Goes
    <3> QED BY <2>1, <3>1, <3>2 DEF MergeAccountCall, TypeOK
  <2> QED BY <1>2, <2>2, <2>3, <2>4, <2>5
        DEF AccountStep, create_account, update_account, delete_account, merge_account
<1> QED BY <1>1, <1>2

\* The guard begins a call.
LEMMA AdmitFrame ==
  ASSUME TypeOK, NEW c \in Callers, _auth_guard(c)
  PROVE  \A d \in Callers : at'[d] = at[d] \/ (d = c /\ at'[d].step = "admitted")
<1>1. PICK u \in People, kind \in may \ {"visit", "row", "tick"} :
        \E token \in Tokens(u) : \E call \in Asked(u, kind, token) : at' = [at EXCEPT ![c] = call]
  BY DEF _auth_guard
<1>2. PICK token \in Tokens(u) : \E call \in Asked(u, kind, token) : at' = [at EXCEPT ![c] = call]
  BY <1>1
<1>3. PICK call \in Asked(u, kind, token) : at' = [at EXCEPT ![c] = call] BY <1>2
<1>4. kind \in Kinds \ {"visit", "row", "tick"} BY DEF TypeOK
<1>5. call.step = "admitted" BY <1>4, AskedTypes
<1> QED BY <1>3, <1>5 DEF TypeOK

\* A route of users ends its call or goes on with it; delete_user ends those of the user too.
LEMMA UserFrame ==
  ASSUME TypeOK, NEW c \in Callers, UserStep(c)
  PROVE  \A d \in Callers : \/ at'[d] = at[d] \/ at'[d] = Idle
                            \/ d = c /\ at'[d].kind \in {"update_user", "delete_user"} /\ at'[d].step = "writing"
<1> USE DEF Under, Checks, Writes
<1>1. CASE Ends(c) BY <1>1 DEF Ends, TypeOK
<1>2. CASE UpdateUserCheck(c) /\ ~Ends(c)
  <2>1. at[c] \in UpdateUserCall BY <1>2, KindTypes DEF UpdateUserCheck, Idle
  <2>2. at' = [at EXCEPT ![c] = [[at[c] EXCEPT !.row = users[at[c].target]] EXCEPT !.step = "writing"]]
    BY <1>2 DEF UpdateUserCheck, Goes
  <2> QED BY <2>1, <2>2 DEF UpdateUserCall, TypeOK
<1>3. CASE DeleteUserCheck(c) /\ ~Ends(c)
  <2>1. at[c] \in DeleteUserCall BY <1>3, KindTypes DEF DeleteUserCheck, Idle
  <2> QED BY <1>3, <2>1 DEF DeleteUserCheck, Goes, DeleteUserCall, TypeOK
<1>4. CASE delete_user(c) BY <1>4 DEF delete_user, TypeOK
<1> QED BY <1>1, <1>2, <1>3, <1>4 DEF UserStep, _apply_user_changes

-------------------------------------------------------------------------------
(* Users: what a call about to write has seen of the users.                *)

\* Unless such calls overlapped, what UpdateUserCheck and DeleteUserCheck saw still holds.
ChecksHold ==
  ~parted =>
    \A c \in Callers :
      /\ Under(c, "update_user", "writing") =>
           /\ There(at[c].target) /\ at[c].row = users[at[c].target]
           /\ _validate_user_update(at[c].user, at[c].target, at[c].fields)
      /\ Under(c, "delete_user", "writing") =>
           There(at[c].target) /\ ~_is_last_owner(at[c].target)

OwnersInv == TypeOK /\ ChecksHold /\ OwnerLeft

\* An approved owner who is not the last leaves another.
LEMMA OwnerBeside ==
  ASSUME NEW u, ~_is_last_owner(u) PROVE approved_owners \subseteq {u} => approved_owners = {}
<1> SUFFICES ASSUME approved_owners = {u} PROVE FALSE OBVIOUS
<1>1. Cardinality({u}) = 1 BY FS_Singleton
<1> QED BY <1>1 DEF _is_last_owner

\* A call that changes no user and begins no change of one.
LEMMA OwnersFrame ==
  ASSUME ChecksHold, OwnerLeft, users' = users, parted' = parted,
         \A d \in Callers : \/ at'[d] = at[d]
                            \/ at'[d].step # "writing"
                            \/ at'[d].kind \notin {"update_user", "delete_user"}
  PROVE  ChecksHold' /\ OwnerLeft'
<1>1. approved_owners' = approved_owners BY DEF approved_owners
<1>2. OwnerLeft' BY <1>1 DEF OwnerLeft, There
<1>3. ASSUME ~parted', NEW d \in Callers, Under(d, "update_user", "writing")'
      PROVE  /\ There(at[d].target)' /\ at'[d].row = users'[at'[d].target]
             /\ _validate_user_update(at[d].user, at[d].target, at[d].fields)'
  <2>1. at'[d] = at[d] BY <1>3 DEF Under
  <2> QED BY <1>1, <1>3, <2>1 DEF ChecksHold, Under, There, _validate_user_update, _is_last_owner
<1>4. ASSUME ~parted', NEW d \in Callers, Under(d, "delete_user", "writing")'
      PROVE  There(at[d].target)' /\ ~_is_last_owner(at[d].target)'
  <2>1. at'[d] = at[d] BY <1>4 DEF Under
  <2> QED BY <1>1, <1>4, <2>1 DEF ChecksHold, Under, There, _is_last_owner
<1> QED BY <1>2, <1>3, <1>4 DEF ChecksHold

\* resolve_current_user makes an owner only where nobody is.
LEMMA ResolveKeepsOwners ==
  ASSUME OwnersInv, NEW u \in People, resolve_current_user(u) PROVE ChecksHold' /\ OwnerLeft'
<1> USE DEF OwnersInv, resolve_current_user
<1>1. users'[u] = _create_user(u) /\ \A v \in People \ {u} : users'[v] = users[v] BY DEF TypeOK
<1>2. CASE \A v \in People : ~There(v)
  <2>1. users'[u].role = "owner" /\ users'[u].status = "approved" BY <1>1, <1>2 DEF _create_user, NoUser
  <2>2. OwnerLeft' BY <2>1 DEF OwnerLeft, approved_owners
  <2>3. \A c \in Callers : at[c] # Idle /\ at[c].kind \in {"update_user", "delete_user"} => at[c].target \in People
    BY KindTypes DEF UpdateUserCall, DeleteUserCall
  <2>4. ChecksHold' BY <1>2, <2>3 DEF ChecksHold, Under, Idle
  <2> QED BY <2>2, <2>4
<1>3. CASE \E v \in People : There(v)
  <2>1. users'[u].role = "member" /\ users'[u].status = "pending" BY <1>1, <1>3 DEF _create_user, NoUser
  <2>2. users[u] = NoUser BY DEF There
  <2>3. approved_owners' = approved_owners BY <1>1, <2>1, <2>2 DEF approved_owners, NoUser
  <2>4. \A v \in People : There(v) => There(v)' /\ users'[v] = users[v]
    BY <1>1, <2>2 DEF There
  <2>5. OwnerLeft' BY <1>3, <2>3, <2>4 DEF OwnerLeft
  <2>6. \A c \in Callers : at[c] # Idle /\ at[c].kind \in {"update_user", "delete_user"} => at[c].target \in People
    BY KindTypes DEF UpdateUserCall, DeleteUserCall
  <2>7. ChecksHold'
    BY <2>3, <2>4, <2>6 DEF ChecksHold, Under, Idle, _validate_user_update, _is_last_owner
  <2> QED BY <2>5, <2>7
<1> QED BY <1>2, <1>3

\* The check of a change of a user, or of a deletion.
LEMMA UserCheckKeepsOwners ==
  ASSUME OwnersInv, NEW c \in Callers, UpdateUserCheck(c) \/ DeleteUserCheck(c)
  PROVE  ChecksHold' /\ OwnerLeft'
<1> USE DEF OwnersInv, Checks, Under
<1>1. users' = users /\ parted' = parted BY DEF UpdateUserCheck, DeleteUserCheck
<1>2. approved_owners' = approved_owners BY <1>1 DEF approved_owners
<1>3. OwnerLeft' BY <1>1, <1>2 DEF OwnerLeft, There
<1>4. CASE Ends(c)
  <2>1. \A d \in Callers : at'[d] = at[d] \/ at'[d].step # "writing" BY <1>4 DEF Ends, TypeOK, Idle
  <2> QED BY <1>1, <2>1, OwnersFrame
<1>5. CASE UpdateUserCheck(c) /\ ~Ends(c)
  <2>1. at[c] \in UpdateUserCall BY <1>5, KindTypes DEF UpdateUserCheck, Idle
  <2>2. /\ There(at[c].target) /\ _validate_user_update(at[c].user, at[c].target, at[c].fields)
        /\ at' = [at EXCEPT ![c] = [[at[c] EXCEPT !.row = users[at[c].target]] EXCEPT !.step = "writing"]]
    BY <1>5 DEF UpdateUserCheck, Goes
  <2>3. /\ at'[c].kind = "update_user" /\ at'[c].user = at[c].user /\ at'[c].target = at[c].target
        /\ at'[c].fields = at[c].fields /\ at'[c].row = users[at[c].target]
        /\ \A d \in Callers \ {c} : at'[d] = at[d]
    BY <2>1, <2>2 DEF TypeOK, UpdateUserCall
  <2>4. ASSUME ~parted, NEW d \in Callers
        PROVE  /\ Under(d, "update_user", "writing")' =>
                    /\ There(at[d].target)' /\ at'[d].row = users'[at'[d].target]
                    /\ _validate_user_update(at[d].user, at[d].target, at[d].fields)'
               /\ Under(d, "delete_user", "writing")' => There(at[d].target)' /\ ~_is_last_owner(at[d].target)'
    BY <1>1, <1>2, <2>2, <2>3, <2>4 DEF ChecksHold, There, _validate_user_update, _is_last_owner
  <2> QED BY <1>1, <1>3, <2>4 DEF ChecksHold
<1>6. CASE DeleteUserCheck(c) /\ ~Ends(c)
  <2>1. at[c] \in DeleteUserCall BY <1>6, KindTypes DEF DeleteUserCheck, Idle
  <2>2. There(at[c].target) /\ ~_is_last_owner(at[c].target) /\ at' = [at EXCEPT ![c] = [at[c] EXCEPT !.step = "writing"]]
    BY <1>6 DEF DeleteUserCheck, Goes
  <2>3. /\ at'[c].kind = "delete_user" /\ at'[c].target = at[c].target
        /\ \A d \in Callers \ {c} : at'[d] = at[d]
    BY <2>1, <2>2 DEF TypeOK, DeleteUserCall
  <2>4. ASSUME ~parted, NEW d \in Callers
        PROVE  /\ Under(d, "update_user", "writing")' =>
                    /\ There(at[d].target)' /\ at'[d].row = users'[at'[d].target]
                    /\ _validate_user_update(at[d].user, at[d].target, at[d].fields)'
               /\ Under(d, "delete_user", "writing")' => There(at[d].target)' /\ ~_is_last_owner(at[d].target)'
    BY <1>1, <1>2, <2>2, <2>3, <2>4 DEF ChecksHold, There, _validate_user_update, _is_last_owner
  <2> QED BY <1>1, <1>3, <2>4 DEF ChecksHold
<1> QED BY <1>4, <1>5, <1>6

\* The write: when no other such call had checked, what this one checked still holds.
LEMMA UserWriteKeepsOwners ==
  ASSUME OwnersInv, NEW c \in Callers, _apply_user_changes(c) \/ delete_user(c)
  PROVE  ChecksHold' /\ OwnerLeft'
<1> USE DEF OwnersInv, Writes, Under
<1>0. SUFFICES ASSUME ~parted' PROVE ChecksHold' /\ OwnerLeft' BY DEF ChecksHold, OwnerLeft
<1>1. ~parted /\ \A d \in Callers \ {c} : ~(Writing(d) /\ at[d].kind \in {"update_user", "delete_user"})
  BY <1>0 DEF _apply_user_changes, delete_user, Parts
<1>2. \A d \in Callers : at'[d] = Idle \/ (d # c /\ at'[d] = at[d])
  BY DEF _apply_user_changes, delete_user, Ends, TypeOK
<1>3. ChecksHold' BY <1>1, <1>2 DEF ChecksHold, Idle, Writing
<1>4. at[c].target \in People /\ There(at[c].target)
  BY <1>1, KindTypes DEF _apply_user_changes, delete_user, ChecksHold, Idle, UpdateUserCall, DeleteUserCall
<1>5. approved_owners # {} BY <1>1, <1>4 DEF OwnerLeft
<1>6. \A v \in People \ {at[c].target} : users'[v] = users[v]
  BY DEF _apply_user_changes, delete_user, TypeOK
<1>7. ASSUME ~_is_last_owner(at[c].target) PROVE OwnerLeft'
  <2>1. PICK v \in approved_owners : v # at[c].target BY <1>5, <1>7, OwnerBeside
  <2> QED BY <1>6, <2>1 DEF OwnerLeft, approved_owners
<1>8. CASE _apply_user_changes(c)
  <2> DEFINE new == Set(at[c].row, at[c].fields)
  <2>1. at[c] \in UpdateUserCall BY <1>8, KindTypes DEF _apply_user_changes, Idle
  <2>2. at[c].row = users[at[c].target] /\ _validate_user_update(at[c].user, at[c].target, at[c].fields)
    BY <1>1, <1>8 DEF _apply_user_changes, ChecksHold
  <2>3. new \in UserRow BY <2>1, FieldsAssumption DEF UpdateUserCall
  <2>4. users'[at[c].target] = Over(users[at[c].target], users[at[c].target], new)
    BY <1>4, <1>8, <2>2 DEF _apply_user_changes, TypeOK
  <2>5. ASSUME NEW held \in UserRow, NEW row \in UserRow
        PROVE  Over(held, held, row).role = row.role /\ Over(held, held, row).status = row.status
    BY DEF Over, UserRow
  <2>6. users'[at[c].target].role = new.role /\ users'[at[c].target].status = new.status
    BY <1>4, <2>3, <2>4, <2>5 DEF TypeOK
  <2>7. CASE _is_last_owner(at[c].target)
    <3>1. new.role = "owner" /\ new.status = "approved" BY <2>2, <2>7 DEF _validate_user_update
    <3> QED BY <1>3, <1>4, <2>6, <3>1 DEF OwnerLeft, approved_owners
  <2> QED BY <1>3, <1>7, <2>7
<1>9. CASE delete_user(c)
  <2>1. ~_is_last_owner(at[c].target) BY <1>1, <1>9 DEF delete_user, ChecksHold
  <2> QED BY <1>3, <1>7, <2>1
<1> QED BY <1>8, <1>9

\* Every step keeps what the checks of the users have seen, and an owner.
LEMMA StepKeepsOwners == OwnersInv /\ [Next]_vars => OwnersInv'
<1> SUFFICES ASSUME OwnersInv, [Next]_vars PROVE ChecksHold' /\ OwnerLeft' BY StepTypes DEF OwnersInv
<1> USE DEF OwnersInv
<1>1. CASE Tick \/ (\E r \in Rows : AddRow(r)) \/ UNCHANGED vars
  BY <1>1, OwnersFrame DEF Tick, AddRow, vars
<1>2. ASSUME NEW c \in Callers, _auth_guard(c) PROVE ChecksHold' /\ OwnerLeft'
  <2>1. \A d \in Callers : at'[d] = at[d] \/ at'[d].step # "writing" BY <1>2, AdmitFrame
  <2> QED BY <1>2, <2>1, OwnersFrame DEF _auth_guard
<1>3. ASSUME NEW c \in Callers, Factors(c) PROVE ChecksHold' /\ OwnerLeft'
  <2>1. \A d \in Callers : \/ at'[d] = at[d] \/ at'[d].step # "writing"
                           \/ at'[d].kind \notin {"update_user", "delete_user"}
    BY <1>3, FactorFrame DEF Factors, FactorKinds, Idle
  <2> QED BY <1>3, <2>1, OwnersFrame DEF Factors
<1>4. ASSUME NEW c \in Callers, AccountStep(c) PROVE ChecksHold' /\ OwnerLeft'
  <2>1. \A d \in Callers : \/ at'[d] = at[d] \/ at'[d].step # "writing"
                           \/ at'[d].kind \notin {"update_user", "delete_user"}
    BY <1>4, AccountFrame DEF Idle
  <2> QED BY <1>4, <2>1, OwnersFrame
        DEF AccountStep, Checks, Writes, CreateAccountCheck, create_account, UpdateAccountCheck, update_account,
            DeleteAccountCheck, delete_account, MergeAccountCheck, merge_account
<1> QED BY <1>1, <1>2, <1>3, <1>4, ResolveKeepsOwners, UserCheckKeepsOwners, UserWriteKeepsOwners DEF Next, UserStep

\* A household that has users keeps an approved owner, unless two calls that change or delete users
\* overlapped (_validate_user_update, _is_last_owner of auth_service).
THEOREM OwnerTheorem == Spec => []OwnerLeft
<1>1. Init => OwnersInv
  <2> SUFFICES ASSUME Init PROVE ChecksHold /\ OwnerLeft BY InitTypes DEF OwnersInv
  <2>1. ChecksHold BY DEF Init, FactorInit, ChecksHold, Under, Idle
  <2>2. OwnerLeft BY HouseholdsAssumption DEF Init, OwnerLeft, approved_owners, There
  <2> QED BY <2>1, <2>2
<1>2. OwnersInv => OwnerLeft BY DEF OwnersInv
<1> QED BY <1>1, <1>2, StepKeepsOwners, PTL DEF Spec

-------------------------------------------------------------------------------
(* Accounts: what a call about to write has seen of the accounts.          *)

\* What DeleteAccountCheck and MergeAccountCheck saw.
AccountChecks ==
  \A c \in Callers :
    /\ Under(c, "delete_account", "writing") => at[c].held = {}
    /\ Under(c, "merge_account", "writing") =>
         LET source == at[c].seen[1]
             target == at[c].seen[2]
         IN  /\ at[c].account # at[c].target
             /\ source # NoAccount /\ target # NoAccount
             /\ source.owner # Nobody /\ ~source.shared => ~target.shared /\ target.owner = source.owner

\* A step that begins no write of a deletion or merge of accounts.
LEMMA ChecksFrame ==
  ASSUME AccountChecks,
         \A d \in Callers : \/ at'[d] = at[d]
                            \/ at'[d].step # "writing"
                            \/ at'[d].kind \notin {"delete_account", "merge_account"}
  PROVE  AccountChecks'
<1>1. ASSUME NEW d \in Callers, Under(d, "delete_account", "writing")' PROVE at'[d].held = {}
  <2>1. at'[d] = at[d] BY <1>1 DEF Under
  <2> QED BY <1>1, <2>1 DEF AccountChecks, Under
<1>2. ASSUME NEW d \in Callers, Under(d, "merge_account", "writing")'
      PROVE  LET source == at[d].seen[1]
                 target == at[d].seen[2]
             IN  (/\ at[d].account # at[d].target
                  /\ source # NoAccount /\ target # NoAccount
                  /\ source.owner # Nobody /\ ~source.shared => ~target.shared /\ target.owner = source.owner)'
  <2>1. at'[d] = at[d] BY <1>2 DEF Under
  <2> QED BY <1>2, <2>1 DEF AccountChecks, Under
<1> QED BY <1>1, <1>2 DEF AccountChecks

\* Every step keeps what the checks of the accounts have seen.
LEMMA StepKeepsChecks == TypeOK /\ AccountChecks /\ [Next]_vars => AccountChecks'
<1> SUFFICES ASSUME TypeOK, AccountChecks, [Next]_vars PROVE AccountChecks' OBVIOUS
<1>1. CASE Tick \/ (\E u \in People : resolve_current_user(u)) \/ (\E r \in Rows : AddRow(r)) \/ UNCHANGED vars
  BY <1>1, ChecksFrame DEF Tick, resolve_current_user, AddRow, vars
<1>2. ASSUME NEW c \in Callers, _auth_guard(c) PROVE AccountChecks'
  BY <1>2, AdmitFrame, ChecksFrame
<1>3. ASSUME NEW c \in Callers, Factors(c) PROVE AccountChecks'
  BY <1>3, FactorFrame, ChecksFrame DEF Factors, FactorKinds, Idle
<1>4. ASSUME NEW c \in Callers, UserStep(c) PROVE AccountChecks'
  BY <1>4, UserFrame, ChecksFrame DEF Idle
<1>5. ASSUME NEW c \in Callers, AccountStep(c) PROVE AccountChecks'
  <2> USE DEF Under, Checks, Writes
  <2>1. CASE Ends(c) BY <2>1, ChecksFrame DEF Ends, TypeOK, Idle
  <2>2. CASE CreateAccountCheck(c)
    <3>1. at[c].kind = "create_account" BY <2>2 DEF CreateAccountCheck
    <3> QED BY <1>5, <3>1, AccountFrame, ChecksFrame DEF Idle
  <2>3. CASE UpdateAccountCheck(c)
    <3>1. at[c].kind = "update_account" BY <2>3 DEF UpdateAccountCheck
    <3> QED BY <1>5, <3>1, AccountFrame, ChecksFrame DEF Idle
  <2>4. CASE DeleteAccountCheck(c) /\ ~Ends(c)
    <3>1. at[c] \in DeleteAccountCall BY <2>4, KindTypes DEF DeleteAccountCheck, Idle
    <3>2. at' = [at EXCEPT ![c] = [[at[c] EXCEPT !.held = Held(at[c].account)] EXCEPT !.step = "writing"]]
      BY <2>4 DEF DeleteAccountCheck, Goes
    <3>3. Held(at[c].account) = {} BY <2>4 DEF DeleteAccountCheck, account_usage
    <3>4. /\ at'[c].kind = "delete_account" /\ at'[c].held = {}
          /\ \A d \in Callers \ {c} : at'[d] = at[d]
      BY <3>1, <3>2, <3>3 DEF DeleteAccountCall, TypeOK
    <3> QED BY <3>4 DEF AccountChecks
  <2>5. CASE MergeAccountCheck(c) /\ ~Ends(c)
    <3> DEFINE seen == <<accounts[at[c].account], accounts[at[c].target]>>
    <3>1. at[c] \in MergeAccountCall BY <2>5, KindTypes DEF MergeAccountCheck, Idle
    <3>2. at' = [at EXCEPT ![c] = [[at[c] EXCEPT !.seen = seen] EXCEPT !.step = "writing"]]
      BY <2>5 DEF MergeAccountCheck, Goes
    <3>3. /\ at[c].account # at[c].target /\ Open(at[c].account) /\ Open(at[c].target)
          /\ _assert_merge_allowed(at[c].account, at[c].target)
      BY <2>5 DEF MergeAccountCheck
    <3>4. /\ at'[c].kind = "merge_account" /\ at'[c].seen = seen
          /\ at'[c].account = at[c].account /\ at'[c].target = at[c].target
          /\ \A d \in Callers \ {c} : at'[d] = at[d]
      BY <3>1, <3>2 DEF MergeAccountCall, TypeOK
    <3> QED BY <3>3, <3>4 DEF AccountChecks, Open, _assert_merge_allowed, _is_private
  <2> QED BY <1>5, <2>1, <2>2, <2>3, <2>4, <2>5
        DEF AccountStep, create_account, update_account, delete_account, merge_account
<1> QED BY <1>1, <1>2, <1>3, <1>4, <1>5 DEF Next

\* A row moves with the merge of its account, when nobody comes to see it who did not, or was not
\* there when the deletion of its account looked.
LEMMA MergeIsSafe ==
  ASSUME TypeOK, AccountChecks, NEW c \in Callers, merge_account(c),
         NEW r \in Rows, rows[r] \in Accounts, rows'[r] # rows[r]
  PROVE  /\ rows'[r] = at[c].target
         /\ <<accounts[at[c].account], accounts[at[c].target]>> = at[c].seen =>
              \A u \in People : Sees(u, r)' => Sees(u, r)
<1> USE DEF Writes, Under
<1> DEFINE source == at[c].account
           target == at[c].target
<1>1. rows' = Repointed(source, target) /\ accounts' = [accounts EXCEPT ![source] = NoAccount] /\ users' = users
  BY DEF merge_account
<1>2. rows[r] = source /\ rows'[r] = target BY <1>1 DEF Repointed, WithoutAccount, _ACCOUNT_REFS
<1>3. ASSUME <<accounts[source], accounts[target]>> = at[c].seen, NEW u \in People, Sees(u, r)'
      PROVE  Sees(u, r)
  <2>1. /\ source # target /\ accounts[source] # NoAccount
        /\ accounts[source].owner # Nobody /\ ~accounts[source].shared =>
             ~accounts[target].shared /\ accounts[target].owner = accounts[source].owner
    BY <1>3 DEF merge_account, AccountChecks
  <2>2. rows[r] # NoRow BY NamesAssumption
  <2>3. CASE is_admin(users[u].role) BY <2>2, <2>3 DEF Sees
  <2>4. CASE ~is_admin(users[u].role)
    <3>1. target \in Accounts /\ accounts'[target] = accounts[target]
      BY <1>1, <1>2, <1>3, <2>1, <2>4 DEF Sees, visible_account_ids, TypeOK
    <3>2. accounts[target].owner = Nobody \/ accounts[target].shared \/ accounts[target].owner = u
      BY <1>1, <1>2, <1>3, <2>4, <3>1 DEF Sees, visible_account_ids, _shared_or_own
    <3> QED BY <1>2, <2>1, <2>2, <3>2 DEF Sees, visible_account_ids, _shared_or_own, Open
  <2> QED BY <2>3, <2>4
<1> QED BY <1>2, <1>3

\* A row changes its account only when the account is merged, and then nobody sees it who did not, or
\* when the account is deleted and the row came to it after the deletion had looked (delete_account,
\* merge_account of account_service).
THEOREM MovesTheorem == Spec => MovesAreSafe
<1> DEFINE Inv == TypeOK /\ AccountChecks
           Moves ==
             \A r \in Rows : rows[r] \in Accounts /\ rows'[r] # rows[r] =>
               \E c \in Callers :
                 /\ at[c] # Idle /\ Writing(c) /\ at'[c] = Idle
                 /\ \/ /\ at[c].kind = "merge_account" /\ rows'[r] = at[c].target
                       /\ <<accounts[at[c].account], accounts[at[c].target]>> = at[c].seen =>
                            \A u \in People : Sees(u, r)' => Sees(u, r)
                    \/ at[c].kind = "delete_account" /\ r \notin at[c].held
<1>1. Init => Inv
  <2>1. Init => AccountChecks BY DEF Init, FactorInit, AccountChecks, Under, Idle
  <2> QED BY <2>1, InitTypes
<1>2. Inv /\ [Next]_vars => Inv' BY StepTypes, StepKeepsChecks
<1>3. Inv /\ [Next]_vars => [Moves]_vars
  <2> SUFFICES ASSUME Inv, Next, NEW r \in Rows, rows[r] \in Accounts, rows'[r] # rows[r]
               PROVE  \E c \in Callers :
                 /\ at[c] # Idle /\ Writing(c) /\ at'[c] = Idle
                 /\ \/ /\ at[c].kind = "merge_account" /\ rows'[r] = at[c].target
                       /\ <<accounts[at[c].account], accounts[at[c].target]>> = at[c].seen =>
                            \A u \in People : Sees(u, r)' => Sees(u, r)
                    \/ at[c].kind = "delete_account" /\ r \notin at[c].held
    OBVIOUS
  <2>1. PICK c \in Callers : delete_account(c) \/ merge_account(c)
    <3>1. ASSUME NEW q \in Rows, AddRow(q) PROVE FALSE
      BY <3>1, NamesAssumption DEF AddRow, TypeOK
    <3> QED
      BY <3>1 DEF Next, Tick, resolve_current_user, _auth_guard, Factors, UserStep, UpdateUserCheck, _apply_user_changes,
           DeleteUserCheck, delete_user, AccountStep, CreateAccountCheck, create_account, UpdateAccountCheck,
           update_account, DeleteAccountCheck, MergeAccountCheck, Checks
  <2>2. at[c] # Idle /\ Writing(c) /\ at'[c] = Idle
    BY <2>1 DEF delete_account, merge_account, Writes, Under, Writing, Idle, Ends, TypeOK
  <2>3. CASE merge_account(c) BY <2>2, <2>3, MergeIsSafe DEF merge_account, Writes, Under
  <2>4. CASE delete_account(c)
    <3>1. at[c].kind = "delete_account" /\ at[c].held = {}
      BY <2>4 DEF delete_account, Writes, Under, AccountChecks
    <3> QED BY <2>2, <3>1
  <2> QED BY <2>1, <2>3, <2>4
<1> QED BY <1>1, <1>2, <1>3, PTL DEF Spec, MovesAreSafe

-------------------------------------------------------------------------------
(* The second factor.                                                      *)

Saving(c, u) == Writing(c) /\ at[c].kind \in FactorKinds /\ at[c].user = u

\* A secret belongs to one user: it is live or pending, or a call of theirs is about to write it.
Has(u, secret) ==
  \/ secret \in {factor[u].secret, factor[u].pending}
  \/ \E c \in Callers : Saving(c, u) /\ secret \in {at[c].seen.secret, at[c].seen.pending}

SecretsApart ==
  \A secret \in Nat \ {NoSecret} :
    /\ \A u \in People : Has(u, secret) => secret <= issued
    /\ \A u, v \in People : Has(u, secret) /\ Has(v, secret) => u = v

\* A set of backup codes belongs to one user.
CodesApart ==
  /\ \A u \in People : \A k \in codes[u].issued : k[1] = "backup" /\ k[2] <= issued
  /\ \A u, v \in People : u # v => codes[u].issued \cap codes[v].issued = {}

\* A call about to write has seen the factor as it is, unless its user's calls overlapped.
SeenHolds == \A c \in Callers : \A u \in People \ clashed : Saving(c, u) => at[c].seen = factor[u]

\* The code of a call about to open a session is good, and has not been taken before it.
CodeGood ==
  \A c \in Callers :
    Under(c, "verify", "writing") =>
      LET call == at[c] IN
      /\ call.seen.on
      /\ call.counter # NoCounter =>
           call.code = Totp(call.seen.secret, call.counter)
           /\ call.seen.secret # NoSecret /\ call.counter > call.seen.last
      /\ call.counter = NoCounter /\ call.user \notin clashed /\ call.code \in codes[call.user].issued =>
           call.code \notin codes[call.user].used

\* A code that has opened a session does not open another: a backup code is used up, the
\* counter of the live secret has passed it, and no pending secret has it.
EnteredSpent ==
  /\ \A k \in entered : k[2] <= issued
  /\ \A u \in People \ clashed : \A k \in entered :
       /\ k \in codes[u].issued => k \in codes[u].used
       /\ k[1] = "totp" /\ factor[u].secret # NoSecret /\ k[2] = factor[u].secret => k[3] <= factor[u].last
       /\ k[1] = "totp" /\ factor[u].pending # NoSecret => k[2] # factor[u].pending
  /\ \A u \in People \ clashed : factor[u].pending # NoSecret => factor[u].pending # factor[u].secret

\* The sessions of a user differ in their tokens.
TokensFit ==
  \A u \in People :
    /\ IsFiniteSet(sessions[u])
    /\ \A s \in sessions[u] : s.token <= issued
    /\ \A r, s \in sessions[u] : r.token = s.token => r = s

\* The size of each user's sessions.
FewSessions == \A u \in People : Cardinality(sessions[u]) <= MAX_SESSIONS_PER_USER

\* What SessionsFit says of the sessions of a user whose calls did not overlap.
SessionsGood ==
  \A u \in People \ clashed : \A s \in sessions[u] :
    factor[u].on /\ s.secret = factor[u].secret /\ ~s.again

FactorInv ==
  /\ TokensFit /\ FewSessions
  /\ SecretsApart /\ CodesApart /\ SeenHolds /\ CodeGood /\ EnteredSpent /\ SessionsGood

\* Every set of naturals that has a member has a least one.
LEMMA LeastNumber ==
  ASSUME NEW T \in SUBSET Nat, T # {}
  PROVE  \E m \in T : \A k \in T : m <= k
<1>1. PICK R : R = OpToRel(<, Nat) OBVIOUS
<1>2. \A x, y \in Nat : x < y => <<x, y>> \in R
  BY <1>1, Zenon DEF OpToRel
<1>3. IsWellFoundedOn(R, Nat) BY <1>1, NatLessThanWellFounded, Zenon
<1>4. PICK m \in T : \A k \in T : ~(<<k, m>> \in R) BY <1>3, WFMin
<1>5. \A k \in T : ~(k < m) BY <1>2, <1>4
<1> QED BY <1>5

\* Of sessions that differ in their tokens, _evict_excess_sessions leaves at most MAX_SESSIONS_PER_USER:
\* beside the oldest it leaves, only newer ones, and those are fewer.
LEMMA EvictFits ==
  ASSUME NEW S \in SUBSET Session, IsFiniteSet(S), \A r, s \in S : r.token = s.token => r = s
  PROVE  Cardinality(_evict_excess_sessions(S)) <= MAX_SESSIONS_PER_USER
<1> DEFINE E == _evict_excess_sessions(S)
<1>1. E \in SUBSET S /\ IsFiniteSet(E) BY FS_Subset DEF _evict_excess_sessions
<1>2. CASE E = {} BY <1>2, FS_EmptySet, LimitsAssumption
<1>3. CASE E # {}
  <2> DEFINE T == {s.token : s \in E}
  <2>1. T \in SUBSET Nat /\ T # {} BY <1>1, <1>3 DEF Session
  <2>2. PICK least \in T : \A k \in T : least <= k BY <2>1, LeastNumber
  <2>3. PICK oldest \in E : oldest.token = least OBVIOUS
  <2> DEFINE newer == {r \in S : r.token > oldest.token}
  <2>4. Cardinality(newer) < MAX_SESSIONS_PER_USER BY DEF _evict_excess_sessions
  <2>5. IsFiniteSet(newer) /\ Cardinality(newer) \in Nat BY FS_Subset, FS_CardinalityType
  <2>6. E \ {oldest} \in SUBSET newer
    <3> SUFFICES ASSUME NEW s \in E, s # oldest PROVE s \in newer OBVIOUS
    <3>1. s.token \in Nat /\ oldest.token \in Nat /\ s \in S BY <1>1 DEF Session
    <3>2. least <= s.token BY <2>2
    <3>3. s.token # oldest.token BY <1>1
    <3> QED BY <2>3, <3>1, <3>2, <3>3
  <2>7. Cardinality(E \ {oldest}) <= Cardinality(newer) BY <2>5, <2>6, FS_Subset
  <2>8. Cardinality(E \ {oldest}) = Cardinality(E) - 1 BY <1>1, FS_RemoveElement
  <2>9. Cardinality(E) \in Nat BY <1>1, FS_CardinalityType
  <2>10. \A e, n, max \in Nat : n < max /\ e - 1 <= n => e <= max OBVIOUS
  <2> QED BY <2>4, <2>5, <2>7, <2>8, <2>9, <2>10, LimitsAssumption
<1> QED BY <1>2, <1>3

\* The sessions after a step-up.
Stepped(S, token, time) == {IF s.token = token THEN [s EXCEPT !.stepped = time] ELSE s : s \in S}

\* The one it is asked of has a new time, and there is none more.
LEMMA StepUpFits ==
  ASSUME NEW S \in SUBSET Session, IsFiniteSet(S), \A r, s \in S : r.token = s.token => r = s,
         NEW token, NEW time \in Nat, \E s \in S : s.token = token
  PROVE  /\ IsFiniteSet(Stepped(S, token, time)) /\ Cardinality(Stepped(S, token, time)) <= Cardinality(S)
         /\ \A t \in Stepped(S, token, time) :
              \E s \in S : t.token = s.token /\ t.secret = s.secret /\ t.again = s.again
         /\ \A r, s \in Stepped(S, token, time) : r.token = s.token => r = s
<1>0. PICK T : T = Stepped(S, token, time) OBVIOUS
<1>1. PICK h \in S : h.token = token OBVIOUS
<1>2. PICK n : n = [h EXCEPT !.stepped = time] OBVIOUS
<1>3. T = (S \ {h}) \cup {n} BY <1>0, <1>1, <1>2 DEF Stepped
<1>4. n.token = h.token /\ n.secret = h.secret /\ n.again = h.again BY <1>2 DEF Session
<1>5. IsFiniteSet(S \ {h}) /\ Cardinality(S \ {h}) = Cardinality(S) - 1 BY FS_RemoveElement
<1>6. Cardinality(S) \in Nat /\ Cardinality(S \ {h}) \in Nat BY <1>5, FS_CardinalityType
<1>7. IsFiniteSet(T) /\ Cardinality(T) <= Cardinality(S)
  <2>1. /\ IsFiniteSet((S \ {h}) \cup {n})
        /\ Cardinality((S \ {h}) \cup {n}) = IF n \in S \ {h} THEN Cardinality(S \ {h}) ELSE Cardinality(S \ {h}) + 1
    BY <1>5, FS_AddElement
  <2>2. IsFiniteSet(T) /\ Cardinality(T) \in {Cardinality(S \ {h}), Cardinality(S \ {h}) + 1}
    BY <1>3, <2>1
  <2>3. \A a, b \in Nat : b = a - 1 => \A k \in {b, b + 1} : k <= a OBVIOUS
  <2> QED BY <1>5, <1>6, <2>2, <2>3
<1>8. \A t \in T : \E s \in S : t.token = s.token /\ t.secret = s.secret /\ t.again = s.again
  BY <1>3, <1>4
<1>9. \A r, s \in T : r.token = s.token => r = s BY <1>3, <1>4
<1> QED BY <1>0, <1>7, <1>8, <1>9

\* A step that leaves the second factors alone and begins no write of one.
LEMMA FactorKept ==
  ASSUME TypeOK, FactorInv, UNCHANGED <<factor, codes, sessions, issued, entered, clashed>>,
         \A d \in Callers : \/ at'[d] = at[d]
                            \/ at'[d].step # "writing"
                            \/ at'[d].kind \notin FactorKinds
  PROVE  FactorInv'
<1> USE DEF FactorInv
<1>1. \A d \in Callers : \A u : Saving(d, u)' => Saving(d, u) /\ at'[d] = at[d] BY DEF Saving, Writing
<1>2. TokensFit' /\ FewSessions' /\ CodesApart' /\ EnteredSpent' /\ SessionsGood'
  BY DEF TokensFit, FewSessions, CodesApart, EnteredSpent, SessionsGood
<1>3. SecretsApart'
  <2>1. \A u, secret : Has(u, secret)' => Has(u, secret) BY <1>1 DEF Has
  <2> QED BY <2>1 DEF SecretsApart
<1>4. SeenHolds' BY <1>1 DEF SeenHolds
<1>5. CodeGood'
  <2> SUFFICES ASSUME NEW d \in Callers, Under(d, "verify", "writing")'
               PROVE  /\ at'[d] = at[d] /\ Under(d, "verify", "writing")
    BY DEF CodeGood, Unused
  <2> QED BY DEF Under, FactorKinds
<1> QED BY <1>2, <1>3, <1>4, <1>5

\* The check of a code: the call has seen the factor as it is, and its code is good.
LEMMA CheckKeepsFactor ==
  ASSUME TypeOK, FactorInv, NEW c \in Callers, CheckCode(c)
  PROVE  FactorInv'
<1> USE DEF FactorInv
<1> DEFINE u == at[c].user
<1>1. at[c] \in FactorCall /\ u \in People BY KindTypes DEF CheckCode, Idle
<1>2. CASE Ends(c)
  <2>1. \A d \in Callers : at'[d] = at[d] \/ at'[d].step # "writing" BY <1>2 DEF Ends, TypeOK, Idle
  <2> QED BY <2>1, FactorKept DEF CheckCode
<1>3. ASSUME ~Ends(c) PROVE FactorInv'
  <2>1. PICK step, counter :
          /\ step = IF Accepts(at[c], factor[u]) THEN "writing" ELSE "bad"
          /\ counter = matched_counter(factor[u].secret, at[c].code)
          /\ at' = [at EXCEPT ![c] = [at[c] EXCEPT !.step = step, !.seen = factor[u], !.counter = counter]]
    BY <1>3 DEF CheckCode
  <2>2. /\ at'[c].step = step /\ at'[c].seen = factor[u] /\ at'[c].counter = counter
        /\ at'[c].kind = at[c].kind /\ at'[c].user = u /\ at'[c].code = at[c].code
        /\ \A d \in Callers \ {c} : at'[d] = at[d]
    <3>1. \A call \in FactorCall : \A s, f, k :
            LET new == [call EXCEPT !.step = s, !.seen = f, !.counter = k] IN
            /\ new.step = s /\ new.seen = f /\ new.counter = k
            /\ new.kind = call.kind /\ new.user = call.user /\ new.code = call.code
      BY DEF FactorCall
    <3> QED BY <1>1, <2>1, <3>1 DEF TypeOK
  <2>3. UNCHANGED <<factor, codes, sessions, issued, entered, clashed>> BY DEF CheckCode
  <2>4. TokensFit' /\ FewSessions' /\ CodesApart' /\ EnteredSpent' /\ SessionsGood'
    BY <2>3 DEF TokensFit, FewSessions, CodesApart, EnteredSpent, SessionsGood
  <2>5. SecretsApart'
    <3>1. \A v, secret : Has(v, secret)' => Has(v, secret) BY <2>2, <2>3 DEF Has, Saving, Writing
    <3> QED BY <2>3, <3>1 DEF SecretsApart
  <2>6. SeenHolds' BY <2>2, <2>3 DEF SeenHolds, Saving, Writing
  <2>7. ASSUME Under(c, "verify", "writing")'
        PROVE  /\ factor[u].on
               /\ counter # NoCounter =>
                    at[c].code = Totp(factor[u].secret, counter)
                    /\ factor[u].secret # NoSecret /\ counter > factor[u].last
               /\ counter = NoCounter => at[c].code \notin codes[u].issued \/ at[c].code \notin codes[u].used
    <3>1. at[c].kind = "verify" /\ Accepts(at[c], factor[u]) BY <2>1, <2>2, <2>7 DEF Under
    <3>2. factor[u].on /\ factor[u].secret # NoSecret /\ _accept_entry_code(u, factor[u], at[c].code)
      BY <3>1 DEF Accepts
    <3>3. \A k \in Code : k = <<k[1], k[2], k[3]>> BY DEF Code
    <3>4. at[c].code \in Code BY <1>1 DEF FactorCall
    <3>5. counter # NoCounter => at[c].code = Totp(factor[u].secret, counter) /\ counter > factor[u].last
      BY <2>1, <3>2, <3>3, <3>4 DEF _accept_entry_code, matched_counter, Totp
    <3>6. counter = NoCounter => Unused(u, at[c].code) BY <2>1, <3>2 DEF _accept_entry_code
    <3> QED BY <3>2, <3>5, <3>6 DEF Unused
  <2>8. CodeGood' BY <2>2, <2>3, <2>7 DEF CodeGood, Under
  <2> QED BY <2>4, <2>5, <2>6, <2>8
<1> QED BY <1>2, <1>3

\* A call that writes `new` over the factor of its user: it touches no other user, and unless calls of
\* the user overlapped it had seen the row it changes, so that the row is then `new`.
LEMMA SaveFacts ==
  ASSUME TypeOK, FactorInv, NEW c \in Callers, NEW u \in People, Saving(c, u), NEW new \in Factor, Saves(c, new)
  PROVE  /\ at'[c] = Idle /\ \A d \in Callers \ {c} : at'[d] = at[d]
         /\ \A v \in People \ {u} : factor'[v] = factor[v]
         /\ clashed \subseteq clashed'
         /\ u \notin clashed' =>
              /\ at[c].seen = factor[u] /\ factor'[u] = new
              /\ \A d \in Callers \ {c} : ~Saving(d, u)
         /\ factor'[u].secret \in {factor[u].secret, new.secret}
         /\ factor'[u].pending \in {factor[u].pending, new.pending}
<1> USE DEF Saving
<1>1. at[c] \in FactorCall /\ at[c].user = u BY KindTypes DEF Writing, Idle
<1>2. at'[c] = Idle /\ \A d \in Callers \ {c} : at'[d] = at[d] BY DEF Saves, Ends, TypeOK
<1>3. /\ \A v \in People \ {u} : factor'[v] = factor[v]
      /\ factor'[u] = Over(factor[u], at[c].seen, new)
  BY <1>1 DEF Saves, TypeOK
<1>4. clashed \subseteq clashed' /\ (u \notin clashed' => \A d \in Callers \ {c} : ~Saving(d, u))
  BY <1>1 DEF Saves
<1>5. \A held, seen, f \in Factor :
        /\ Over(held, held, f) = f
        /\ Over(held, seen, f).secret \in {held.secret, f.secret}
        /\ Over(held, seen, f).pending \in {held.pending, f.pending}
  <2> SUFFICES ASSUME NEW held \in Factor, NEW seen \in Factor, NEW f \in Factor
               PROVE  /\ Over(held, held, f) = f
                      /\ Over(held, seen, f).secret \in {held.secret, f.secret}
                      /\ Over(held, seen, f).pending \in {held.pending, f.pending}
    OBVIOUS
  <2>1. Over(held, held, f) = f BY DEF Over, Factor
  <2>2. DOMAIN f = {"on", "secret", "pending", "last", "scope"} BY DEF Factor
  <2> QED BY <2>1, <2>2 DEF Over
<1>6. at[c].seen \in Factor /\ factor[u] \in Factor BY <1>1 DEF FactorCall, TypeOK
<1>7. u \notin clashed' => at[c].seen = factor[u] BY <1>4 DEF FactorInv, SeenHolds
<1> QED BY <1>2, <1>3, <1>4, <1>5, <1>6, <1>7

\* Then no user has a secret of another, no call has seen what is no longer so, and the codes of the
\* calls of the others are as good as they were.
LEMMA SaveKeeps ==
  ASSUME TypeOK, FactorInv, NEW c \in Callers, NEW u \in People, Saving(c, u), NEW new \in Factor, Saves(c, new),
         issued' \in Nat, issued <= issued',
         \A secret \in {new.secret, new.pending} \ {NoSecret} :
           Has(u, secret) \/ (issued < secret /\ secret <= issued'),
         \A v \in People \ {u} : codes'[v] = codes[v]
  PROVE  SecretsApart' /\ SeenHolds' /\ CodeGood'
<1> USE SaveFacts DEF FactorInv
<1>1. SecretsApart'
  <2>1. \A secret : \A v \in People \ {u} : Has(v, secret)' => Has(v, secret)
    BY DEF Has, Saving, Writing, Idle
  <2>2. \A secret : Has(u, secret)' => Has(u, secret) \/ secret \in {new.secret, new.pending}
    BY DEF Has, Saving, Writing, Idle
  <2>3. ASSUME NEW secret \in Nat \ {NoSecret}, NEW v \in People, Has(v, secret)'
        PROVE  Has(v, secret) \/ (v = u /\ issued < secret /\ secret <= issued')
    BY <2>1, <2>2, <2>3
  <2>4. issued \in Nat BY DEF TypeOK
  <2>5. ASSUME NEW secret \in Nat \ {NoSecret}, NEW v \in People, Has(v, secret)' PROVE secret <= issued'
    BY <2>3, <2>4, <2>5 DEF SecretsApart
  <2>6. ASSUME NEW secret \in Nat \ {NoSecret}, NEW v \in People, NEW w \in People, Has(v, secret)', Has(w, secret)'
        PROVE  v = w
    <3>1. secret <= issued => Has(v, secret) /\ Has(w, secret) BY <2>3, <2>4, <2>6
    <3>2. ~(secret <= issued) => v = u /\ w = u BY <2>3, <2>6 DEF SecretsApart
    <3> QED BY <3>1, <3>2 DEF SecretsApart
  <2> QED BY <2>5, <2>6 DEF SecretsApart
<1>2. SeenHolds' BY DEF SeenHolds, Saving, Writing, Idle
<1>3. CodeGood'
  <2> SUFFICES ASSUME NEW d \in Callers, Under(d, "verify", "writing")'
               PROVE  /\ d # c /\ at'[d] = at[d] /\ Under(d, "verify", "writing")
                      /\ at[d].user \notin clashed' => at[d].user \notin clashed /\ codes'[at[d].user] = codes[at[d].user]
    BY DEF CodeGood
  <2>1. d # c /\ at'[d] = at[d] /\ Under(d, "verify", "writing") BY DEF Under, Idle
  <2>2. at[d].user \in People BY <2>1, KindTypes DEF Under, Idle
  <2>3. at[d].user = u => u \in clashed' BY <2>1 DEF Saving, Under, Writing, FactorKinds
  <2> QED BY <2>1, <2>2, <2>3
<1> QED BY <1>1, <1>2, <1>3

\* start_enrolment: the pending secret is new, the live one stays.
LEMMA SetupKeepsFactor ==
  ASSUME TypeOK, FactorInv, NEW c \in Callers, start_enrolment(c) PROVE FactorInv'
<1> USE DEF FactorInv
<1> DEFINE u == at[c].user
<1>0. PICK new : new = [at[c].seen EXCEPT !.pending = issued + 1] OBVIOUS
<1>1. at[c] \in FactorCall /\ u \in People /\ Saving(c, u)
  BY KindTypes DEF start_enrolment, Under, Idle, FactorKinds, Saving, Writing
<1>2. /\ new \in Factor /\ new.secret = at[c].seen.secret /\ new.pending = issued + 1
      /\ new.on = at[c].seen.on /\ new.last = at[c].seen.last
  BY <1>0, <1>1 DEF FactorCall, Factor, TypeOK
<1>3. Saves(c, new) /\ issued' = issued + 1 /\ UNCHANGED <<codes, sessions, entered>>
  BY <1>0 DEF start_enrolment
<1>4. issued \in Nat BY DEF TypeOK
<1>5. Has(u, new.secret) BY <1>1, <1>2 DEF Has
<1>6. SecretsApart' /\ SeenHolds' /\ CodeGood'
  BY <1>1, <1>2, <1>3, <1>4, <1>5, SaveKeeps
<1>7. TokensFit' /\ FewSessions' /\ CodesApart'
  <2>1. \A s \in Session : s.token \in Nat BY DEF Session
  <2>2. \A k \in Code : k[2] \in Nat BY DEF Code
  <2> QED BY <1>3, <1>4, <2>1, <2>2 DEF TokensFit, FewSessions, CodesApart, TypeOK, CodeBook
<1>8. /\ \A v \in People \ {u} : factor'[v] = factor[v]
      /\ clashed \subseteq clashed'
      /\ u \notin clashed' => at[c].seen = factor[u] /\ factor'[u] = new
  BY <1>1, <1>2, <1>3, SaveFacts
<1>9. \A k \in entered : k[2] \in Nat BY DEF TypeOK, Code
<1>10. \A v \in People : factor[v].secret \in Nat BY DEF TypeOK, Factor
<1>11. \A v \in People : factor[v].secret = NoSecret \/ factor[v].secret <= issued
  BY <1>10 DEF SecretsApart, Has
<1>12. EnteredSpent'
  <2>1. \A k \in entered' : k[2] <= issued' BY <1>3, <1>4, <1>9 DEF EnteredSpent
  <2>2. u \notin clashed' => factor'[u].pending # factor'[u].secret
    BY <1>1, <1>2, <1>4, <1>8, <1>11, <1>10 DEF NoSecret
  <2>3. ASSUME NEW k \in entered, u \notin clashed'
        PROVE  /\ k \in codes[u].issued => k \in codes[u].used
               /\ k[1] = "totp" /\ factor'[u].secret # NoSecret /\ k[2] = factor'[u].secret => k[3] <= factor'[u].last
               /\ k[2] # factor'[u].pending
    <3>1. k[2] <= issued BY DEF EnteredSpent
    <3>2. k[2] # issued + 1 BY <1>4, <1>9, <3>1
    <3> QED BY <1>1, <1>2, <1>8, <2>3, <3>2 DEF EnteredSpent
  <2> QED BY <1>3, <1>8, <2>1, <2>2, <2>3 DEF EnteredSpent
<1>13. SessionsGood' BY <1>1, <1>2, <1>3, <1>8 DEF SessionsGood
<1> QED BY <1>6, <1>7, <1>12, <1>13

\* enable: the pending secret goes live, and the sessions of the old one close.
LEMMA EnableKeepsFactor ==
  ASSUME TypeOK, FactorInv, NEW c \in Callers, enable(c) PROVE FactorInv'
<1> USE DEF FactorInv
<1> DEFINE u == at[c].user
           new == [on |-> TRUE, secret |-> at[c].seen.pending, pending |-> NoSecret,
                   last |-> NoCounter, scope |-> at[c].scope]
<1>1. at[c] \in FactorCall /\ u \in People /\ Saving(c, u)
  BY KindTypes DEF enable, Under, Idle, FactorKinds, Saving, Writing
<1>2. new \in Factor BY <1>1 DEF FactorCall, Factor, NoSecret, NoCounter
<1>3. Saves(c, new) /\ sessions' = [sessions EXCEPT ![u] = {}] /\ UNCHANGED <<codes, issued, entered>>
  BY DEF enable
<1>4. issued \in Nat BY DEF TypeOK
<1>5. Has(u, new.secret) BY <1>1 DEF Has
<1>6. SecretsApart' /\ SeenHolds' /\ CodeGood' BY <1>1, <1>2, <1>3, <1>4, <1>5, SaveKeeps
<1>7. TokensFit' /\ FewSessions' /\ CodesApart'
  BY <1>1, <1>3, FS_EmptySet, LimitsAssumption DEF TokensFit, FewSessions, CodesApart, TypeOK
<1>8. /\ \A v \in People \ {u} : factor'[v] = factor[v]
      /\ clashed \subseteq clashed'
      /\ u \notin clashed' => at[c].seen = factor[u] /\ factor'[u] = new
  BY <1>1, <1>2, <1>3, SaveFacts
<1>9. EnteredSpent' BY <1>1, <1>3, <1>8 DEF EnteredSpent
<1>10. SessionsGood' BY <1>1, <1>3, <1>8 DEF SessionsGood, TypeOK
<1> QED BY <1>6, <1>7, <1>9, <1>10

\* A call whose backup code or session is gone fails and changes nothing.
LEMMA FailKeepsFactor ==
  ASSUME TypeOK, FactorInv, NEW c \in Callers, Fails(c) PROVE FactorInv'
<1>1. \A d \in Callers : at'[d] = at[d] \/ at'[d].step # "writing" BY DEF Fails, Ends, TypeOK, Idle
<1> QED BY <1>1, FactorKept DEF Fails, factorVars

\* disable: no secret, no codes and no sessions are left.
LEMMA DisableKeepsFactor ==
  ASSUME TypeOK, FactorInv, NEW c \in Callers, disable(c) PROVE FactorInv'
<1> USE DEF FactorInv
<1> DEFINE u == at[c].user
<1>a. PICK new : new = [at[c].seen EXCEPT !.on = FALSE, !.secret = NoSecret, !.pending = NoSecret] OBVIOUS
<1>0. SUFFICES ASSUME ~Stale(c) PROVE FactorInv' BY FailKeepsFactor DEF disable
<1>1. at[c] \in FactorCall /\ u \in People /\ Saving(c, u)
  BY KindTypes DEF disable, Under, Idle, FactorKinds, Saving, Writing
<1>2. new \in Factor /\ new.secret = NoSecret /\ new.pending = NoSecret
  BY <1>a, <1>1 DEF FactorCall, Factor, NoSecret
<1>3. /\ Saves(c, new) /\ sessions' = [sessions EXCEPT ![u] = {}] /\ codes' = [codes EXCEPT ![u] = NoCodes]
      /\ UNCHANGED <<issued, entered>>
  BY <1>a, <1>0 DEF disable
<1>4. issued \in Nat BY DEF TypeOK
<1>5. \A v \in People \ {u} : codes'[v] = codes[v] BY <1>3 DEF TypeOK
<1>6. SecretsApart' /\ SeenHolds' /\ CodeGood' BY <1>1, <1>2, <1>3, <1>4, <1>5, SaveKeeps
<1>7. codes'[u].issued = {} BY <1>1, <1>3 DEF TypeOK, NoCodes
<1>8. TokensFit' /\ FewSessions' /\ CodesApart'
  BY <1>1, <1>3, <1>5, <1>7, FS_EmptySet, LimitsAssumption DEF TokensFit, FewSessions, CodesApart, TypeOK
<1>9. /\ \A v \in People \ {u} : factor'[v] = factor[v]
      /\ clashed \subseteq clashed'
      /\ u \notin clashed' => at[c].seen = factor[u] /\ factor'[u] = new
  BY <1>1, <1>2, <1>3, SaveFacts
<1>10. EnteredSpent' BY <1>1, <1>2, <1>3, <1>5, <1>7, <1>9 DEF EnteredSpent
<1>11. SessionsGood' BY <1>1, <1>3, <1>9 DEF SessionsGood, TypeOK
<1> QED BY <1>6, <1>8, <1>10, <1>11

\* step_up: the session gets a new time and nothing else changes.
LEMMA StepUpKeepsFactor ==
  ASSUME TypeOK, FactorInv, NEW c \in Callers, step_up(c) PROVE FactorInv'
<1> USE DEF FactorInv
<1> DEFINE u == at[c].user
<1>a. PICK S, T : S = sessions[u] /\ T = Stepped(S, at[c].token, now) OBVIOUS
<1>0. SUFFICES ASSUME Holding(u, at[c].token) # {} PROVE FactorInv' BY FailKeepsFactor DEF step_up
<1>1. at[c] \in FactorCall /\ u \in People /\ Saving(c, u)
  BY KindTypes DEF step_up, Under, Idle, FactorKinds, Saving, Writing
<1>2. at[c].seen \in Factor BY <1>1 DEF FactorCall
<1>3. /\ Saves(c, at[c].seen) /\ sessions' = [sessions EXCEPT ![u] = T] /\ UNCHANGED <<codes, issued, entered>>
  <2>1. T = {IF s \in Holding(u, at[c].token) THEN [s EXCEPT !.stepped = now] ELSE s : s \in sessions[u]}
    BY <1>a DEF Stepped, Holding
  <2> QED BY <1>0, <2>1 DEF step_up
<1>4. issued \in Nat /\ now \in Nat BY DEF TypeOK
<1>5. Has(u, at[c].seen.secret) /\ Has(u, at[c].seen.pending) BY <1>1 DEF Has
<1>6. SecretsApart' /\ SeenHolds' /\ CodeGood' BY <1>1, <1>2, <1>3, <1>4, <1>5, SaveKeeps
<1>7. /\ IsFiniteSet(T) /\ Cardinality(T) <= Cardinality(S)
      /\ \A t \in T : \E s \in S : t.token = s.token /\ t.secret = s.secret /\ t.again = s.again
      /\ \A r, s \in T : r.token = s.token => r = s
  <2>1. S \in SUBSET Session /\ IsFiniteSet(S) /\ \A r, s \in S : r.token = s.token => r = s
    BY <1>a, <1>1 DEF TypeOK, TokensFit
  <2>2. \E s \in S : s.token = at[c].token BY <1>0, <1>a DEF Holding
  <2> QED BY <1>a, <1>4, <2>1, <2>2, StepUpFits
<1>8. \A v \in People : sessions'[v] = IF v = u THEN T ELSE sessions[v] BY <1>1, <1>3 DEF TypeOK
<1>9. Cardinality(S) \in Nat /\ Cardinality(T) \in Nat
  BY <1>a, <1>1, <1>7, FS_CardinalityType DEF TokensFit
<1>10. TokensFit' BY <1>a, <1>1, <1>3, <1>7, <1>8 DEF TokensFit
<1>11. FewSessions'
  <2>1. Cardinality(T) <= MAX_SESSIONS_PER_USER
    BY <1>a, <1>1, <1>7, <1>9, LimitsAssumption DEF FewSessions
  <2> QED BY <1>8, <2>1 DEF FewSessions
<1>12. /\ \A v \in People \ {u} : factor'[v] = factor[v]
       /\ clashed \subseteq clashed'
       /\ u \notin clashed' => factor'[u] = factor[u]
  BY <1>1, <1>2, <1>3, SaveFacts
<1>13. CodesApart' BY <1>3 DEF CodesApart
<1>14. EnteredSpent' BY <1>1, <1>3, <1>12 DEF EnteredSpent
<1>15. SessionsGood' BY <1>a, <1>1, <1>7, <1>8, <1>12 DEF SessionsGood
<1> QED BY <1>6, <1>10, <1>11, <1>13, <1>14, <1>15

\* generate_backup_codes: the new set is of this user alone, and no code of it has been entered.
LEMMA CodesKeepFactor ==
  ASSUME TypeOK, FactorInv, NEW c \in Callers, generate_backup_codes(c) PROVE FactorInv'
<1> USE DEF FactorInv
<1> DEFINE u == at[c].user
<1>1. at[c] \in FactorCall /\ u \in People
  BY KindTypes DEF generate_backup_codes, Under, Idle, FactorKinds
<1>2. PICK B : B = {Backup(issued + 1, i) : i \in 1..BACKUP_CODE_COUNT} OBVIOUS
<1>3. \A k \in B : k[1] = "backup" /\ k[2] = issued + 1 BY <1>2 DEF Backup
<1>4. codes'[u].issued = B /\ codes'[u].used = {} /\ \A v \in People \ {u} : codes'[v] = codes[v]
  BY <1>1, <1>2 DEF generate_backup_codes, TypeOK
<1>5. issued' = issued + 1 /\ UNCHANGED <<factor, sessions, entered, clashed>> /\ Ends(c)
  BY DEF generate_backup_codes
<1>6. \A d \in Callers : at'[d] = at[d] \/ at'[d] = Idle BY <1>5 DEF Ends, TypeOK
<1>7. issued \in Nat BY DEF TypeOK
<1>8. TokensFit' /\ FewSessions'
  <2>1. \A v \in People : \A s \in sessions[v] : s.token \in Nat BY DEF TypeOK, Session
  <2> QED BY <1>5, <1>7, <2>1 DEF TokensFit, FewSessions
<1>9. \A v \in People : \A k \in codes[v].issued : k[2] \in Nat BY DEF TypeOK, CodeBook, Code
<1>10. CodesApart'
  <2>1. \A v \in People : \A k \in codes[v].issued : k[1] = "backup" /\ k[2] <= issued' /\ k[2] # issued + 1
    BY <1>5, <1>7, <1>9 DEF CodesApart
  <2>2. \A k \in B : k[1] = "backup" /\ k[2] <= issued' BY <1>3, <1>5, <1>7
  <2>3. \A v \in People : B \cap codes[v].issued = {} BY <1>3, <2>1
  <2> QED BY <1>4, <2>1, <2>2, <2>3 DEF CodesApart
<1>11. SecretsApart'
  <2>1. \A v, secret : Has(v, secret)' => Has(v, secret) BY <1>5, <1>6 DEF Has, Saving, Writing, Idle
  <2> QED BY <1>5, <1>7, <2>1 DEF SecretsApart
<1>12. SeenHolds' BY <1>5, <1>6 DEF SeenHolds, Saving, Writing, Idle
<1>13. CodeGood'
  <2> SUFFICES ASSUME NEW d \in Callers, Under(d, "verify", "writing")'
               PROVE  /\ at'[d] = at[d] /\ Under(d, "verify", "writing")
                      /\ codes'[at[d].user] = codes[at[d].user] \/ codes'[at[d].user].used = {}
    BY <1>5 DEF CodeGood
  <2>1. at'[d] = at[d] /\ Under(d, "verify", "writing") BY <1>6 DEF Under, Idle
  <2>2. at[d].user \in People BY <2>1, KindTypes DEF Under, Idle
  <2> QED BY <1>4, <2>1, <2>2
<1>14. EnteredSpent'
  <2>1. \A k \in entered : k[2] \in Nat /\ k[2] <= issued BY DEF TypeOK, Code, EnteredSpent
  <2>2. \A k \in entered : k[2] <= issued' /\ k \notin B BY <1>3, <1>5, <1>7, <2>1
  <2> QED BY <1>4, <1>5, <2>2 DEF EnteredSpent
<1>15. SessionsGood' BY <1>5 DEF SessionsGood
<1> QED BY <1>8, <1>10, <1>11, <1>12, <1>13, <1>14, <1>15

\* delete_user: nothing of the user's second factor is left, nor a call of theirs about to write it.
LEMMA DeletionKeepsFactor ==
  ASSUME TypeOK, FactorInv, NEW c \in Callers, delete_user(c) PROVE FactorInv'
<1> USE DEF FactorInv
<1>0. PICK u : u = at[c].target OBVIOUS
<1>1. at[c] \in DeleteUserCall /\ u \in People
  BY <1>0, KindTypes DEF delete_user, Writes, Under, Idle, DeleteUserCall
<1>2. /\ factor'[u] = Off /\ codes'[u] = NoCodes /\ sessions'[u] = {}
      /\ \A v \in People \ {u} : factor'[v] = factor[v] /\ codes'[v] = codes[v] /\ sessions'[v] = sessions[v]
      /\ UNCHANGED <<issued, entered, clashed>>
  BY <1>0, <1>1 DEF delete_user, TypeOK
<1>3. \A d \in Callers : at'[d] = at[d] \/ at'[d] = Idle BY DEF delete_user, TypeOK
<1>4. \A d \in Callers : ~Saving(d, u)'
  <2> SUFFICES ASSUME NEW d \in Callers, at'[d] # Idle, at'[d].kind \in FactorKinds, at'[d].user = u
        PROVE FALSE
    BY DEF Saving, Writing, Idle
  <2> QED BY <1>0 DEF delete_user, TypeOK
<1>5. \A d \in Callers : \A v : Saving(d, v)' => v # u /\ Saving(d, v) /\ at'[d] = at[d]
  BY <1>3, <1>4 DEF Saving, Writing, Idle
<1>6. TokensFit' /\ FewSessions' /\ CodesApart'
  <2>1. TokensFit' BY <1>2, FS_EmptySet DEF TokensFit
  <2>2. FewSessions'
    <3>1. Cardinality(sessions'[u]) = 0 BY <1>2, FS_EmptySet
    <3>2. \A v \in People \ {u} : sessions'[v] = sessions[v] BY <1>2
    <3> QED BY <3>1, <3>2, LimitsAssumption DEF FewSessions
  <2>3. CodesApart'
    <3>1. codes'[u].issued = {} BY <1>2 DEF NoCodes
    <3> QED BY <1>2, <3>1 DEF CodesApart
  <2> QED BY <2>1, <2>2, <2>3
<1>7. SecretsApart'
  <2>1. \A secret \in Nat \ {NoSecret} : ~Has(u, secret)' BY <1>2, <1>4 DEF Has, Off
  <2>2. \A secret : \A v \in People \ {u} : Has(v, secret)' => Has(v, secret) BY <1>2, <1>5 DEF Has
  <2> QED BY <1>2, <2>1, <2>2 DEF SecretsApart
<1>8. SeenHolds' BY <1>2, <1>5 DEF SeenHolds
<1>9. CodeGood'
  <2> SUFFICES ASSUME NEW d \in Callers, Under(d, "verify", "writing")'
               PROVE  at'[d] = at[d] /\ Under(d, "verify", "writing") /\ codes'[at[d].user] = codes[at[d].user]
    BY <1>2 DEF CodeGood
  <2>1. PICK v : v = at'[d].user OBVIOUS
  <2>2. Saving(d, v)' BY <2>1 DEF Saving, Under, Writing, FactorKinds
  <2>3. at'[d] = at[d] /\ at[d].user # u /\ Under(d, "verify", "writing") BY <1>5, <2>1, <2>2 DEF Under
  <2>4. at[d].user \in People BY <2>3, KindTypes DEF Under, Idle
  <2> QED BY <1>2, <2>3, <2>4
<1>10. EnteredSpent' BY <1>2 DEF EnteredSpent, Off, NoCodes
<1>11. SessionsGood' BY <1>2 DEF SessionsGood
<1> QED BY <1>6, <1>7, <1>8, <1>9, <1>10, <1>11

\* verify_and_open: a code opens one session, and no code opens two.
LEMMA VerifyKeepsFactor ==
  ASSUME TypeOK, FactorInv, NEW c \in Callers, verify_and_open(c) PROVE FactorInv'
<1> USE DEF FactorInv
<1> DEFINE u == at[c].user
           code == at[c].code
           counter == at[c].counter
<1>0. SUFFICES ASSUME ~Stale(c) PROVE FactorInv' BY FailKeepsFactor DEF verify_and_open
<1>1. at[c] \in FactorCall /\ u \in People /\ Saving(c, u) /\ Under(c, "verify", "writing")
  BY KindTypes DEF verify_and_open, Under, Idle, FactorKinds, Saving, Writing
<1>2. PICK new : new = IF counter = NoCounter THEN at[c].seen ELSE [at[c].seen EXCEPT !.last = counter] OBVIOUS
<1>3. /\ new \in Factor /\ new.secret = at[c].seen.secret /\ new.pending = at[c].seen.pending
      /\ new.on = at[c].seen.on /\ new.last = IF counter = NoCounter THEN at[c].seen.last ELSE counter
  BY <1>1, <1>2 DEF FactorCall, Factor
<1>4. PICK S, opened : S = {s \in sessions[u] : Valid(s)} \cup {opened} /\ opened = Opened(c, issued + 1) OBVIOUS
<1>5. /\ Saves(c, new) /\ issued' = issued + 1 /\ entered' = entered \cup {code}
      /\ codes' = IF counter = NoCounter THEN Spent(u, code) ELSE codes
      /\ sessions' = [sessions EXCEPT ![u] = _evict_excess_sessions(S)]
  BY <1>0, <1>2, <1>4 DEF verify_and_open
<1>6. issued \in Nat /\ code \in Code /\ counter \in Nat BY <1>1 DEF TypeOK, FactorCall
<1>7. Has(u, new.secret) /\ Has(u, new.pending) BY <1>1, <1>3 DEF Has
<1>8. /\ \A v \in People \ {u} : codes'[v] = codes[v]
      /\ codes'[u].issued = codes[u].issued
      /\ codes'[u].used = IF counter = NoCounter THEN codes[u].used \cup {code} ELSE codes[u].used
  <2>1. counter = NoCounter => code \in codes[u].issued BY <1>0 DEF Stale
  <2> QED BY <1>1, <1>5, <2>1 DEF Spent, TypeOK, CodeBook
<1>9. SecretsApart' /\ SeenHolds' /\ CodeGood' BY <1>1, <1>3, <1>5, <1>6, <1>7, <1>8, SaveKeeps
<1>10. /\ \A v \in People \ {u} : factor'[v] = factor[v]
       /\ clashed \subseteq clashed'
       /\ u \notin clashed' => at[c].seen = factor[u] /\ factor'[u] = new
  BY <1>1, <1>3, <1>5, SaveFacts
<1>11. /\ at[c].seen.on
       /\ counter # NoCounter => code = Totp(at[c].seen.secret, counter)
                                 /\ at[c].seen.secret # NoSecret /\ counter > at[c].seen.last
       /\ counter = NoCounter => code \in codes[u].issued /\ (u \notin clashed => code \notin codes[u].used)
  BY <1>0, <1>1 DEF CodeGood, Stale
<1>12. /\ opened.token = issued + 1 /\ opened.secret = at[c].seen.secret /\ (opened.again <=> code \in entered)
       /\ opened \in Session
  <2>1. opened.token = issued + 1 /\ opened.secret = at[c].seen.secret BY <1>4 DEF Opened
  <2>2. opened.again <=> code \in entered BY <1>4 DEF Opened
  <2>3. opened \in Session BY <1>1, <1>4, OpenedTypes
  <2> QED BY <2>1, <2>2, <2>3
<1>13. /\ S \in SUBSET Session /\ IsFiniteSet(S)
       /\ \A s \in S : s.token \in Nat /\ s.token <= issued + 1
       /\ \A r, s \in S : r.token = s.token => r = s
       /\ \A s \in S : s = opened \/ s \in sessions[u]
  <2>1. sessions[u] \in SUBSET Session /\ IsFiniteSet(sessions[u]) BY <1>1 DEF TypeOK, TokensFit
  <2>2. IsFiniteSet({s \in sessions[u] : Valid(s)}) BY <2>1, FS_Subset
  <2>3. IsFiniteSet(S) BY <1>4, <2>2, FS_AddElement
  <2>4. \A s \in sessions[u] : s.token \in Nat /\ s.token <= issued BY <1>1, <2>1 DEF TokensFit, Session
  <2>5. \A s \in sessions[u] : s.token <= issued + 1 /\ s.token # issued + 1 BY <1>6, <2>4
  <2>6. \A s \in S : s = opened \/ s \in sessions[u] BY <1>4
  <2>7. \A r, s \in S : r.token = s.token => r = s BY <1>1, <1>12, <2>5, <2>6 DEF TokensFit
  <2>8. S \in SUBSET Session BY <1>12, <2>1, <2>6
  <2>9. \A s \in S : s.token \in Nat /\ s.token <= issued + 1 BY <1>6, <1>12, <2>4, <2>5, <2>6
  <2> QED BY <2>3, <2>6, <2>7, <2>8, <2>9
<1>14. PICK E : E = _evict_excess_sessions(S) OBVIOUS
<1>15. E \in SUBSET S /\ IsFiniteSet(E) /\ Cardinality(E) <= MAX_SESSIONS_PER_USER
  BY <1>13, <1>14, EvictFits, FS_Subset DEF _evict_excess_sessions
<1>16. \A v \in People : sessions'[v] = IF v = u THEN E ELSE sessions[v] BY <1>1, <1>5, <1>14 DEF TypeOK
<1>17. TokensFit' /\ FewSessions'
  <2>1. \A v \in People : \A s \in sessions[v] : s.token \in Nat /\ s.token <= issued
    BY DEF TypeOK, TokensFit, Session
  <2>2. \A v \in People : \A s \in sessions[v] : s.token <= issued' BY <1>5, <1>6, <2>1
  <2>3. TokensFit' BY <1>5, <1>13, <1>15, <1>16, <2>2 DEF TokensFit
  <2>4. FewSessions' BY <1>15, <1>16 DEF FewSessions
  <2> QED BY <2>3, <2>4
<1>18. CodesApart'
  <2>1. \A v \in People : \A k \in codes[v].issued : k[2] \in Nat BY DEF TypeOK, CodeBook, Code
  <2>2. \A v \in People : \A k \in codes[v].issued : k[1] = "backup" /\ k[2] <= issued'
    BY <1>5, <1>6, <2>1 DEF CodesApart
  <2>3. \A v \in People : codes'[v].issued = codes[v].issued BY <1>8
  <2> QED BY <2>2, <2>3 DEF CodesApart
<1>19. EnteredSpent'
  <2>1. \A k \in entered : k[2] \in Nat /\ k[3] \in Nat /\ k[2] <= issued
    BY DEF TypeOK, Code, EnteredSpent
  <2>2. code[2] <= issued
    <3>1. CASE counter # NoCounter
      <4>1. Has(u, at[c].seen.secret) /\ at[c].seen.secret \in Nat
        BY <1>1, <1>3, <1>7 DEF FactorCall, Factor
      <4> QED BY <1>1, <1>11, <3>1, <4>1 DEF SecretsApart, Totp
    <3>2. CASE counter = NoCounter BY <1>1, <1>11, <3>2 DEF CodesApart
    <3> QED BY <3>1, <3>2
  <2>3. \A k \in entered' : k[2] <= issued'
    <3>1. code[2] \in Nat BY <1>6 DEF Code
    <3> QED BY <1>5, <1>6, <2>1, <2>2, <3>1
  <2>4. ASSUME NEW v \in People \ {u}
        PROVE  /\ code \notin codes[v].issued
               /\ code[1] = "totp" /\ factor[v].secret # NoSecret => code[2] # factor[v].secret
               /\ code[1] = "totp" /\ factor[v].pending # NoSecret => code[2] # factor[v].pending
    <3>1. CASE counter # NoCounter
      <4>1. code[1] = "totp" /\ code[2] = at[c].seen.secret BY <1>11, <3>1 DEF Totp
      <4>2. code \notin codes[v].issued BY <4>1 DEF CodesApart
      <4>3. \A secret \in Nat \ {NoSecret} : Has(v, secret) => secret # at[c].seen.secret
        BY <1>1, <1>3, <1>7 DEF SecretsApart
      <4>4. /\ Has(v, factor[v].secret) /\ Has(v, factor[v].pending)
            /\ factor[v].secret \in Nat /\ factor[v].pending \in Nat
        BY DEF Has, TypeOK, Factor
      <4> QED BY <4>1, <4>2, <4>3, <4>4
    <3>2. CASE counter = NoCounter BY <1>1, <1>11, <3>2 DEF CodesApart
    <3> QED BY <3>1, <3>2
  <2>5. ASSUME NEW v \in People \ {u}, v \notin clashed', NEW k \in entered'
        PROVE  /\ k \in codes'[v].issued => k \in codes'[v].used
               /\ k[1] = "totp" /\ factor'[v].secret # NoSecret /\ k[2] = factor'[v].secret => k[3] <= factor'[v].last
               /\ k[1] = "totp" /\ factor'[v].pending # NoSecret => k[2] # factor'[v].pending
    <3>1. v \notin clashed /\ factor'[v] = factor[v] /\ codes'[v] = codes[v] BY <1>8, <1>10, <2>5
    <3>2. CASE k = code BY <2>4, <3>1, <3>2
    <3>3. CASE k \in entered BY <3>1, <3>3 DEF EnteredSpent
    <3> QED BY <1>5, <3>2, <3>3
  <2>6. ASSUME u \notin clashed', NEW k \in entered'
        PROVE  /\ k \in codes'[u].issued => k \in codes'[u].used
               /\ k[1] = "totp" /\ factor'[u].secret # NoSecret /\ k[2] = factor'[u].secret => k[3] <= factor'[u].last
               /\ k[1] = "totp" /\ factor'[u].pending # NoSecret => k[2] # factor'[u].pending
    <3>1. u \notin clashed /\ at[c].seen = factor[u] /\ factor'[u] = new BY <1>10, <2>6
    <3>2. factor[u].last \in Nat BY <1>1 DEF TypeOK, Factor
    <3>3. CASE k \in entered
      <4>1. /\ k \in codes[u].issued => k \in codes[u].used
            /\ k[1] = "totp" /\ factor[u].secret # NoSecret /\ k[2] = factor[u].secret => k[3] <= factor[u].last
            /\ k[1] = "totp" /\ factor[u].pending # NoSecret => k[2] # factor[u].pending
        BY <1>1, <3>1, <3>3 DEF EnteredSpent
      <4>2. \A n \in Nat : n <= factor[u].last => n <= new.last BY <1>3, <1>6, <1>11, <3>1, <3>2
      <4> QED BY <1>3, <1>8, <2>1, <3>1, <3>3, <4>1, <4>2
    <3>4. CASE k = code /\ counter # NoCounter
      <4>1. k[1] = "totp" /\ k[2] = factor[u].secret /\ k[3] = counter /\ factor[u].secret # NoSecret
        BY <1>11, <3>1, <3>4 DEF Totp
      <4>2. k \notin codes[u].issued BY <1>1, <4>1 DEF CodesApart
      <4>3. factor[u].pending # NoSecret => factor[u].pending # factor[u].secret
        BY <1>1, <3>1 DEF EnteredSpent
      <4> QED BY <1>3, <1>6, <1>8, <3>1, <3>4, <4>1, <4>2, <4>3
    <3>5. CASE k = code /\ counter = NoCounter
      <4>1. k[1] = "backup" BY <1>1, <1>11, <3>5 DEF CodesApart
      <4> QED BY <1>8, <3>5, <4>1
    <3> QED BY <1>5, <3>3, <3>4, <3>5
  <2>7. \A v \in People \ clashed' : factor'[v].pending # NoSecret => factor'[v].pending # factor'[v].secret
    BY <1>1, <1>3, <1>10 DEF EnteredSpent
  <2> QED BY <2>3, <2>5, <2>6, <2>7 DEF EnteredSpent
<1>20. SessionsGood'
  <2>1. ASSUME u \notin clashed' PROVE code \notin entered
    <3>1. u \notin clashed /\ at[c].seen = factor[u] BY <1>10, <2>1
    <3>2. CASE counter # NoCounter
      <4>1. code[1] = "totp" /\ code[2] = factor[u].secret /\ code[3] = counter
            /\ factor[u].secret # NoSecret /\ counter > factor[u].last
        BY <1>11, <3>1, <3>2 DEF Totp
      <4>2. factor[u].last \in Nat BY <1>1 DEF TypeOK, Factor
      <4>3. ~(counter <= factor[u].last) BY <1>6, <4>1, <4>2
      <4> QED BY <1>1, <3>1, <4>1, <4>3 DEF EnteredSpent
    <3>3. CASE counter = NoCounter BY <1>1, <1>11, <3>1, <3>3 DEF EnteredSpent
    <3> QED BY <3>2, <3>3
  <2>2. ASSUME u \notin clashed', NEW s \in E
        PROVE factor'[u].on /\ s.secret = factor'[u].secret /\ ~s.again
    <3>1. u \notin clashed /\ at[c].seen = factor[u] /\ factor'[u] = new BY <1>10, <2>2
    <3>2. CASE s = opened BY <1>3, <1>11, <1>12, <2>1, <2>2, <3>1, <3>2
    <3>3. CASE s \in sessions[u] BY <1>1, <1>3, <3>1, <3>3 DEF SessionsGood
    <3> QED BY <1>13, <1>15, <3>2, <3>3
  <2> QED BY <1>10, <1>16, <2>2 DEF SessionsGood
<1> QED BY <1>9, <1>17, <1>18, <1>19, <1>20

\* Every step keeps the invariant of the second factor.
LEMMA StepKeepsFactor == TypeOK /\ FactorInv /\ [Next]_vars => FactorInv'
<1> SUFFICES ASSUME TypeOK, FactorInv, [Next]_vars PROVE FactorInv' OBVIOUS
<1> USE DEF factorVars
<1>1. CASE Tick \/ (\E u \in People : resolve_current_user(u)) \/ (\E r \in Rows : AddRow(r)) \/ UNCHANGED vars
  BY <1>1, FactorKept DEF Tick, resolve_current_user, AddRow, vars
<1>2. ASSUME NEW c \in Callers, _auth_guard(c) PROVE FactorInv'
  BY <1>2, AdmitFrame, FactorKept DEF _auth_guard
<1>3. ASSUME NEW c \in Callers, Factors(c) PROVE FactorInv'
  <2>1. CASE AiCheck(c) \/ AiRecord(c) \/ _bad_code(c)
    <3>1. at[c].kind = "ai" \/ Ends(c) BY <2>1 DEF AiCheck, AiRecord, _bad_code, Under
    <3>2. \A d \in Callers : \/ at'[d] = at[d] \/ at'[d].step # "writing" \/ at'[d].kind \notin FactorKinds
      BY <1>3, <3>1, FactorFrame DEF Factors, Ends, TypeOK, Idle, FactorKinds
    <3> QED BY <2>1, <3>2, FactorKept DEF AiCheck, AiRecord, _bad_code
  <2> QED
    BY <1>3, <2>1, CheckKeepsFactor, SetupKeepsFactor, EnableKeepsFactor, DisableKeepsFactor, VerifyKeepsFactor,
       StepUpKeepsFactor, CodesKeepFactor DEF Factors, FactorStep
<1>4. ASSUME NEW c \in Callers, UserStep(c) PROVE FactorInv'
  <2>1. CASE delete_user(c) BY <2>1, DeletionKeepsFactor
  <2>2. CASE ~delete_user(c)
    <3>1. \A d \in Callers : \/ at'[d] = at[d] \/ at'[d].step # "writing" \/ at'[d].kind \notin FactorKinds
      BY <1>4, UserFrame DEF FactorKinds, Idle
    <3> QED BY <1>4, <2>2, <3>1, FactorKept
          DEF UserStep, UpdateUserCheck, _apply_user_changes, DeleteUserCheck, Checks, Writes
  <2> QED BY <2>1, <2>2
<1>5. ASSUME NEW c \in Callers, AccountStep(c) PROVE FactorInv'
  <2>1. \A d \in Callers : \/ at'[d] = at[d] \/ at'[d].step # "writing" \/ at'[d].kind \notin FactorKinds
    BY <1>5, AccountFrame DEF FactorKinds, Idle
  <2> QED BY <1>5, <2>1, FactorKept
        DEF AccountStep, CreateAccountCheck, create_account, UpdateAccountCheck, update_account,
            DeleteAccountCheck, delete_account, MergeAccountCheck, merge_account, Checks, Writes
<1> QED BY <1>1, <1>2, <1>3, <1>4, <1>5 DEF Next

\* A user has at most MAX_SESSIONS_PER_USER sessions; unless two of their calls overlapped, each is of
\* the live secret and opened by a code that has opened no other (mfa_service.verify_and_open).
THEOREM SessionsTheorem == Spec => []SessionsFit
<1>1. Init => FactorInv
  <2> SUFFICES ASSUME Init PROVE FactorInv OBVIOUS
  <2>1. PICK h \in Households : factor = h.factor BY DEF Init
  <2>2. /\ \A u \in People : factor[u].secret <= 1 /\ factor[u].pending = NoSecret
        /\ \A u, v \in People : factor[u].secret = factor[v].secret => u = v \/ factor[u].secret = NoSecret
    BY <2>1, HouseholdsAssumption
  <2>3. \A c \in Callers : ~Writing(c) BY DEF Init, FactorInit, Writing, Idle
  <2>4. \A u \in People : sessions[u] = {} /\ codes[u].issued = {} BY DEF Init, FactorInit, NoCodes
  <2>5. issued = 1 /\ entered = {} BY DEF Init, FactorInit
  <2>6. TokensFit /\ FewSessions BY <2>4, FS_EmptySet, LimitsAssumption DEF TokensFit, FewSessions
  <2>7. SecretsApart
    <3>1. \A u \in People, secret \in Nat \ {NoSecret} : Has(u, secret) => secret = factor[u].secret
      BY <2>2, <2>3 DEF Has, Saving
    <3> QED BY <2>2, <2>5, <3>1 DEF SecretsApart
  <2>8. CodesApart BY <2>4 DEF CodesApart
  <2>9. SeenHolds /\ CodeGood BY <2>3 DEF SeenHolds, CodeGood, Saving, Under, Writing
  <2>10. EnteredSpent BY <2>2, <2>5 DEF EnteredSpent
  <2>11. SessionsGood BY <2>4 DEF SessionsGood
  <2> QED BY <2>6, <2>7, <2>8, <2>9, <2>10, <2>11 DEF FactorInv
<1>2. FactorInv => SessionsFit BY DEF FactorInv, FewSessions, SessionsGood, SessionsFit
<1> QED BY <1>1, <1>2, InitTypes, StepTypes, StepKeepsFactor, PTL DEF Spec

-------------------------------------------------------------------------------
(* The throttles.  A call that has passed a throttle and not yet been recorded *)
(* counts against it, or two threads could pass on the same list again and     *)
(* again.                                                                      *)

Times == SUBSET (Nat \X Nat)
Bad(u) == {c \in Callers : at[c].step = "bad" /\ at[c].user = u}
Asking(u) == {c \in Callers : Under(c, "ai", "writing") /\ at[c].user = u}

\* What is recorded inside the window and what is under way keep to the limit.
Within(recent, under, limit) ==
  IsFiniteSet(recent) /\ Cardinality(recent) + Cardinality(under) < limit + Cardinality(Callers)

\* Those whose codes were never looked at in the last second of another.
CodesWithin == \A u \in People \ lapsed : Within(Recent(failed[u], MFA_LOCKOUT), Bad(u), MFA_MAX_FAILED)
CallsWithin == AiPerMinute > 0 => \A u \in People : Within(Recent(asked[u], RATE_WINDOW), Asking(u), AiPerMinute)

ThrottleInv ==
  /\ failed \in [People -> Times] /\ asked \in [People -> Times]
  /\ \A u \in People : IsFiniteSet(Recent(failed[u], MFA_LOCKOUT)) /\ IsFiniteSet(Recent(asked[u], RATE_WINDOW))
  /\ CodesWithin /\ CallsWithin

\* Fewer recorded and fewer under way are within the limit, ...
LEMMA FewerWithin ==
  ASSUME NEW limit \in Nat, NEW recent, NEW under \in SUBSET Callers, Within(recent, under, limit),
         NEW recent2 \in SUBSET recent, NEW under2 \in SUBSET under
  PROVE  Within(recent2, under2, limit)
<1>1. IsFiniteSet(recent2) /\ Cardinality(recent2) <= Cardinality(recent) BY FS_Subset DEF Within
<1>2. IsFiniteSet(under) /\ Cardinality(under2) <= Cardinality(under) /\ IsFiniteSet(under2)
  BY FS_Subset, LimitsAssumption
<1>3. /\ Cardinality(recent) \in Nat /\ Cardinality(recent2) \in Nat
      /\ Cardinality(under) \in Nat /\ Cardinality(under2) \in Nat /\ Cardinality(Callers) \in Nat
  BY <1>1, <1>2, FS_CardinalityType, LimitsAssumption DEF Within
<1> QED BY <1>1, <1>2, <1>3 DEF Within

\* ... and so are one more recorded and one fewer under way.
LEMMA RecordedWithin ==
  ASSUME NEW limit \in Nat, NEW recent, NEW under \in SUBSET Callers, Within(recent, under, limit),
         NEW c \in under, NEW stamp, NEW recent2 \in SUBSET (recent \cup {stamp}), NEW under2 \in SUBSET (under \ {c})
  PROVE  Within(recent2, under2, limit)
<1>1. /\ IsFiniteSet(recent \cup {stamp}) /\ IsFiniteSet(recent)
      /\ Cardinality(recent \cup {stamp}) \in {Cardinality(recent), Cardinality(recent) + 1}
  BY FS_AddElement DEF Within
<1>2. IsFiniteSet(recent2) /\ Cardinality(recent2) <= Cardinality(recent \cup {stamp}) BY <1>1, FS_Subset
<1>3. IsFiniteSet(under) BY FS_Subset, LimitsAssumption
<1>4. IsFiniteSet(under \ {c}) /\ Cardinality(under \ {c}) = Cardinality(under) - 1 BY <1>3, FS_RemoveElement
<1>5. IsFiniteSet(under2) /\ Cardinality(under2) <= Cardinality(under \ {c}) BY <1>4, FS_Subset
<1>6. /\ Cardinality(recent) \in Nat /\ Cardinality(recent2) \in Nat /\ Cardinality(recent \cup {stamp}) \in Nat
      /\ Cardinality(under) \in Nat /\ Cardinality(under2) \in Nat /\ Cardinality(Callers) \in Nat
  BY <1>1, <1>2, <1>3, <1>5, FS_CardinalityType, LimitsAssumption
<1> QED BY <1>1, <1>2, <1>4, <1>5, <1>6 DEF Within

\* A call passes while there is room: those under way are at most as many as there are threads.
LEMMA PassedWithin ==
  ASSUME NEW limit \in Nat, NEW recent, IsFiniteSet(recent), Cardinality(recent) < limit,
         NEW recent2 \in SUBSET recent, NEW under2 \in SUBSET Callers
  PROVE  Within(recent2, under2, limit)
<1>1. IsFiniteSet(recent2) /\ Cardinality(recent2) <= Cardinality(recent) BY FS_Subset
<1>2. IsFiniteSet(under2) /\ Cardinality(under2) <= Cardinality(Callers) BY FS_Subset, LimitsAssumption
<1>3. /\ Cardinality(recent) \in Nat /\ Cardinality(recent2) \in Nat
      /\ Cardinality(under2) \in Nat /\ Cardinality(Callers) \in Nat
  BY <1>1, <1>2, FS_CardinalityType, LimitsAssumption
<1> QED BY <1>1, <1>2, <1>3 DEF Within

\* The windows move on, the lists are pruned, and one time is added.
LEMMA RecentFacts ==
  ASSUME TypeOK, NEW span \in Nat, NEW times \in Times
  PROVE  /\ now' \in Nat /\ now' >= now => Recent(times, span)' \subseteq Recent(times, span)
         /\ Recent(times, span) \in Times /\ Recent(Recent(times, span), span) = Recent(times, span)
         /\ IsFiniteSet(Recent(times, span)) => WithNow(times) \in Times
         /\ \E stamp : WithNow(times) = times \cup {stamp}
<1>1. now \in Nat BY DEF TypeOK
<1>2. \A a \in times : a[1] \in Nat BY DEF Times
<1>3. now' \in Nat /\ now' >= now => Recent(times, span)' \subseteq Recent(times, span)
  BY <1>1, <1>2 DEF Recent
<1>4. Recent(times, span) \in Times /\ Recent(Recent(times, span), span) = Recent(times, span)
  BY DEF Recent, Times
<1>5. ASSUME IsFiniteSet(Recent(times, span)) PROVE WithNow(times) \in Times
  <2> DEFINE same == {a \in times : a[1] = now}
  <2>1. same \in SUBSET Recent(times, span) BY <1>1 DEF Recent
  <2>2. Cardinality(same) \in Nat BY <1>5, <2>1, FS_Subset, FS_CardinalityType
  <2> QED BY <1>1, <2>2 DEF WithNow, Times
<1>6. \E stamp : WithNow(times) = times \cup {stamp} BY DEF WithNow
<1> QED BY <1>3, <1>4, <1>5, <1>6

\* A step that records nothing and lets no call past a throttle.
LEMMA ThrottleKept ==
  ASSUME TypeOK, ThrottleInv, now' \in Nat, now' >= now, lapsed \subseteq lapsed',
         failed' \in [People -> Times], asked' \in [People -> Times],
         \A u \in People : failed'[u] \subseteq failed[u] /\ asked'[u] \subseteq asked[u],
         \A d \in Callers : \/ at'[d] = at[d]
                            \/ at'[d].step \notin {"bad", "writing"}
                            \/ at'[d].step = "writing" /\ at'[d].kind # "ai"
  PROVE  ThrottleInv'
<1>1. ASSUME NEW u \in People
      PROVE  /\ Recent(failed[u], MFA_LOCKOUT)' \in SUBSET Recent(failed[u], MFA_LOCKOUT)
             /\ Recent(asked[u], RATE_WINDOW)' \in SUBSET Recent(asked[u], RATE_WINDOW)
             /\ Bad(u)' \in SUBSET Bad(u) /\ Asking(u)' \in SUBSET Asking(u)
  <2>1. \A a \in failed[u] \cup asked[u] : a[1] \in Nat BY DEF ThrottleInv, Times
  <2>2. now \in Nat /\ MFA_LOCKOUT \in Nat /\ RATE_WINDOW \in Nat BY LimitsAssumption DEF TypeOK
  <2>3. /\ Recent(failed[u], MFA_LOCKOUT)' \in SUBSET Recent(failed[u], MFA_LOCKOUT)
        /\ Recent(asked[u], RATE_WINDOW)' \in SUBSET Recent(asked[u], RATE_WINDOW)
    BY <2>1, <2>2 DEF Recent
  <2>4. Bad(u)' \in SUBSET Bad(u) BY DEF Bad
  <2>5. Asking(u)' \in SUBSET Asking(u) BY DEF Asking, Under
  <2> QED BY <2>3, <2>4, <2>5
<1>2. CodesWithin'
  <2> SUFFICES ASSUME NEW u \in People \ lapsed' PROVE Within(Recent(failed[u], MFA_LOCKOUT), Bad(u), MFA_MAX_FAILED)'
    BY DEF CodesWithin
  <2>1. Within(Recent(failed[u], MFA_LOCKOUT), Bad(u), MFA_MAX_FAILED) BY DEF ThrottleInv, CodesWithin
  <2>2. Bad(u) \in SUBSET Callers BY DEF Bad
  <2>3. Within(Recent(failed[u], MFA_LOCKOUT)', Bad(u)', MFA_MAX_FAILED)
    BY <1>1, <2>1, <2>2, FewerWithin, LimitsAssumption
  <2> QED BY <2>3 DEF Within
<1>3. CallsWithin'
  <2> SUFFICES ASSUME AiPerMinute > 0, NEW u \in People
               PROVE  Within(Recent(asked[u], RATE_WINDOW), Asking(u), AiPerMinute)'
    BY DEF CallsWithin
  <2>1. Within(Recent(asked[u], RATE_WINDOW), Asking(u), AiPerMinute) BY DEF ThrottleInv, CallsWithin
  <2>2. Asking(u) \in SUBSET Callers BY DEF Asking
  <2>3. Within(Recent(asked[u], RATE_WINDOW)', Asking(u)', AiPerMinute)
    BY <1>1, <2>1, <2>2, FewerWithin, LimitsAssumption
  <2> QED BY <2>3 DEF Within
<1>4. \A u \in People : IsFiniteSet(Recent(failed[u], MFA_LOCKOUT))' /\ IsFiniteSet(Recent(asked[u], RATE_WINDOW))'
  BY <1>1, FS_Subset DEF ThrottleInv
<1> QED BY <1>2, <1>3, <1>4 DEF ThrottleInv

\* CheckCode: a code is only looked at while the user is not locked out.
LEMMA CheckKeepsThrottle ==
  ASSUME TypeOK, ThrottleInv, NEW c \in Callers, CheckCode(c), UNCHANGED now PROVE ThrottleInv'
<1>0. PICK u : u = at[c].user OBVIOUS
<1>1. at[c] \in FactorCall /\ u \in People BY <1>0, KindTypes DEF CheckCode, Idle, FactorCall
<1>2. now \in Nat /\ MFA_LOCKOUT \in Nat BY LimitsAssumption DEF TypeOK
<1>3. /\ failed' = [failed EXCEPT ![u] = Recent(failed[u], MFA_LOCKOUT)] /\ asked' = asked
      /\ Recent(failed[u], MFA_LOCKOUT) \subseteq failed[u] /\ Recent(failed[u], MFA_LOCKOUT) \in Times
  BY <1>0, <1>1 DEF CheckCode, Recent, ThrottleInv, Times
<1>4. /\ failed' \in [People -> Times] /\ asked' \in [People -> Times]
      /\ \A v \in People : failed'[v] \subseteq failed[v] /\ asked'[v] \subseteq asked[v]
  BY <1>1, <1>3 DEF ThrottleInv
<1>45. lapsed \subseteq lapsed' BY DEF CheckCode
<1>5. CASE Ends(c)
  <2>1. \A d \in Callers : at'[d] = at[d] \/ at'[d].step = "idle" BY <1>5 DEF Ends, TypeOK, Idle
  <2> QED BY <1>2, <1>4, <1>45, <2>1, ThrottleKept
<1>6. ASSUME ~Ends(c) PROVE ThrottleInv'
  <2>1. /\ ~Throttled(at[c])
        /\ \E step, seen, counter :
             /\ step = IF Accepts(at[c], factor[u]) THEN "writing" ELSE "bad"
             /\ at' = [at EXCEPT ![c] = [at[c] EXCEPT !.step = step, !.seen = seen, !.counter = counter]]
    BY <1>0, <1>6 DEF CheckCode
  <2>2. PICK step, seen, counter :
          /\ step = IF Accepts(at[c], factor[u]) THEN "writing" ELSE "bad"
          /\ at' = [at EXCEPT ![c] = [at[c] EXCEPT !.step = step, !.seen = seen, !.counter = counter]]
    BY <2>1
  <2>3. /\ at'[c].step = step /\ at'[c].kind = at[c].kind /\ at'[c].user = u
        /\ at[c].kind \in FactorKinds /\ \A d \in Callers \ {c} : at'[d] = at[d]
    <3>1. \A call \in FactorCall : \A s, f, k :
            LET new == [call EXCEPT !.step = s, !.seen = f, !.counter = k] IN
            new.step = s /\ new.kind = call.kind /\ new.user = call.user
      BY DEF FactorCall
    <3> QED BY <1>0, <1>1, <2>2, <3>1 DEF TypeOK, FactorCall
  <2>4. CASE Accepts(at[c], factor[u])
    <3>1. \A d \in Callers : at'[d] = at[d] \/ (at'[d].step = "writing" /\ at'[d].kind # "ai")
      BY <2>2, <2>3, <2>4 DEF FactorKinds
    <3> QED BY <1>2, <1>4, <1>45, <3>1, ThrottleKept
  <2>5. CASE ~Accepts(at[c], factor[u])
    <3>0. lapsed \subseteq lapsed' /\ (u \notin lapsed' => ~Expiring(u)) BY <1>0, <2>2, <2>3, <2>5 DEF CheckCode
    <3>1. ~LockedOut(u)
      <4>1. at[c].kind # "backup_codes" BY <1>0, <1>6, <2>5 DEF CheckCode
      <4>2. at[c].kind = "setup" => factor[u].on BY <2>5 DEF Accepts
      <4> QED BY <1>0, <2>1, <4>1, <4>2 DEF Throttled
    <3>2. IsFiniteSet(Recent(failed[u], MFA_LOCKOUT)) BY <1>1 DEF ThrottleInv
    <3>3. u \notin lapsed' => Cardinality(Recent(failed[u], MFA_LOCKOUT)) < MFA_MAX_FAILED
      BY <3>0, <3>1, <3>2, FS_CardinalityType, LimitsAssumption DEF LockedOut
    <3>4. \A v \in People : Asking(v)' = Asking(v) /\ (v # u => Bad(v)' = Bad(v))
      <4>1. at'[c].step = "bad" /\ at[c].step = "admitted" BY <2>2, <2>3, <2>5 DEF CheckCode
      <4>2. at[c].user = u BY <1>0
      <4> QED BY <2>3, <4>1, <4>2 DEF Asking, Bad, Under
    <3>5. CodesWithin'
      <4> SUFFICES ASSUME NEW v \in People \ lapsed' PROVE Within(Recent(failed[v], MFA_LOCKOUT), Bad(v), MFA_MAX_FAILED)'
        BY DEF CodesWithin
      <4>1. CASE v # u
        <5>1. failed'[v] = failed[v] BY <1>3, <4>1 DEF ThrottleInv
        <5> QED BY <3>0, <3>4, <4>1, <5>1 DEF ThrottleInv, CodesWithin, Within, Recent
      <4>2. CASE v = u
        <5>1. Recent(failed[v], MFA_LOCKOUT)' \in SUBSET Recent(failed[u], MFA_LOCKOUT)
          BY <1>4, <4>2 DEF Recent
        <5>2. Bad(v)' \in SUBSET Callers BY DEF Bad
        <5>3. Within(Recent(failed[v], MFA_LOCKOUT)', Bad(v)', MFA_MAX_FAILED)
          BY <3>2, <3>3, <4>2, <5>1, <5>2, PassedWithin, LimitsAssumption
        <5> QED BY <5>3 DEF Within
      <4> QED BY <4>1, <4>2
    <3>6. CallsWithin' BY <1>3, <3>4 DEF ThrottleInv, CallsWithin, Within, Recent
    <3>7. \A v \in People : IsFiniteSet(Recent(failed[v], MFA_LOCKOUT))' /\ IsFiniteSet(Recent(asked[v], RATE_WINDOW))'
      <4>1. \A v \in People : Recent(failed[v], MFA_LOCKOUT)' \subseteq Recent(failed[v], MFA_LOCKOUT)
        BY <1>4 DEF Recent
      <4>2. \A v \in People : Recent(asked[v], RATE_WINDOW)' = Recent(asked[v], RATE_WINDOW) BY <1>3 DEF Recent
      <4> QED BY <4>1, <4>2, FS_Subset DEF ThrottleInv
    <3> QED BY <1>4, <3>5, <3>6, <3>7 DEF ThrottleInv
  <2> QED BY <2>4, <2>5
<1> QED BY <1>5, <1>6

\* _bad_code: a wrong code under way becomes one that is recorded.
LEMMA BadKeepsThrottle ==
  ASSUME TypeOK, ThrottleInv, NEW c \in Callers, _bad_code(c), UNCHANGED now PROVE ThrottleInv'
<1>0. PICK u : u = at[c].user OBVIOUS
<1>1. at[c].step = "bad" /\ u \in People BY <1>0, KindTypes DEF _bad_code, Idle
<1>2. now \in Nat /\ MFA_LOCKOUT \in Nat BY LimitsAssumption DEF TypeOK
<1>3. IsFiniteSet(Recent(failed[u], MFA_LOCKOUT)) /\ failed[u] \in Times
  BY <1>1 DEF ThrottleInv
<1>4. PICK stamp : WithNow(failed[u]) = failed[u] \cup {stamp} BY DEF WithNow
<1>5. WithNow(failed[u]) \in Times BY <1>2, <1>3, RecentFacts
<1>6. failed' = [failed EXCEPT ![u] = Recent(failed[u] \cup {stamp}, MFA_LOCKOUT)] /\ asked' = asked
  BY <1>0, <1>1, <1>4 DEF _bad_code, ThrottleInv
<1>7. Recent(failed[u] \cup {stamp}, MFA_LOCKOUT) \in Times BY <1>4, <1>5 DEF Recent, Times
<1>8. failed' \in [People -> Times] /\ asked' \in [People -> Times] BY <1>6, <1>7 DEF ThrottleInv
<1>9. at'[c] = Idle /\ \A d \in Callers \ {c} : at'[d] = at[d] BY DEF _bad_code, Ends, TypeOK
<1>10. \A v \in People : /\ Asking(v)' = Asking(v) /\ Bad(v)' \in SUBSET Bad(v)
                         /\ v = u => c \in Bad(v) /\ Bad(v)' \in SUBSET (Bad(v) \ {c})
  BY <1>0, <1>1, <1>9 DEF Asking, Bad, Under, Idle
<1>11. CodesWithin'
  <2> SUFFICES ASSUME NEW v \in People \ lapsed PROVE Within(Recent(failed[v], MFA_LOCKOUT), Bad(v), MFA_MAX_FAILED)'
    BY DEF CodesWithin, _bad_code
  <2>1. Within(Recent(failed[v], MFA_LOCKOUT), Bad(v), MFA_MAX_FAILED) /\ Bad(v) \in SUBSET Callers
    BY DEF ThrottleInv, CodesWithin, Bad
  <2>2. CASE v # u
    <3>1. Recent(failed[v], MFA_LOCKOUT)' = Recent(failed[v], MFA_LOCKOUT) BY <1>6, <2>2 DEF ThrottleInv, Recent
    <3>2. Within(Recent(failed[v], MFA_LOCKOUT)', Bad(v)', MFA_MAX_FAILED)
      BY <1>10, <2>1, <3>1, FewerWithin, LimitsAssumption
    <3> QED BY <3>2 DEF Within
  <2>3. CASE v = u
    <3>1. Recent(failed[v], MFA_LOCKOUT)' \in SUBSET (Recent(failed[v], MFA_LOCKOUT) \cup {stamp})
      BY <1>1, <1>6, <2>3 DEF ThrottleInv, Recent
    <3>2. Within(Recent(failed[v], MFA_LOCKOUT)', Bad(v)', MFA_MAX_FAILED)
      BY <1>10, <2>1, <2>3, <3>1, RecordedWithin, LimitsAssumption
    <3> QED BY <3>2 DEF Within
  <2> QED BY <2>2, <2>3
<1>12. CallsWithin' BY <1>6, <1>10 DEF ThrottleInv, CallsWithin, Within, Recent
<1>13. \A v \in People : IsFiniteSet(Recent(failed[v], MFA_LOCKOUT))' /\ IsFiniteSet(Recent(asked[v], RATE_WINDOW))'
  <2> SUFFICES ASSUME NEW v \in People PROVE IsFiniteSet(Recent(failed[v], MFA_LOCKOUT)')
    BY <1>6 DEF ThrottleInv, Recent
  <2>1. Recent(failed[v], MFA_LOCKOUT)' \subseteq Recent(failed[v], MFA_LOCKOUT) \cup {stamp}
    BY <1>1, <1>6 DEF ThrottleInv, Recent
  <2>2. IsFiniteSet(Recent(failed[v], MFA_LOCKOUT) \cup {stamp}) BY FS_AddElement DEF ThrottleInv
  <2> QED BY <2>1, <2>2, FS_Subset
<1> QED BY <1>8, <1>11, <1>12, <1>13 DEF ThrottleInv

\* AiCheck: the list is pruned, and a call goes on only while there is room.
LEMMA AskKeepsThrottle ==
  ASSUME TypeOK, ThrottleInv, NEW c \in Callers, AiCheck(c), UNCHANGED now PROVE ThrottleInv'
<1>0. PICK u : u = at[c].user OBVIOUS
<1>1. at[c] \in AiCall /\ u \in People BY <1>0, KindTypes DEF AiCheck, Under, Idle, AiCall
<1>2. now \in Nat /\ RATE_WINDOW \in Nat BY LimitsAssumption DEF TypeOK
<1>3. /\ asked' = [asked EXCEPT ![u] = Recent(asked[u], RATE_WINDOW)] /\ failed' = failed
      /\ Recent(asked[u], RATE_WINDOW) \subseteq asked[u] /\ Recent(asked[u], RATE_WINDOW) \in Times
  BY <1>0, <1>1 DEF AiCheck, Recent, ThrottleInv, Times
<1>4. /\ failed' \in [People -> Times] /\ asked' \in [People -> Times]
      /\ \A v \in People : failed'[v] \subseteq failed[v] /\ asked'[v] \subseteq asked[v]
  BY <1>1, <1>3 DEF ThrottleInv
<1>5. CASE Ends(c)
  <2>1. \A d \in Callers : at'[d] = at[d] \/ at'[d].step = "idle" BY <1>5 DEF Ends, TypeOK, Idle
  <2> QED BY <1>2, <1>4, <2>1, ThrottleKept DEF AiCheck
<1>6. ASSUME ~Ends(c) PROVE ThrottleInv'
  <2>1. /\ AiPerMinute > 0 => ~(Cardinality(Recent(asked[u], RATE_WINDOW)) >= AiPerMinute)
        /\ at' = [at EXCEPT ![c].step = "writing"]
    BY <1>0, <1>6 DEF AiCheck
  <2>2. at'[c].step = "writing" /\ at'[c].user = u /\ \A d \in Callers \ {c} : at'[d] = at[d]
    BY <1>0, <1>1, <2>1 DEF TypeOK, AiCall
  <2>3. IsFiniteSet(Recent(asked[u], RATE_WINDOW)) BY <1>1 DEF ThrottleInv
  <2>4. AiPerMinute > 0 => Cardinality(Recent(asked[u], RATE_WINDOW)) < AiPerMinute
    BY <2>1, <2>3, FS_CardinalityType, LimitsAssumption
  <2>5. \A v \in People : Bad(v)' = Bad(v) /\ (v # u => Asking(v)' = Asking(v))
    <3>1. at[c].user = u /\ at[c].step = "admitted" BY <1>0 DEF AiCheck, Under
    <3> QED BY <2>2, <3>1 DEF Asking, Bad, Under
  <2>6. CodesWithin' BY <1>3, <2>5 DEF AiCheck, ThrottleInv, CodesWithin, Within, Recent
  <2>7. CallsWithin'
    <3> SUFFICES ASSUME AiPerMinute > 0, NEW v \in People
                 PROVE  Within(Recent(asked[v], RATE_WINDOW), Asking(v), AiPerMinute)'
      BY DEF CallsWithin
    <3>1. CASE v # u
      <4>1. asked'[v] = asked[v] BY <1>3, <3>1 DEF ThrottleInv
      <4> QED BY <2>5, <3>1, <4>1 DEF ThrottleInv, CallsWithin, Within, Recent
    <3>2. CASE v = u
      <4>1. Recent(asked[v], RATE_WINDOW)' \in SUBSET Recent(asked[u], RATE_WINDOW) BY <1>4, <3>2 DEF Recent
      <4>2. Asking(v)' \in SUBSET Callers BY DEF Asking
      <4>3. Within(Recent(asked[v], RATE_WINDOW)', Asking(v)', AiPerMinute)
        BY <2>3, <2>4, <4>1, <4>2, PassedWithin, LimitsAssumption
      <4> QED BY <4>3 DEF Within
    <3> QED BY <3>1, <3>2
  <2>8. \A v \in People : IsFiniteSet(Recent(failed[v], MFA_LOCKOUT))' /\ IsFiniteSet(Recent(asked[v], RATE_WINDOW))'
    <3>1. \A v \in People : Recent(asked[v], RATE_WINDOW)' \subseteq Recent(asked[v], RATE_WINDOW)
      BY <1>4 DEF Recent
    <3>2. \A v \in People : Recent(failed[v], MFA_LOCKOUT)' = Recent(failed[v], MFA_LOCKOUT) BY <1>3 DEF Recent
    <3> QED BY <3>1, <3>2, FS_Subset DEF ThrottleInv
  <2> QED BY <1>4, <2>6, <2>7, <2>8 DEF ThrottleInv
<1> QED BY <1>5, <1>6

\* AiRecord: a call under way becomes one that is recorded.
LEMMA RecordKeepsThrottle ==
  ASSUME TypeOK, ThrottleInv, NEW c \in Callers, AiRecord(c), UNCHANGED now PROVE ThrottleInv'
<1>0. PICK u : u = at[c].user OBVIOUS
<1>1. Under(c, "ai", "writing") /\ u \in People BY <1>0, KindTypes DEF AiRecord, Under, Idle
<1>2. now \in Nat /\ RATE_WINDOW \in Nat BY LimitsAssumption DEF TypeOK
<1>3. IsFiniteSet(Recent(asked[u], RATE_WINDOW)) /\ asked[u] \in Times BY <1>1 DEF ThrottleInv
<1>4. PICK stamp : WithNow(asked[u]) = asked[u] \cup {stamp} BY DEF WithNow
<1>5. WithNow(asked[u]) \in Times BY <1>2, <1>3, RecentFacts
<1>6. asked' = [asked EXCEPT ![u] = asked[u] \cup {stamp}] /\ failed' = failed
  BY <1>0, <1>1, <1>4 DEF AiRecord, ThrottleInv
<1>8. failed' \in [People -> Times] /\ asked' \in [People -> Times] BY <1>4, <1>5, <1>6 DEF ThrottleInv
<1>9. at'[c] = Idle /\ \A d \in Callers \ {c} : at'[d] = at[d] BY DEF AiRecord, Ends, TypeOK
<1>10. \A v \in People : /\ Bad(v)' = Bad(v) /\ Asking(v)' \in SUBSET Asking(v)
                         /\ v = u => c \in Asking(v) /\ Asking(v)' \in SUBSET (Asking(v) \ {c})
  BY <1>0, <1>1, <1>9 DEF Asking, Bad, Under, Idle
<1>11. \A v \in People : /\ v # u => Recent(asked[v], RATE_WINDOW)' = Recent(asked[v], RATE_WINDOW)
                         /\ Recent(asked[v], RATE_WINDOW)' \in SUBSET (Recent(asked[v], RATE_WINDOW) \cup {stamp})
  BY <1>1, <1>6 DEF ThrottleInv, Recent
<1>12. CallsWithin'
  <2> SUFFICES ASSUME AiPerMinute > 0, NEW v \in People
               PROVE  Within(Recent(asked[v], RATE_WINDOW), Asking(v), AiPerMinute)'
    BY DEF CallsWithin
  <2>1. Within(Recent(asked[v], RATE_WINDOW), Asking(v), AiPerMinute) /\ Asking(v) \in SUBSET Callers
    BY DEF ThrottleInv, CallsWithin, Asking
  <2>2. CASE v # u
    <3>1. Within(Recent(asked[v], RATE_WINDOW)', Asking(v)', AiPerMinute)
      BY <1>10, <1>11, <2>1, <2>2, FewerWithin, LimitsAssumption
    <3> QED BY <3>1 DEF Within
  <2>3. CASE v = u
    <3>0. /\ c \in Asking(v) /\ Asking(v)' \in SUBSET (Asking(v) \ {c})
          /\ Recent(asked[v], RATE_WINDOW)' \in SUBSET (Recent(asked[v], RATE_WINDOW) \cup {stamp})
      BY <1>10, <1>11, <2>3
    <3>1. Within(Recent(asked[v], RATE_WINDOW)', Asking(v)', AiPerMinute)
      BY <2>1, <3>0, RecordedWithin, LimitsAssumption
    <3> QED BY <3>1 DEF Within
  <2> QED BY <2>2, <2>3
<1>13. CodesWithin' BY <1>6, <1>10 DEF AiRecord, ThrottleInv, CodesWithin, Within, Recent
<1>14. \A v \in People : IsFiniteSet(Recent(failed[v], MFA_LOCKOUT))' /\ IsFiniteSet(Recent(asked[v], RATE_WINDOW))'
  <2> SUFFICES ASSUME NEW v \in People PROVE IsFiniteSet(Recent(asked[v], RATE_WINDOW)')
    BY <1>6 DEF ThrottleInv, Recent
  <2>1. IsFiniteSet(Recent(asked[v], RATE_WINDOW) \cup {stamp}) BY FS_AddElement DEF ThrottleInv
  <2> QED BY <1>11, <2>1, FS_Subset
<1> QED BY <1>8, <1>12, <1>13, <1>14 DEF ThrottleInv

\* Every step keeps to the throttles.
LEMMA StepKeepsThrottle == TypeOK /\ ThrottleInv /\ [Next]_vars => ThrottleInv'
<1> SUFFICES ASSUME TypeOK, ThrottleInv, [Next]_vars PROVE ThrottleInv' OBVIOUS
<1> USE DEF factorVars
<1>0. now \in Nat /\ failed \in [People -> Times] /\ asked \in [People -> Times] BY DEF TypeOK, ThrottleInv
<1>1. CASE Tick \/ (\E u \in People : resolve_current_user(u)) \/ (\E r \in Rows : AddRow(r)) \/ UNCHANGED vars
  <2>1. UNCHANGED <<failed, asked, lapsed, at>> /\ now' \in Nat /\ now' >= now
    BY <1>0, <1>1 DEF Tick, resolve_current_user, AddRow, vars
  <2> QED BY <1>0, <2>1, ThrottleKept
<1>2. ASSUME NEW c \in Callers, _auth_guard(c) PROVE ThrottleInv'
  <2>1. \A d \in Callers : at'[d] = at[d] \/ at'[d].step \notin {"bad", "writing"} BY <1>2, AdmitFrame
  <2> QED BY <1>0, <1>2, <2>1, ThrottleKept DEF _auth_guard
<1>3. ASSUME NEW c \in Callers, Factors(c) PROVE ThrottleInv'
  <2>1. UNCHANGED now /\ FactorStep(c) BY <1>3 DEF Factors
  <2>2. ASSUME ~AiCheck(c), ~AiRecord(c), ~CheckCode(c), ~_bad_code(c) PROVE ThrottleInv'
    <3>1. Ends(c) /\ asked' = asked /\ lapsed' = lapsed /\ (failed' = failed \/ failed' = [failed EXCEPT ![at[c].user] = {}])
      BY <2>1, <2>2
      DEF FactorStep, start_enrolment, enable, disable, verify_and_open, step_up, generate_backup_codes, Saves, Fails
    <3>2. \A d \in Callers : at'[d] = at[d] \/ at'[d].step = "idle" BY <3>1 DEF Ends, TypeOK, Idle
    <3>3. failed' \in [People -> Times] /\ \A u \in People : failed'[u] \subseteq failed[u]
      BY <1>0, <3>1 DEF Times
    <3> QED BY <1>0, <2>1, <3>1, <3>2, <3>3, ThrottleKept
  <2> QED BY <2>1, <2>2, CheckKeepsThrottle, BadKeepsThrottle, AskKeepsThrottle, RecordKeepsThrottle
<1>4. ASSUME NEW c \in Callers, UserStep(c) PROVE ThrottleInv'
  <2>1. UNCHANGED <<now, failed, asked, lapsed>>
    BY <1>4 DEF UserStep, UpdateUserCheck, _apply_user_changes, DeleteUserCheck, delete_user, Checks, Writes
  <2>2. \A d \in Callers : \/ at'[d] = at[d] \/ at'[d].step = "idle"
                           \/ at'[d].step = "writing" /\ at'[d].kind # "ai"
    BY <1>4, UserFrame DEF Idle
  <2> QED BY <1>0, <2>1, <2>2, ThrottleKept
<1>5. ASSUME NEW c \in Callers, AccountStep(c) PROVE ThrottleInv'
  <2>1. UNCHANGED <<now, failed, asked, lapsed>>
    BY <1>5
    DEF AccountStep, CreateAccountCheck, create_account, UpdateAccountCheck, update_account,
        DeleteAccountCheck, delete_account, MergeAccountCheck, merge_account, Checks, Writes
  <2>2. \A d \in Callers : \/ at'[d] = at[d] \/ at'[d].step = "idle"
                           \/ at'[d].step = "writing" /\ at'[d].kind # "ai"
    BY <1>5, AccountFrame DEF Idle
  <2> QED BY <1>0, <2>1, <2>2, ThrottleKept
<1> QED BY <1>1, <1>2, <1>3, <1>4, <1>5 DEF Next

\* The wrong codes answered inside MFA_LOCKOUT, and the AI calls inside the minute, are fewer than the
\* limit and the number of threads together (mfa_service, ai_guard): the lists are read and written in
\* two steps, and only the calls in between can pass the limit, or wrong codes in the last second of
\* another.
THEOREM ThrottlesTheorem == Spec => []ThrottlesHold
<1>1. Init => ThrottleInv
  <2> SUFFICES ASSUME Init PROVE ThrottleInv OBVIOUS
  <2>1. failed = [u \in People |-> {}] /\ asked = [u \in People |-> {}] /\ at = [c \in Callers |-> Idle]
    BY DEF Init, FactorInit
  <2>2. \A u \in People : /\ Recent(failed[u], MFA_LOCKOUT) = {} /\ Recent(asked[u], RATE_WINDOW) = {}
                          /\ Bad(u) = {} /\ Asking(u) = {}
    BY <2>1 DEF Recent, Bad, Asking, Under, Idle
  <2>3. Cardinality(Callers) \in Nat \ {0}
    BY LimitsAssumption, FS_EmptySet, FS_CardinalityType
  <2>4. \A limit \in Nat : Within({}, {}, limit) BY <2>3, FS_EmptySet DEF Within
  <2>5. CodesWithin /\ CallsWithin BY <2>2, <2>4, LimitsAssumption DEF CodesWithin, CallsWithin
  <2> QED BY <2>1, <2>2, <2>5, FS_EmptySet DEF ThrottleInv, Times
<1>2. ThrottleInv => ThrottlesHold
  <2> SUFFICES ASSUME ThrottleInv, NEW u \in People
               PROVE  /\ u \notin lapsed =>
                           Cardinality(Recent(failed[u], MFA_LOCKOUT)) < MFA_MAX_FAILED + Cardinality(Callers)
                      /\ AiPerMinute > 0 =>
                           Cardinality(Recent(asked[u], RATE_WINDOW)) < AiPerMinute + Cardinality(Callers)
    BY DEF ThrottlesHold
  <2>1. ASSUME NEW recent, NEW under \in SUBSET Callers, NEW limit \in Nat, Within(recent, under, limit)
        PROVE  Cardinality(recent) < limit + Cardinality(Callers)
    <3>1. IsFiniteSet(under) BY FS_Subset, LimitsAssumption
    <3>2. Cardinality(under) \in Nat /\ Cardinality(recent) \in Nat /\ Cardinality(Callers) \in Nat
      BY <2>1, <3>1, FS_CardinalityType, LimitsAssumption DEF Within
    <3> QED BY <2>1, <3>2 DEF Within
  <2>2. Bad(u) \in SUBSET Callers /\ Asking(u) \in SUBSET Callers BY DEF Bad, Asking
  <2> QED BY <2>1, <2>2, LimitsAssumption DEF ThrottleInv, CodesWithin, CallsWithin
<1> QED BY <1>1, <1>2, InitTypes, StepTypes, StepKeepsThrottle, PTL DEF Spec
===============================================================================
