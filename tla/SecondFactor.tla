---------------------------- MODULE SecondFactor ----------------------------
(* The second factor (services/mfa_service.py, totp.py, api/routes_auth.py)  *)
(* and the throttles of wrong codes and of AI calls (ai_guard.py).           *)
(*                                                                           *)
(* A route is three steps of its thread: it is admitted by the middleware    *)
(* (Access), it loads its user and checks the code, and it writes what it    *)
(* decided.  SQLite takes the write lock with the first statement that       *)
(* changes something, so another call may commit between the last two.       *)
EXTENDS Integers, FiniteSets

CONSTANTS People, Callers,
  MFA_MAX_FAILED, MFA_LOCKOUT, STEP_UP_TTL, SESSION_TTL,  \* in periods of a code
  MAX_SESSIONS_PER_USER, BACKUP_CODE_COUNT,
  RATE_WINDOW, AiPerMinute,
  MaxNow,      \* bound on the clock
  MaxIssued    \* bound on what is generated: secrets, sets of backup codes, tokens

ASSUME LimitsAssumption ==
  /\ IsFiniteSet(Callers) /\ Callers # {}
  /\ {MAX_SESSIONS_PER_USER, MFA_MAX_FAILED} \subseteq Nat \ {0} /\ AiPerMinute \in Nat
  /\ {MFA_LOCKOUT, STEP_UP_TTL, SESSION_TTL, BACKUP_CODE_COUNT, RATE_WINDOW, MaxNow, MaxIssued} \subseteq Nat

VARIABLES
  now,       \* the period the clock is in
  factor,    \* the mfa_ columns of each user
  codes,     \* the backup codes of each user, and which are used
  sessions,  \* the sessions of each user; a later one has a larger token
  issued,    \* the last number given to a secret, a set of codes or a token
  failed,    \* _failed_mfa_attempts
  asked,     \* _recent_ai_calls
  at,        \* where each thread is in its call
  entered,   \* the codes that have opened a session (history)
  clashed,   \* who had two calls about the factor under way when one wrote (history)
  lapsed     \* who had a wrong code looked at in the last second of another (history)

factorVars == <<factor, codes, sessions, issued, failed, asked, entered, clashed, lapsed>>

NoSecret == 0
NoCounter == 0
NoToken == 0
Scopes == {"app", "app_admin"}
Factor == [on : BOOLEAN, secret : Nat, pending : Nat, last : Nat, scope : Scopes]
Off == [on |-> FALSE, secret |-> NoSecret, pending |-> NoSecret, last |-> NoCounter, scope |-> "app_admin"]
NoCodes == [issued |-> {}, used |-> {}]

Idle == [step |-> "idle"]
Under(c, kind, step) == at[c].step = step /\ at[c].kind = kind
Ends(c) == at' = [at EXCEPT ![c] = Idle]
Writing(c) == at[c].step = "writing"

----------------------------------------------------------------------------
(* Codes.  A code of the authenticator is that of a secret in a period; the  *)
(* codes anyone can type are those, the backup codes and wrong ones.         *)

Totp(secret, counter) == <<"totp", secret, counter>>
Backup(set, i) == <<"backup", set, i>>
Wrong == <<"wrong", 0, 0>>

Typeable(u) ==
  {Totp(s, k) : s \in {factor[u].secret, factor[u].pending} \ {NoSecret}, k \in (now - 1)..now}
  \cup codes[u].issued \cup {Wrong}

\* The authenticator of a phone may be a period behind or ahead.
matched_counter(secret, code) ==
  IF secret # NoSecret /\ code[1] = "totp" /\ code[2] = secret /\ code[3] \in (now - 1)..(now + 1)
    THEN code[3] ELSE NoCounter

verify(secret, code) == matched_counter(secret, code) # NoCounter

Unused(u, code) == code \in codes[u].issued \ codes[u].used

----------------------------------------------------------------------------
(* The throttles: the times of the wrong codes and of the AI calls, and how  *)
(* many of them are still inside the window.  Those of one period are told   *)
(* apart by how many came before them in it.                                 *)

Recent(times, span) == {a \in times : a[1] >= now - span}
WithNow(times) == times \cup {<<now, Cardinality({a \in times : a[1] = now})>>}

\* The oldest is about to leave the window: the seconds left are cut to whole ones, so
\* that in its last second they are none, and the user is not locked out.
Expiring(u) == \E a \in failed[u] : a[1] = now - MFA_LOCKOUT

LockedOut_OneMore(u) == Cardinality(Recent(failed[u], MFA_LOCKOUT)) > MFA_MAX_FAILED /\ ~Expiring(u)
LockedOut(u) == Cardinality(Recent(failed[u], MFA_LOCKOUT)) >= MFA_MAX_FAILED /\ ~Expiring(u)

\* Admitted by the guard of the AI routes: the list is pruned and looked at.
AiCheck(c) ==
  LET u == at[c].user IN
  /\ Under(c, "ai", "admitted")
  /\ asked' = [asked EXCEPT ![u] = Recent(@, RATE_WINDOW)]
  /\ IF AiPerMinute > 0 /\ Cardinality(Recent(asked[u], RATE_WINDOW)) >= AiPerMinute
       THEN Ends(c)
       ELSE at' = [at EXCEPT ![c].step = "writing"]
  /\ UNCHANGED <<factor, codes, sessions, issued, failed, entered, clashed, lapsed>>

AiRecord(c) ==
  /\ Under(c, "ai", "writing")
  /\ asked' = [asked EXCEPT ![at[c].user] = WithNow(@)]
  /\ Ends(c)
  /\ UNCHANGED <<factor, codes, sessions, issued, failed, entered, clashed, lapsed>>

----------------------------------------------------------------------------
(* Sessions *)

Valid(s) == s.expires >= now
Holding(u, token) == {s \in sessions[u] : s.token = token}
get_valid_session(u, token) == {s \in Holding(u, token) : Valid(s)}
has_recent_step_up(u, token) ==
  \E s \in get_valid_session(u, token) : s.stepped >= now - STEP_UP_TTL

\* The newest stay.
_evict_excess_sessions(S) ==
  {s \in S : Cardinality({r \in S : r.token > s.token}) < MAX_SESSIONS_PER_USER}

----------------------------------------------------------------------------
(* The check of a code *)

FactorKinds == {"setup", "enable", "disable", "verify", "step_up", "backup_codes"}

\* Replays are not looked for.
_accept_entry_code_Replayed(u, f, code) ==
  matched_counter(f.secret, code) # NoCounter \/ Unused(u, code)

_accept_entry_code(u, f, code) ==
  LET counter == matched_counter(f.secret, code) IN
  IF counter # NoCounter THEN counter > f.last ELSE Unused(u, code)

\* What each route asks of its code and its session.
Accepts(call, f) ==
  CASE call.kind = "setup" -> f.on => verify(f.secret, call.code)
    [] call.kind = "enable" -> verify(f.pending, call.code)
    [] call.kind = "disable" ->
         /\ f.on /\ f.secret # NoSecret
         /\ verify(f.secret, call.code) \/ Unused(call.user, call.code)
    [] call.kind = "verify" -> f.on /\ f.secret # NoSecret /\ _accept_entry_code(call.user, f, call.code)
    [] call.kind = "step_up" ->
         get_valid_session(call.user, call.token) # {} /\ verify(f.secret, call.code)
    [] call.kind = "backup_codes" -> f.on /\ has_recent_step_up(call.user, call.token)

\* A first enrolment has no factor to protect, and backup codes ask for no code.
Throttled(call) ==
  /\ call.kind # "backup_codes"
  /\ call.kind = "setup" => factor[call.user].on
  /\ LockedOut(call.user)

CheckCode(c) ==
  LET call == at[c]
      u == call.user IN
  /\ at[c].step = "admitted" /\ at[c].kind \in FactorKinds
  /\ failed' = [failed EXCEPT ![u] = Recent(@, MFA_LOCKOUT)]
  /\ IF Throttled(call) \/ (call.kind = "backup_codes" /\ ~Accepts(call, factor[u]))
       THEN Ends(c)
       ELSE at' = [at EXCEPT ![c] = [call EXCEPT !.step = IF Accepts(call, factor[u]) THEN "writing" ELSE "bad",
                                                !.seen = factor[u],
                                                !.counter = matched_counter(factor[u].secret, call.code)]]
  /\ lapsed' = IF at'[c].step = "bad" /\ Expiring(u) THEN lapsed \cup {u} ELSE lapsed
  /\ UNCHANGED <<factor, codes, sessions, issued, asked, entered, clashed>>

\* record_mfa_failure, and the audit row.
_bad_code(c) ==
  LET u == at[c].user IN
  /\ at[c].step = "bad"
  /\ failed' = [failed EXCEPT ![u] = Recent(WithNow(@), MFA_LOCKOUT)]
  /\ Ends(c)
  /\ UNCHANGED <<factor, codes, sessions, issued, asked, entered, clashed, lapsed>>

----------------------------------------------------------------------------
(* The writes *)

\* An UPDATE sets the columns that differ from what the row held when it was loaded.
Over(held, seen, new) == [f \in DOMAIN new |-> IF new[f] = seen[f] THEN held[f] ELSE new[f]]

\* The call of thread c writes `new` over the factor of its user, and forgets the
\* wrong codes.
Saves(c, new) ==
  LET u == at[c].user IN
  /\ factor' = [factor EXCEPT ![u] = Over(@, at[c].seen, new)]
  /\ failed' = [failed EXCEPT ![u] = {}]
  /\ clashed' = IF \E d \in Callers \ {c} : Writing(d) /\ at[d].kind \in FactorKinds /\ at[d].user = u
                  THEN clashed \cup {u} ELSE clashed
  /\ Ends(c)
  /\ UNCHANGED <<asked, lapsed>>

\* An UPDATE of a backup code whose row is gone fails.
Spent(u, code) == IF code \in codes[u].issued THEN [codes EXCEPT ![u].used = @ \cup {code}] ELSE codes
Fails(c) == Ends(c) /\ UNCHANGED factorVars
Stale(c) == at[c].counter = NoCounter /\ at[c].code \notin codes[at[c].user].issued

start_enrolment(c) ==
  /\ Under(c, "setup", "writing")
  /\ issued < MaxIssued
  /\ issued' = issued + 1
  /\ Saves(c, [at[c].seen EXCEPT !.pending = issued + 1])
  /\ UNCHANGED <<codes, sessions, entered>>

\* An enrolment again that leaves the sessions of the old secret open.
enable_SessionsKept(c) ==
  /\ Under(c, "enable", "writing")
  /\ Saves(c, [on |-> TRUE, secret |-> at[c].seen.pending, pending |-> NoSecret,
               last |-> NoCounter, scope |-> at[c].scope])
  /\ UNCHANGED <<codes, sessions, issued, entered>>

enable(c) ==
  /\ Under(c, "enable", "writing")
  /\ Saves(c, [on |-> TRUE, secret |-> at[c].seen.pending, pending |-> NoSecret,
               last |-> NoCounter, scope |-> at[c].scope])
  /\ sessions' = [sessions EXCEPT ![at[c].user] = {}]
  /\ UNCHANGED <<codes, issued, entered>>

disable(c) ==
  LET u == at[c].user IN
  /\ Under(c, "disable", "writing")
  /\ IF Stale(c) THEN Fails(c)
     ELSE /\ Saves(c, [at[c].seen EXCEPT !.on = FALSE, !.secret = NoSecret, !.pending = NoSecret])
          /\ codes' = [codes EXCEPT ![u] = NoCodes]
          /\ sessions' = [sessions EXCEPT ![u] = {}]
          /\ UNCHANGED <<issued, entered>>

\* The session that is opened, with what opened it (history).
Opened(c, token) ==
  [token |-> token, expires |-> now + SESSION_TTL, stepped |-> now,
   secret |-> at[c].seen.secret, again |-> at[c].code \in entered]

verify_and_open(c) ==
  LET u == at[c].user
      counter == at[c].counter
      live == {s \in sessions[u] : Valid(s)} IN
  /\ Under(c, "verify", "writing")
  /\ issued < MaxIssued
  /\ IF Stale(c) THEN Fails(c)
     ELSE /\ Saves(c, IF counter = NoCounter THEN at[c].seen ELSE [at[c].seen EXCEPT !.last = counter])
          /\ codes' = IF counter = NoCounter THEN Spent(u, at[c].code) ELSE codes
          /\ sessions' = [sessions EXCEPT ![u] = _evict_excess_sessions(live \cup {Opened(c, issued + 1)})]
          /\ issued' = issued + 1
          /\ entered' = entered \cup {at[c].code}

step_up(c) ==
  LET u == at[c].user IN
  /\ Under(c, "step_up", "writing")
  /\ IF Holding(u, at[c].token) = {} THEN Fails(c)
     ELSE /\ Saves(c, at[c].seen)
          /\ sessions' = [sessions EXCEPT ![u] =
                           {IF s \in Holding(u, at[c].token) THEN [s EXCEPT !.stepped = now] ELSE s : s \in @}]
          /\ UNCHANGED <<codes, issued, entered>>

\* The new set replaces the one before, used or not.
generate_backup_codes(c) ==
  LET u == at[c].user IN
  /\ Under(c, "backup_codes", "writing")
  /\ issued < MaxIssued
  /\ codes' = [codes EXCEPT ![u] = [issued |-> {Backup(issued + 1, i) : i \in 1..BACKUP_CODE_COUNT}, used |-> {}]]
  /\ issued' = issued + 1
  /\ Ends(c)
  /\ UNCHANGED <<factor, sessions, failed, asked, entered, clashed, lapsed>>

FactorStep(c) ==
  \/ AiCheck(c) \/ AiRecord(c)
  \/ CheckCode(c) \/ _bad_code(c)
  \/ start_enrolment(c) \/ enable(c) \/ disable(c)
  \/ verify_and_open(c) \/ step_up(c) \/ generate_backup_codes(c)

FactorInit ==
  /\ now = 2   \* so that there is a period before
  /\ issued = 1
  /\ codes = [u \in People |-> NoCodes]
  /\ sessions = [u \in People |-> {}]
  /\ failed = [u \in People |-> {}]
  /\ asked = [u \in People |-> {}]
  /\ at = [c \in Callers |-> Idle]
  /\ entered = {} /\ clashed = {} /\ lapsed = {}

----------------------------------------------------------------------------
(* Properties *)

\* A user has at most MAX_SESSIONS_PER_USER sessions.  Unless two of their calls
\* overlapped, each was opened with the secret that is live now ("any sessions
\* opened against the OLD secret must not outlive it", mfa_service) and by a code
\* that opened no session before it (the one-time use of verify_and_open).
SessionsFit ==
  \A u \in People :
    /\ Cardinality(sessions[u]) <= MAX_SESSIONS_PER_USER
    /\ u \notin clashed =>
         \A s \in sessions[u] : factor[u].on /\ s.secret = factor[u].secret /\ ~s.again

\* A user gets no more wrong codes answered within MFA_LOCKOUT than MFA_MAX_FAILED,
\* and no more AI calls within the minute than the limit, but for the calls that had
\* passed the throttle when the others were recorded: as many as there are other threads.
\* Wrong codes in the last second of another are not held to that.
ThrottlesHold ==
  \A u \in People :
    /\ u \notin lapsed =>
         Cardinality(Recent(failed[u], MFA_LOCKOUT)) < MFA_MAX_FAILED + Cardinality(Callers)
    /\ AiPerMinute > 0 => Cardinality(Recent(asked[u], RATE_WINDOW)) < AiPerMinute + Cardinality(Callers)
=============================================================================
