------------------------------ MODULE MCAccess ------------------------------
(* Households of two or three people, for TLC. *)
EXTENDS Access, TLC

CONSTANTS t1, t2, p1, p2, p3, a1, a2, r1, r2

User(role, status) == [role |-> role, status |-> status, policy |-> "optional", blocked |-> {}]
MCFields ==
  [{"role"} -> {"owner", "member", "child"}] \cup [{"status"} -> Statuses]
  \cup [{"policy"} -> {"required"}] \cup [{"blocked"} -> {{"accounts"}}]

Closed == [a \in Accounts |-> NoAccount]
Nothing == [r \in Rows |-> NoRow]
Household(us, accs, rs, fs, n, kinds) ==
  [users |-> us, accounts |-> accs, rows |-> rs, factor |-> fs, calls |-> n, may |-> kinds]
NoFactor == [u \in People |-> Off]

\* Nobody has been here yet.
Empty == Household([u \in People |-> NoUser], Closed, Nothing, NoFactor, 3, {"visit", "update_user", "delete_user"})
\* Two owners and a member.
Settled == p1 :> User("owner", "approved") @@ p2 :> User("owner", "approved") @@ p3 :> User("member", "approved")
Alone == [Settled EXCEPT ![p2] = NoUser, ![p3] = NoUser]
UserCalls == Household(Settled, Closed, Nothing, NoFactor, 3, {"visit", "update_user", "delete_user"})
AccountCalls ==
  Household([Settled EXCEPT ![p2] = User("member", "approved")],
            [Closed EXCEPT ![a1] = Account(p2, FALSE)], [Nothing EXCEPT ![r1] = a1], NoFactor, 3,
            {"create_account", "update_account", "delete_account", "merge_account", "delete_user", "row"})
\* The second factor of one user: set up again and again, used, and the AI calls.
FactorCalls ==
  Household(Alone, Closed, Nothing, NoFactor, 5,
            {"setup", "enable", "verify", "tick"})
FactorOn == [NoFactor EXCEPT ![p1] = [Off EXCEPT !.on = TRUE, !.secret = 1]]
CodeCalls ==
  Household(Alone, Closed, Nothing, FactorOn, 4, {"disable", "verify", "step_up", "backup_codes", "tick"})
AiCalls == Household(Alone, Closed, Nothing, NoFactor, 5, {"ai", "tick"})
\* What it takes an owner with a second factor to manage the other.
MixedCalls ==
  Household([Settled EXCEPT ![p3] = NoUser], Closed, Nothing,
            FactorOn, 3,
            {"verify", "step_up", "update_user", "delete_user", "tick"})

MCHouseholds == {Empty, UserCalls, AccountCalls, FactorCalls, CodeCalls, AiCalls, MixedCalls}
MCSymmetry == Permutations(Callers)
MCPages == {"accounts"}
MCSnapshots == {r2}
=============================================================================
