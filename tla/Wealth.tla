------------------------------- MODULE Wealth -------------------------------
(* Savings and pension accounts with their balances and goals                  *)
(* (services/savings_service.py), investment accounts with their holdings      *)
(* (services/investment_service.py) and the price feed (price_service.py),     *)
(* beside what the household runs (Assets).                                    *)
(*                                                                             *)
(* A deposit reads the latest balance and then inserts the next.  A price is   *)
(* set in two commits: the holding, and then today's point of its history.     *)
EXTENDS Assets

CONSTANTS
  Accounts,   \* account ids
  Type,       \* Type[a]: "savings", "pension" or "investment"
  Rate,       \* Rate[a]: what a unit of its currency is in the base, or Null
  HoldingIds,
  Units,      \* numbers of units
  Prices,     \* prices that are typed in or quoted
  Balances,   \* balances that are typed in
  Deltas,     \* deposits, and withdrawals below 0
  Goals,      \* goal ids
  Targets,    \* the bodies of POST /savings/goals: [target, date, account, amount]
  MAX_FORECAST_DAYS

\* A row of the holdings table, and what is kept for an id that has none.
NoHolding == [account |-> Null, units |-> 0, price |-> Null]
Holding == [account : Accounts, units : Nat \ {0}, price : Prices \cup {Null}] \cup {NoHolding}

ASSUME WealthAssumption ==
  /\ IsFiniteSet(Accounts) /\ Null \notin Accounts \cup Int
  /\ \A a \in Accounts : Type[a] \in {"savings", "pension", "investment"} /\ Rate[a] \in Nat \cup {Null}
  /\ HoldingIds = 1..Cardinality(HoldingIds) /\ IsFiniteSet(HoldingIds)
  /\ Units \cup Prices \subseteq Nat \ {0} /\ MAX_FORECAST_DAYS \in Nat
  /\ Balances \cup Deltas \subseteq Int
  /\ \A b \in Targets : b \in [target : Int \cup {Null}, date : Nat \cup {Null}, account : Accounts \cup {Null},
                                amount : Int \cup {Null}]
  /\ \A h \in Homes : h.holdings \in [HoldingIds -> Holding]

VARIABLES
  balances,  \* the savings_balances and account_values tables, in id order
  holdings,  \* holdings[h]: the row, or NoHolding
  points,    \* the holding_prices table, in id order; a row that was deleted has no holding
  goals,     \* goals[g]: the row, or NoGoal
  call,      \* what each thread is doing
  due,       \* history: the balance of each account if no two calls on it overlap
  clashed,   \* history: accounts a deposit of which overlapped a call, or was dated before a balance
  loose      \* history: holdings whose price and today's point went different ways

wealthVars == <<balances, holdings, points, goals, call, due, clashed, loose>>
vars == <<now, assetVars, may, left, until, wealthVars>>

NoGoal == [target |-> Null]
NoCall == [op |-> "none"]
Held(h) == holdings[h] # NoHolding

Idle(t) == call[t] = NoCall
End(t) == call' = [call EXCEPT ![t] = NoCall]
Under(t, op) == call[t].op = op

\* convert_amount; what has no rate is skipped.
ToBase(a, amount) == IF amount = Null \/ Rate[a] = Null THEN 0 ELSE amount * Rate[a]

-----------------------------------------------------------------------------
(* Balances, and the values of pensions.                                      *)

\* Mutant: the last one stored, whatever its date.
Newest_Stored(S) == IF S = {} THEN 0 ELSE Max(S)

\* The newest by date, then by id; 0 for none.
Newest(S) ==
  IF S = {} THEN 0
  ELSE CHOOSE i \in S : \A j \in S : balances[j].date < balances[i].date \/ (balances[j].date = balances[i].date /\ j <= i)

Snapshots(a) == {i \in DOMAIN balances : balances[i].account = a}
BalanceAt(i) == IF i = 0 THEN Null ELSE balances[i].amount
OrZero(n) == IF n = Null THEN 0 ELSE n

latest_balance(a) == BalanceAt(Newest(Snapshots(a)))

\* _balance_as_of: strictly before the day.
balance_as_of(a, end) == BalanceAt(Newest({i \in Snapshots(a) : balances[i].date < end}))

Stored(a, date, amount) ==
  balances' = Append(balances, [account |-> a, date |-> date, amount |-> amount])

\* get_savings_account; a value cannot be typed in for an investment account
\* (_value_tracked_account).
CashTracked(a) == Type[a] \in {"savings", "pension"}

Newer(a, date) == \E i \in Snapshots(a) : balances[i].date > date
Adjusting(t, a) == Under(t, "adjust") /\ call[t].account = a

record_balance(a, date, amount) ==
  /\ Do("balance") /\ CashTracked(a)
  /\ Stored(a, date, amount)
  /\ due' = IF Newer(a, date) THEN due ELSE [due EXCEPT ![a] = amount]
  /\ clashed' = IF \E t \in Callers : Adjusting(t, a) THEN clashed \cup {a}
                ELSE IF Newer(a, date) THEN clashed ELSE clashed \ {a}
  /\ UNCHANGED <<now, assetVars, holdings, points, goals, call, loose>>

\* adjust_balance and adjust_value
AdjustStart(t, a, delta) ==
  /\ Do("balance") /\ CashTracked(a) /\ Idle(t)
  /\ call' = [call EXCEPT ![t] = [op |-> "adjust", account |-> a, delta |-> delta,
                                  seen |-> OrZero(latest_balance(a))]]
  /\ UNCHANGED <<now, assetVars, balances, holdings, points, goals, due, clashed, loose>>

AdjustCommit(t) ==
  LET a == call[t].account IN
  /\ Under(t, "adjust")
  /\ Stored(a, now, call[t].seen + call[t].delta)
  /\ due' = [due EXCEPT ![a] = @ + call[t].delta]
  /\ clashed' = IF Newer(a, now) \/ \E u \in Callers \ {t} : Adjusting(u, a) THEN clashed \cup {a} ELSE clashed
  /\ End(t)
  /\ UNCHANGED <<now, assetVars, may, left, until, holdings, points, goals, loose>>

-----------------------------------------------------------------------------
(* Totals of savings.                                                         *)

Savings == {a \in Accounts : Type[a] = "savings"}

total_savings == Sum([a \in Savings |-> ToBase(a, latest_balance(a))], Savings)

\* Mutant: the balances of the last day of a month are in the next.
month_total_Early(m) ==
  Sum([a \in Savings |-> ToBase(a, balance_as_of(a, (m + 1) * MonthLength - 1))], Savings)

\* _month_total: as of the first day of the next month.
month_total(m) == Sum([a \in Savings |-> ToBase(a, balance_as_of(a, (m + 1) * MonthLength))], Savings)

-----------------------------------------------------------------------------
(* Goals and their forecasts.                                                 *)

create_goal(g, body) ==
  /\ Do("goal") /\ goals[g] = NoGoal /\ body.target # Null
  /\ body.account # Null => Type[body.account] = "savings"
  /\ goals' = [goals EXCEPT ![g] = body]
  /\ UNCHANGED <<now, assetVars, balances, holdings, points, call, due, clashed, loose>>

\* Only the date and the account can be cleared.
update_goal(g, body) ==
  /\ Do("goal") /\ goals[g] # NoGoal
  /\ body.account # Null => Type[body.account] = "savings"
  /\ goals' = [goals EXCEPT ![g] = [f \in DOMAIN body |->
                 IF body[f] = Null /\ f \notin {"date", "account"} THEN goals[g][f] ELSE body[f]]]
  /\ UNCHANGED <<now, assetVars, balances, holdings, points, call, due, clashed, loose>>

delete_goal(g) ==
  /\ Do("goal") /\ goals[g] # NoGoal
  /\ goals' = [goals EXCEPT ![g] = NoGoal]
  /\ UNCHANGED <<now, assetVars, balances, holdings, points, call, due, clashed, loose>>

\* A linked goal follows its account once that has a balance.
goal_current(g) ==
  LET a == goals[g].account IN
  IF a # Null /\ Snapshots(a) # {} THEN latest_balance(a) ELSE OrZero(goals[g].amount)

\* The balance a goal is forecast from: the oldest, and what was gained since, over
\* the days between.
Oldest(a) == CHOOSE i \in Snapshots(a) : \A j \in Snapshots(a) :
               balances[i].date < balances[j].date \/ (balances[i].date = balances[j].date /\ i <= j)
Gained(a) == latest_balance(a) - balances[Oldest(a)].amount
Elapsed(a) == balances[Newest(Snapshots(a))].date - balances[Oldest(a)].date
HasRate(g) == goals[g].account # Null /\ Snapshots(goals[g].account) # {} /\ Elapsed(goals[g].account) > 0

\* Mutant: a day that is begun is not counted.
DaysToTarget_Floor(g) ==
  LET a == goals[g].account IN ((goals[g].target - goal_current(g)) * Elapsed(a)) \div Gained(a)

\* _months_to_target, in days, rounded up (_dated_forecast).
DaysToTarget(g) ==
  LET a == goals[g].account
      remaining == goals[g].target - goal_current(g)
  IN (remaining * Elapsed(a) + Gained(a) - 1) \div Gained(a)

\* forecast_goal, without interest.
forecast_goal(g) ==
  LET date == goals[g].date IN
  IF goals[g].target <= 0 THEN "no_forecast"
  ELSE IF goal_current(g) >= goals[g].target THEN "achieved"
  ELSE IF ~HasRate(g) THEN "no_forecast"
  ELSE IF Gained(goals[g].account) <= 0 THEN "not_progressing"
  ELSE IF DaysToTarget(g) > MAX_FORECAST_DAYS THEN "beyond_horizon"
  ELSE IF date = Null THEN "projected"
  ELSE IF now + DaysToTarget(g) <= date THEN "on_track" ELSE "behind"

-----------------------------------------------------------------------------
(* Holdings.  The price of a holding goes into its row, and then into the     *)
(* point of the day: the row is refreshed, the point looked for and written.  *)

\* A call that has set the price of h and not yet stored the point.
PricingOf(t, h) == call[t].op \in {"refresh", "find", "point"} /\ call[t].h = h
Pricing(h) == \E t \in Callers : PricingOf(t, h)

\* The price or the points of h change under the calls that are setting it.
Disturbed(c, h) ==
  [t \in Callers |-> IF c[t].op \in {"refresh", "find", "point"} /\ c[t].h = h
                     THEN [c[t] EXCEPT !.clean = FALSE] ELSE c[t]]

PriceCall(h, rest) == [op |-> "refresh", h |-> h, clean |-> ~Pricing(h), rest |-> rest]

create_holding(t, h, a, n, price) ==
  /\ Do("holding") /\ Idle(t) /\ Type[a] # "savings"
  /\ h = 1 + Max({0} \cup {k \in HoldingIds : Held(k)})
  /\ holdings' = [holdings EXCEPT ![h] = [account |-> a, units |-> n, price |-> price]]
  /\ call' = IF price = Null THEN call
             ELSE [Disturbed(call, h) EXCEPT ![t] = PriceCall(h, {})]
  /\ loose' = loose \ {h}
  /\ UNCHANGED <<now, assetVars, balances, points, goals, due, clashed>>

\* update_holding of the units, or to clear the price.
SetUnits(h, n) ==
  /\ Do("holding") /\ Held(h)
  /\ holdings' = [holdings EXCEPT ![h].units = n]
  /\ UNCHANGED <<now, assetVars, balances, points, goals, call, due, clashed, loose>>

ClearPrice(h) ==
  /\ Do("holding") /\ Held(h) /\ holdings[h].price # Null
  /\ holdings' = [holdings EXCEPT ![h].price = Null]
  /\ call' = Disturbed(call, h)
  /\ loose' = loose \cup {h}
  /\ UNCHANGED <<now, assetVars, balances, points, goals, due, clashed>>

\* update_holding with a price, by hand.
SetPrice(t, h, price) ==
  /\ Do("holding") /\ Idle(t) /\ Held(h)
  /\ holdings' = [holdings EXCEPT ![h].price = price]
  /\ call' = [Disturbed(call, h) EXCEPT ![t] = PriceCall(h, {})]
  /\ UNCHANGED <<now, assetVars, balances, points, goals, due, clashed, loose>>

\* The points go with their holding.
delete_holding(h) ==
  /\ Do("holding") /\ Held(h)
  /\ holdings' = [holdings EXCEPT ![h] = NoHolding]
  /\ points' = [i \in DOMAIN points |-> IF points[i].h = h THEN [points[i] EXCEPT !.h = Null] ELSE points[i]]
  /\ call' = Disturbed(call, h)
  /\ UNCHANGED <<now, assetVars, balances, goals, due, clashed, loose>>

\* Where a sweep goes on: with the holdings of the account that are left.
GoOn(t, rest) ==
  [call EXCEPT ![t] = IF rest = {} THEN NoCall ELSE [op |-> "quote", rest |-> rest]]

Found(c, price) == [op |-> "find", h |-> c.h, clean |-> c.clean, rest |-> c.rest, price |-> price]

\* db.refresh: the price as it is now.  A row that has gone, or whose price was
\* cleared, ends the call.
Refresh(t) ==
  LET c == call[t] IN
  /\ Under(t, "refresh")
  /\ IF Held(c.h) /\ holdings[c.h].price # Null
       THEN call' = [call EXCEPT ![t] = Found(c, holdings[c.h].price)]
       ELSE IF Held(c.h) THEN call' = GoOn(t, c.rest)
       ELSE End(t)
  /\ UNCHANGED <<now, assetVars, may, left, until, balances, holdings, points, goals, due, clashed, loose>>

PointOn(h, d) ==
  LET on == {i \in DOMAIN points : points[i].h = h /\ points[i].date = d}
  IN IF on = {} THEN 0 ELSE Min(on)

Placed(c, date, at) ==
  [op |-> "point", h |-> c.h, clean |-> c.clean, rest |-> c.rest, price |-> c.price, date |-> date, at |-> at]

\* _record_holding_price looks for the point of today,
FindPoint(t) ==
  /\ Under(t, "find")
  /\ call' = [call EXCEPT ![t] = Placed(@, now, PointOn(@.h, now))]
  /\ UNCHANGED <<now, assetVars, may, left, until, balances, holdings, points, goals, due, clashed, loose>>

\* and updates it, or adds one.
PointsWith(c) ==
  IF c.at = 0 THEN Append(points, [h |-> c.h, date |-> c.date, price |-> c.price])
  ELSE [points EXCEPT ![c.at].price = c.price]

\* A holding, or a point, that has gone ends the call.
PointThere(c) == Held(c.h) /\ (c.at # 0 => c.at \in DOMAIN points /\ points[c.at].h = c.h)

Single(h, d) == \A i, j \in DOMAIN points :
               <<points[i].h, points[i].date>> = <<h, d>> /\ <<points[j].h, points[j].date>> = <<h, d>> => i = j

PointStored(t) ==
  LET c == call[t] IN
  /\ Under(t, "point") /\ PointThere(c)
  /\ points' = PointsWith(c)
  /\ call' = [Disturbed(call, c.h) EXCEPT ![t] = GoOn(t, c.rest)[t]]
  /\ loose' = IF c.clean /\ Single(c.h, c.date) THEN loose \ {c.h} ELSE loose \cup {c.h}
  /\ UNCHANGED <<now, assetVars, may, left, until, balances, holdings, goals, due, clashed>>

\* The second commit fails, or there is nothing to write to.
PointLost(t) ==
  LET c == call[t] IN
  /\ Under(t, "point") /\ ("fail" \in may \/ ~PointThere(c))
  /\ End(t)
  /\ loose' = loose \cup {c.h}
  /\ UNCHANGED <<now, assetVars, may, left, until, balances, holdings, points, goals, due, clashed>>

-----------------------------------------------------------------------------
(* sync_prices: holding by holding, with the network in between.              *)

Of(a) == {h \in HoldingIds : Held(h) /\ holdings[h].account = a}

\* The holdings of an account are listed as the sweep comes to it.
SyncStart(t, a) ==
  /\ Do("sync") /\ Idle(t) /\ Of(a) # {}
  /\ call' = [call EXCEPT ![t] = [op |-> "quote", rest |-> Of(a)]]
  /\ UNCHANGED <<now, assetVars, balances, holdings, points, goals, due, clashed, loose>>

\* No quote: the price stays as it is.
NoQuote(t) ==
  /\ Under(t, "quote")
  /\ call' = GoOn(t, call[t].rest \ {Min(call[t].rest)})
  /\ UNCHANGED <<now, assetVars, may, left, until, balances, holdings, points, goals, due, clashed, loose>>

\* A quote, by now: update_holding.  A holding that has gone raises, and the sweep ends.
Quote(t, price) ==
  LET h == Min(call[t].rest) IN
  /\ Under(t, "quote")
  /\ IF Held(h)
       THEN /\ holdings' = [holdings EXCEPT ![h].price = price]
            /\ call' = [Disturbed(call, h) EXCEPT ![t] = PriceCall(h, call[t].rest \ {h})]
       ELSE End(t) /\ UNCHANGED holdings
  /\ UNCHANGED <<now, assetVars, may, left, until, balances, points, goals, due, clashed, loose>>

-----------------------------------------------------------------------------
(* The figures of the portfolio.                                              *)

Invested == {a \in Accounts : Type[a] # "savings"}
Worth(h, price) == holdings[h].units * price

\* Mutant: a price is as of the day after.
holding_price_as_of_Before(h, d) ==
  LET S == {i \in DOMAIN points : points[i].h = h /\ points[i].date < d}
      last == {i \in S : \A j \in S : points[j].date <= points[i].date}
  IN IF S = {} THEN Null ELSE points[Max(last)].price

holding_price_as_of(h, d) ==
  LET S == {i \in DOMAIN points : points[i].h = h /\ points[i].date <= d}
      last == {i \in S : \A j \in S : points[j].date <= points[i].date}
  IN IF S = {} THEN Null ELSE points[Max(last)].price

\* Holdings if there are any, else the balance; those without a price are left out.
ValueWith(a, price, balance) ==
  LET priced == {h \in Of(a) : price[h] # Null}
  IN IF Of(a) = {} THEN balance
     ELSE IF priced = {} THEN Null
     ELSE Sum([h \in priced |-> Worth(h, price[h])], priced)

\* account_to_dict
current_value(a) == ValueWith(a, [h \in HoldingIds |-> holdings[h].price], latest_balance(a))

\* _account_value_as_of
account_value_as_of(a, d) ==
  ValueWith(a, [h \in HoldingIds |-> holding_price_as_of(h, d)], balance_as_of(a, d + 1))

total_value_as_of(d) ==
  Sum([a \in Invested |-> ToBase(a, account_value_as_of(a, d))], Invested)

\* Mutant: a holding that was not there before counts from 0.
Legs_FromNothing(a, earlier, later) ==
  LET both == {h \in Of(a) : holding_price_as_of(h, later) # Null}
  IN [from |-> Sum([h \in both |-> Worth(h, OrZero(holding_price_as_of(h, earlier)))], both),
      to |-> Sum([h \in both |-> Worth(h, holding_price_as_of(h, later))], both)]

\* _account_legs: only what is priced on both days.
Legs(a, earlier, later) ==
  LET both == {h \in Of(a) : holding_price_as_of(h, earlier) # Null /\ holding_price_as_of(h, later) # Null}
  IN IF Of(a) # {}
       THEN [from |-> Sum([h \in both |-> Worth(h, holding_price_as_of(h, earlier))], both),
             to |-> Sum([h \in both |-> Worth(h, holding_price_as_of(h, later))], both)]
     ELSE IF Null \in {account_value_as_of(a, earlier), account_value_as_of(a, later)} THEN [from |-> 0, to |-> 0]
     ELSE [from |-> account_value_as_of(a, earlier), to |-> account_value_as_of(a, later)]

comparable_change(earlier, later) ==
  Sum([a \in Invested |-> LET l == Legs(a, earlier, later) IN ToBase(a, l.to) - ToBase(a, l.from)], Invested)

-----------------------------------------------------------------------------

Init ==
  /\ \E h \in Homes : InitAssets(h) /\ holdings = h.holdings
  /\ balances = <<>> /\ points = <<>>
  /\ goals = [g \in Goals |-> NoGoal]
  /\ call = [t \in Callers |-> NoCall]
  /\ due = [a \in Accounts |-> 0]
  /\ clashed = {} /\ loose = {h \in HoldingIds : holdings[h].price # Null}

BalanceStep ==
  \/ \E a \in Accounts, d \in 0..(now + 1), n \in Balances : record_balance(a, d, n)
  \/ \E t \in Callers : AdjustCommit(t) \/ \E a \in Accounts, n \in Deltas : AdjustStart(t, a, n)

GoalStep ==
  \E g \in Goals : delete_goal(g) \/ \E b \in Targets : create_goal(g, b) \/ update_goal(g, b)

HoldingStep ==
  \/ \E h \in HoldingIds : delete_holding(h) \/ ClearPrice(h) \/ \E n \in Units : SetUnits(h, n)
  \/ \E t \in Callers, h \in HoldingIds, p \in Prices :
       SetPrice(t, h, p) \/ \E a \in Accounts, n \in Units : create_holding(t, h, a, n, p) \/ create_holding(t, h, a, n, Null)
  \/ \E t \in Callers : Refresh(t) \/ FindPoint(t) \/ PointStored(t) \/ PointLost(t)

SyncStep ==
  \E t \in Callers : NoQuote(t) \/ (\E a \in Accounts : SyncStart(t, a)) \/ \E p \in Prices : Quote(t, p)

Next ==
  \/ BalanceStep \/ GoalStep \/ HoldingStep \/ SyncStep
  \/ (LogStep \/ MeterStep \/ NextDay) /\ UNCHANGED wealthVars

Spec == Init /\ [][Next]_vars

-----------------------------------------------------------------------------
(* Properties.                                                                *)

Ahead(a) == \E i \in Snapshots(a) : balances[i].date > now

\* Every deposit and withdrawal is in the balance: what is typed in dated today or
\* later starts it anew and what is back-dated leaves it, unless two calls on the
\* account overlapped ("recording a new balance snapshot for today at latest + delta",
\* adjust_balance).  A deposit behind a balance dated in the future is not.
DepositsKept ==
  \A a \in Accounts : Snapshots(a) # {} /\ a \notin clashed => latest_balance(a) = due[a]

\* The total of savings is what the last month of its chart has,
SavingsAgree == (\A a \in Savings : ~Ahead(a)) => total_savings = month_total(MonthOf(now))

\* the value of an account what the last point of the portfolio's chart has,
PortfolioAgrees ==
  \A a \in Invested : ~Ahead(a) /\ (\A h \in Of(a) : h \notin loose /\ ~Pricing(h)) =>
    current_value(a) = account_value_as_of(a, now)

\* and the change since yesterday what lies between its last two points, when nothing
\* is priced that was not.
ChangeAgrees ==
  now > 0 /\ (\A a \in Invested : /\ account_value_as_of(a, now) # Null => account_value_as_of(a, now - 1) # Null
                                  /\ \A h \in Of(a) : holding_price_as_of(h, now) # Null =>
                                                        holding_price_as_of(h, now - 1) # Null) =>
    comparable_change(now - 1, now) = total_value_as_of(now) - total_value_as_of(now - 1)

\* The figures of one page agree: the total of savings with the last month of its
\* chart, the value of each account with the last point of the portfolio's chart, and
\* the change since yesterday with that chart when nothing is priced that was not
\* (_comparable_change).  Not with a balance dated in the future, nor for a holding
\* whose price was cleared, or set by calls that overlapped or did not end, until it
\* is set again on a later day.
FiguresAgree == SavingsAgree /\ PortfolioAgrees /\ ChangeAgrees

\* A goal with a date is said to be on track just when the rate of its account carries
\* it there by then, as far as forecasts go (_dated_forecast).
ForecastHolds ==
  \A g \in Goals :
    LET a == goals[g].account
        days == goals[g].date - now
    IN /\ goals[g] # NoGoal /\ goals[g].date # Null
       /\ goals[g].target > 0 /\ goals[g].target > goal_current(g)
       /\ HasRate(g) /\ days \in 0..MAX_FORECAST_DAYS
       => (forecast_goal(g) = "on_track" <=>
             goal_current(g) * Elapsed(a) + Gained(a) * days >= goals[g].target * Elapsed(a))
=============================================================================
