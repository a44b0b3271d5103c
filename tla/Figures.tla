------------------------------- MODULE Figures -------------------------------
(***************************************************************************)
(* What the pages make of the transactions: dashboard_service,             *)
(* analytics_service, budget_service, project_service, business_service,   *)
(* travel_service, and the filters of export_service that a click on a     *)
(* figure leads to.  Each page computes its figures by queries of its own; *)
(* A is the set of accounts the caller sees.                               *)
(*                                                                         *)
(* Day 0 is a Monday and the first of January; a month has 30 days and a   *)
(* year 12 months.                                                         *)
(***************************************************************************)
EXTENDS Ledger

CONSTANTS
  Views,           \* days for which the pages are opened
  Vendors,         \* vendors.id
  VendorCountry,   \* vendors.country, or None
  CurrencyCountry, \* geo.CURRENCY_COUNTRY, or None
  DefaultCountry,  \* the setting default_vendor_country, or None
  Countries,
  Budgets,         \* budgets there are
  BudgetAmounts,   \* projects.budget_amount there may be
  TRIP_GAP,        \* 14 days in the code
  LARGE_CHARGE_FLOOR, MIN_DEBITS_FOR_BASELINE, CATEGORY_SPIKE_FLOOR, NEW_MERCHANT_FLOOR

ASSUME FiguresAssumption ==
  /\ VendorCountry \in [Vendors -> Countries \cup {None}]
  /\ CurrencyCountry \in [Currencies -> Countries \cup {None}]
  /\ DefaultCountry \in Countries \cup {None}
  /\ None \notin Countries \cup Vendors
  /\ Views \subseteq Nat /\ TRIP_GAP \in Nat

Larger(a, b) == IF a >= b THEN a ELSE b
Least(S, none) == IF S = {} THEN none ELSE Min(S)

MonthOf(day) == day \div 30
MonthBounds(day) == <<30 * MonthOf(day), 30 * MonthOf(day) + 30>>
YearBounds(day) == <<360 * (day \div 360), 360 * (day \div 360) + 360>>
During(xs, w) == {x \in xs : w[1] <= txn[x].day /\ txn[x].day < w[2]}

Out(x) == -txn[x].base
TotalOut(xs) == SumFunction([x \in xs |-> Out(x)])

-----------------------------------------------------------------------------
(* The dashboard.                                                           *)

Summary(A, day) ==
  LET rows == During(Spendable(A), MonthBounds(day))
  IN [spend |-> TotalOut({x \in rows : txn[x].base < 0}),
      income |-> -TotalOut({x \in rows : txn[x].base > 0}),
      total |-> Cardinality(Seen(A)),
      uncategorised |-> Cardinality({x \in Seen(A) : txn[x].category = None}),
      needsRate |-> Cardinality({x \in Seen(A) : txn[x].needsRate})]

\* Mutant: a split counts for its own category.
SplitShare_Own(x, c) == IF txn[x].category = c THEN Out(x) ELSE 0

\* _accumulate_split: each part is its category's.
SplitShare(x, c) ==
  LET worth == Distributed(txn[x])
      parts == {i \in DOMAIN txn[x].parts : txn[x].parts[i].category = c}
  IN IF txn[x].parts # <<>> THEN -SumFunctionOnSet(worth, parts)
     ELSE IF txn[x].category = c THEN Out(x) ELSE 0

\* What the rows xs, money out, spend for c: whole rows in SQL, splits row by row.
SpentOn(xs, c) ==
  TotalOut({x \in xs : ~txn[x].isSplit /\ txn[x].category = c})
    + SumFunction([x \in {y \in xs : txn[y].isSplit} |-> SplitShare(x, c)])

CategoryBreakdown(A, day) ==
  [c \in Categories \cup {None} |-> SpentOn(During(Debits(A), MonthBounds(day)), c)]

VendorBreakdown(A, day) ==
  [v \in Vendors |-> TotalOut({x \in During(Debits(A), MonthBounds(day)) : txn[x].vendor = v})]

VendorsCountry(x) == IF txn[x].vendor = None THEN None ELSE VendorCountry[txn[x].vendor]

\* geo.country_for
CountryFor(x) ==
  IF txn[x].country # None THEN txn[x].country
  ELSE IF VendorsCountry(x) # None THEN VendorsCountry(x)
  ELSE IF DefaultCountry # None THEN DefaultCountry
  ELSE CurrencyCountry[txn[x].currency]

CountryBreakdown(A, day) ==
  [k \in Countries \cup {None} |->
     TotalOut({x \in During(Debits(A), MonthBounds(day)) : CountryFor(x) = k})]

\* _country_condition: the rows a click on a country lists.
CountryRows(xs, k) ==
  LET own(x) == txn[x].country = k
      untold(x) == txn[x].country = None
      vendors(x) == untold(x) /\ txn[x].vendor \in {v \in Vendors : VendorCountry[v] = k}
      noVendor(x) == ~ \E v \in Vendors : txn[x].vendor = v /\ VendorCountry[v] # None
      fallback(x) == untold(x) /\ noVendor(x)
  IN {x \in xs : \/ own(x)
                 \/ vendors(x)
                 \/ fallback(x) /\ DefaultCountry = k
                 \/ /\ fallback(x) /\ DefaultCountry = None
                    /\ CurrencyCountry[txn[x].currency] = k}

-----------------------------------------------------------------------------
(* Trends and what is out of the ordinary.                                  *)

\* _month_windows: the n months that end with that of the day, oldest first.
MonthWindows(day, n) ==
  [i \in 1..n |-> <<30 * (MonthOf(day) - n + i), 30 * (MonthOf(day) - n + i) + 30>>]

\* _month_totals_by_key, monthly_series
MonthlySeries(A, day, n) ==
  LET ws == MonthWindows(day, n)
      rows == During(Spendable(A), <<ws[1][1], ws[n][2]>>)
      month(i) == {x \in rows : MonthOf(txn[x].day) = ws[i][1] \div 30}
  IN [i \in 1..n |-> [spend |-> TotalOut({x \in month(i) : txn[x].base < 0}),
                      income |-> -TotalOut({x \in month(i) : txn[x].base >= 0})]]

\* _prior_month_category_spend: one pass over the months before that of the day.
PriorSpend(A, day, n) ==
  LET ws == SubSeq(MonthWindows(day, n + 1), 1, n)
      rows == During(Debits(A), <<ws[1][1], ws[n][2]>>)
  IN [i \in 1..n |-> [c \in Categories \cup {None} |->
        SpentOn({x \in rows : MonthOf(txn[x].day) = ws[i][1] \div 30}, c)]]

\* _category_spikes: half as much again as the average month, and by the floor.
\* A month has a figure for c when a row or a part of it is c's.
CategorySpikes(A, day, n) ==
  LET ws == SubSeq(MonthWindows(day, n + 1), 1, n)
      rows == [i \in 1..n |-> During(Debits(A), ws[i])]
      named(x, c) == IF txn[x].parts # <<>> THEN \E j \in DOMAIN txn[x].parts : txn[x].parts[j].category = c
                     ELSE txn[x].category = c
      months(c) == {i \in 1..n : \E x \in rows[i] : named(x, c)}
      totals == PriorSpend(A, day, n)
      now == CategoryBreakdown(A, day)
  IN {c \in Categories \cup {None} :
        LET m == Cardinality(months(c))
            prior == SumFunctionOnSet([i \in 1..n |-> totals[i][c]], months(c))
        IN /\ Cardinality({i \in 1..n : rows[i] # {}}) >= 2
           /\ m > 0 /\ prior > 0
           /\ 2 * m * now[c] > 3 * prior
           /\ m * now[c] - prior >= m * CATEGORY_SPIKE_FLOOR}

\* statistics.median, doubled.
Median2(s) ==
  LET t == SortSeq(s, <) n == Len(s)
  IN IF n % 2 = 1 THEN 2 * t[n \div 2 + 1] ELSE t[n \div 2] + t[n \div 2 + 1]

\* _large_charges: three times the median of the last n months, and the floor.
LargeCharges(A, day, n) ==
  LET window == During(Debits(A), <<MonthWindows(day, n)[1][1], MonthBounds(day)[2]>>)
      median2 == Median2([i \in 1..Cardinality(window) |-> Out(SetToSeq(window)[i])])
  IN IF Cardinality(window) < MIN_DEBITS_FOR_BASELINE THEN {}
     ELSE {x \in During(window, MonthBounds(day)) :
             2 * Out(x) >= Larger(2 * LARGE_CHARGE_FLOOR, 3 * median2)}

\* _new_merchants: paid this month and in none of the n before.
NewMerchants(A, day, n) ==
  LET now == During(Debits(A), MonthBounds(day))
      prior == During(Debits(A), <<MonthWindows(day, n + 1)[1][1], MonthBounds(day)[1]>>)
  IN IF prior = {} THEN {}
     ELSE {v \in Vendors : /\ \A x \in prior : txn[x].vendor # v
                           /\ \E x \in now : txn[x].vendor = v
                           /\ TotalOut({x \in now : txn[x].vendor = v}) >= NEW_MERCHANT_FLOOR}

-----------------------------------------------------------------------------
(* Budgets: [period, amount, category, project, first, last, threshold].    *)

PerYear == [weekly |-> 52, monthly |-> 12, quarterly |-> 4, yearly |-> 1, custom |-> 1]

\* period_bounds
PeriodBounds(b, day) ==
  CASE b.period = "monthly" -> MonthBounds(day)
    [] b.period = "weekly" -> <<7 * (day \div 7), 7 * (day \div 7) + 7>>
    [] b.period = "quarterly" -> <<90 * (day \div 90), 90 * (day \div 90) + 90>>
    [] b.period = "yearly" -> YearBounds(day)
    [] b.period = "custom" -> <<b.first, b.last + 1>>

\* _eval_window: a cap for a year is held against the whole year.
EvalWindow(b, day, annual) ==
  IF annual /\ b.period # "custom" THEN YearBounds(day) ELSE PeriodBounds(b, day)
Cap(b, annual) == IF annual THEN b.amount * PerYear[b.period] ELSE b.amount

Total(b) == b.category = None /\ b.project = None

\* _txn_matches and _split_matches: the category, or else the project.
Hits(b, r) == IF b.category # None THEN r.category = b.category ELSE r.project = b.project

\* _txn_contribution: a number, or nothing ({}).
Contribution(b, x) ==
  LET parts == {i \in DOMAIN txn[x].parts : Hits(b, txn[x].parts[i])}
  IN IF Total(b) THEN {Out(x)}
     ELSE IF txn[x].isSplit /\ txn[x].parts # <<>>
       THEN IF parts = {} THEN {} ELSE {-SumFunctionOnSet(Distributed(txn[x]), parts)}
     ELSE IF Hits(b, txn[x]) THEN {Out(x)} ELSE {}

\* budget_transactions
BudgetRows(A, b, w) == {x \in During(Debits(A), w) : Contribution(b, x) # {}}
BudgetSpent(A, b, w) ==
  SumFunction([x \in BudgetRows(A, b, w) |-> CHOOSE n \in Contribution(b, x) : TRUE])

Status(spent, cap, threshold) ==
  IF cap <= 0 THEN "ok"
  ELSE IF spent >= cap THEN "over"
  ELSE IF 100 * spent >= threshold * cap THEN "warn" ELSE "ok"

\* elapsed_fraction, in days of the period.
Elapsed(w, day) ==
  IF w[2] <= w[1] THEN [days |-> 1, of |-> 1]
  ELSE [days |-> IF day < w[1] THEN 0 ELSE IF day >= w[2] THEN w[2] - w[1] ELSE day - w[1] + 1,
        of |-> w[2] - w[1]]

\* _pace_status: within a twentieth of the cap around what is expected.
Pace(spent, cap, w, day) ==
  LET e == Elapsed(w, day)
      expected == HalfEven(cap * e.days, e.of)
  IN IF cap <= 0 THEN "on_track"
     ELSE IF 20 * (spent - expected) > cap THEN "ahead"
     ELSE IF 20 * (expected - spent) > cap THEN "behind" ELSE "on_track"

BudgetAlerts(A, day) ==
  {b \in Budgets : Status(BudgetSpent(A, b, PeriodBounds(b, day)), b.amount, b.threshold) # "ok"}

-----------------------------------------------------------------------------
(* Projects.                                                                *)

\* _project_transactions, _all_project_transactions and _txns_by_project
Touching(A, p) ==
  {x \in Seen(A) : \/ txn[x].project = p
                   \/ \E i \in DOMAIN txn[x].parts : txn[x].parts[i].project = p}

\* _accumulate_txn: what the row spends for p in category c.
ProjectShare(x, p, c) ==
  LET worth == Distributed(txn[x])
      mine == {i \in DOMAIN txn[x].parts :
                 txn[x].parts[i].project = p /\ txn[x].parts[i].category = c /\ worth[i] < 0}
  IN IF ~Converted(txn[x]) THEN 0
     ELSE IF txn[x].parts # <<>> THEN -SumFunctionOnSet(worth, mine)
     ELSE IF txn[x].project = p /\ txn[x].category = c /\ txn[x].base < 0 THEN Out(x) ELSE 0

ProjectCategories(A, p) ==
  [c \in Categories \cup {None} |-> SumFunction([x \in Touching(A, p) |-> ProjectShare(x, p, c)])]

ProjectRows(A, p) ==
  {x \in Touching(A, p) : \E c \in Categories \cup {None} : ProjectShare(x, p, c) > 0}

ProjectSpent(A, p) == SumFunction(ProjectCategories(A, p))

\* history: by month, over all projects.
ProjectHistory(A, day, n) ==
  [i \in 1..n |->
     LET month(p) == During(ProjectRows(A, p), MonthWindows(day, n)[i])
         spent(x, p) == SumFunction([c \in Categories \cup {None} |-> ProjectShare(x, p, c)])
     IN SumFunction([p \in Projects |-> SumFunction([x \in month(p) |-> spent(x, p)])])]

\* Mutant: the total may fall below what is spent.
ForecastTotal_Below(spent, elapsed, planned) ==
  IF planned >= 0 THEN spent * planned ELSE spent * elapsed

\* _forecast_total, times the days elapsed: the run rate over the days planned.
ForecastTotal(spent, elapsed, planned) ==
  IF planned >= 0 THEN Larger(spent * planned, spent * elapsed) ELSE spent * elapsed

\* _run_rate: there is a rate when something was spent over more than one day.
Rated(days, spent) == days # {} /\ spent > 0 /\ Max(days) > Min(days)

\* _forecast: on track, given the days and the sum of what was spent, and the last day.
OnTrack(days, spent, last, budget) ==
  IF Rated(days, spent)
  THEN ForecastTotal(spent, Max(days) - Min(days), last - Min(days)) <= budget * (Max(days) - Min(days))
  ELSE spent <= budget

\* _exhaustion_date: the day the budget is spent through, or nothing.
Exhaustion(days, spent, budget) ==
  IF ~Rated(days, spent) THEN {}
  ELSE IF budget <= spent THEN {Max(days)}
  ELSE {Max(days) + ((budget - spent) * (Max(days) - Min(days))) \div spent}

SpendDays(A, p) == {txn[x].day : x \in ProjectRows(A, p)}

-----------------------------------------------------------------------------
(* Business expenses and journeys.                                          *)

\* _vat_base: no more than was paid, at the rate of the row.
VatBase(x) ==
  LET vat == IF txn[x].vat > Magnitude(txn[x].amount) THEN Magnitude(txn[x].amount) ELSE txn[x].vat
  IN HalfEven(vat * txn[x].rate, RateScale)

BusinessRows(A) == {x \in Debits(A) : txn[x].business}
BusinessTotal(A) == TotalOut(BusinessRows(A))
BusinessVat(A) == SumFunction([x \in BusinessRows(A) |-> VatBase(x)])
BusinessCategories(A) ==
  [c \in Categories \cup {None} |-> TotalOut({x \in BusinessRows(A) : txn[x].category = c})]

ByCurrency(A) ==
  [k \in Currencies |-> TotalOut({x \in ForeignSpend(A) : txn[x].currency = k})]

\* detect_trips: rows in the order of their days; a longer gap starts a new trip.
Trips(A) ==
  LET rows == ForeignSpend(A)
      first(x) == ~ \E y \in rows : txn[y].day < txn[x].day /\ txn[x].day - txn[y].day <= TRIP_GAP
      starts == {txn[x].day : x \in {y \in rows : first(y)}}
      next(d) == Least({e \in starts : e > d}, Max({txn[x].day : x \in rows}) + 1)
  IN {During(rows, <<d, next(d)>>) : d \in starts}

-----------------------------------------------------------------------------
(* The figures agree.                                                       *)

SpendAgrees(A, day) ==
  LET spend == Summary(A, day).spend
      month == During(Debits(A), MonthBounds(day))
  IN /\ SumFunction(CategoryBreakdown(A, day)) = spend
     /\ SumFunction(CountryBreakdown(A, day)) = spend
     /\ SumFunction(VendorBreakdown(A, day))
          + TotalOut({x \in month : txn[x].vendor = None}) = spend
     /\ \A n \in 1..2 : MonthlySeries(A, day, n)[n] =
                          [spend |-> spend, income |-> Summary(A, day).income]
     /\ PriorSpend(A, day + 30, 1)[1] = CategoryBreakdown(A, day)
     /\ \A k \in Countries : TotalOut(CountryRows(month, k)) = CountryBreakdown(A, day)[k]

BudgetsAgree(A, day) ==
  \A b \in Budgets :
    LET spent == BudgetSpent(A, b, PeriodBounds(b, day))
    IN b.period = "monthly" =>
         /\ Total(b) => spent = Summary(A, day).spend
         /\ b.category # None => spent = CategoryBreakdown(A, day)[b.category]

ProjectsAgree(A) ==
  \A p \in Projects :
    LET b == [category |-> None, project |-> p]
    IN (\A x \in Touching(A, p) : ~txn[x].transfer)
         => ProjectSpent(A, p) = BudgetSpent(A, b, <<0, Max(Days) + 1>>)

JourneysAgree(A) ==
  /\ SumFunction(ByCurrency(A)) = TotalOut(ForeignSpend(A))
  /\ UNION Trips(A) = ForeignSpend(A)
  /\ \A t1, t2 \in Trips(A) : t1 # t2 => t1 \cap t2 = {}

BusinessAgrees(A) ==
  /\ SumFunction(BusinessCategories(A)) = BusinessTotal(A)
  /\ BusinessVat(A) <= BusinessTotal(A)

\* "consistent with the dashboard" (budget_service, analytics_service), "the same
\* precedence the spend-by-location map uses" (export_service), and by members in
\* routes_dashboard: the pages show one total for one thing, to the penny, and what
\* the accounts add up to is what the household has.
FiguresAgree ==
  Quiescent /\ past # "met" =>
  /\ \A A \in {All} \cup {{a} : a \in Accounts} :
       /\ \A day \in Views : SpendAgrees(A, day) /\ BudgetsAgree(A, day)
       /\ ProjectsAgree(A) /\ JourneysAgree(A) /\ BusinessAgrees(A)
  /\ \A day \in Views :
       Summary(All, day).spend = SumFunction([a \in Accounts |-> Summary({a}, day).spend])
  /\ BusinessVat(All) = SumFunction([a \in Accounts |-> BusinessVat({a})])

NewsFits(A, day, n) ==
  LET shown == [i \in 0..n |-> CategoryBreakdown(A, day - 30 * i)]
      paid == [i \in 0..n |-> VendorBreakdown(A, day - 30 * i)]
  IN /\ \A v \in NewMerchants(A, day, n) :
          paid[0][v] >= NEW_MERCHANT_FLOOR /\ \A i \in 1..n : paid[i][v] = 0
     /\ \A c \in CategorySpikes(A, day, n) :
          2 * Cardinality({i \in 1..n : shown[i][c] > 0}) * shown[0][c]
            > 3 * SumFunction([i \in 1..n |-> shown[i][c]])
     /\ \A x \in LargeCharges(A, day, n) :
          LET window == During(Debits(A), <<MonthBounds(day)[1] - 30 * (n - 1), MonthBounds(day)[2]>>)
          IN 2 * Cardinality({y \in window : 3 * Out(y) <= Out(x)}) >= Cardinality(window)

PacesFit(A, day) ==
  LET alerts == BudgetAlerts(A, day)
  IN \A b \in Budgets, annual \in BOOLEAN :
       LET w == EvalWindow(b, day, annual)
           spent == BudgetSpent(A, b, w)
       IN /\ Pace(spent, Cap(b, annual), w, w[2] - 1) = "ahead"
               => Status(spent, Cap(b, annual), b.threshold) = "over"
          /\ ~annual => (b \in alerts) = (100 * spent >= b.threshold * b.amount)

OutlooksFit(A) ==
  \A p \in Living :
    LET days == SpendDays(A, p)
        spent == ProjectSpent(A, p)
    IN \A budget \in BudgetAmounts :
         /\ OnTrack(days, spent, dates[p][2], budget) => spent <= budget
         /\ \A d \in Exhaustion(days, spent, budget) : \A e \in days : e <= d

\* What the heads-up list and the outlooks say of one month rests on the figures of
\* the others: a new merchant was paid in none of the months before, a spike is above
\* what the dashboard showed in them, a budget that ends ahead of its pace is over,
\* a project on track has not spent its budget, and its history is part of its total.
HeadsUpFits ==
  Quiescent /\ past # "met" =>
  \A A \in {All} \cup {{a} : a \in Accounts} :
    /\ OutlooksFit(A)
    /\ \A day \in Views :
         /\ PacesFit(A, day)
         /\ \A n \in 1..2 :
              /\ NewsFits(A, day, n)
              /\ SumFunction(ProjectHistory(A, day, n)) <= SumFunction([p \in Projects |-> ProjectSpent(A, p)])
=============================================================================
