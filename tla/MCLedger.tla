------------------------------ MODULE MCLedger ------------------------------
(* A household with a card and a joint account, pounds and euros, two months. *)
EXTENDS Figures, TLC

CONSTANTS t1, t2, x1, x2, x3, card, joint, GBP, EUR, food, fun, trip, shop, ES, GB

Row(day, account, amount, currency, vendor, category, country, vat) ==
  [day |-> day, account |-> account, amount |-> amount, currency |-> currency,
   vendor |-> vendor, country |-> country, vat |-> vat, business |-> vat # 0,
   category |-> category]

\* Odd pennies, a foreign row, a business row whose VAT is mistyped, and income.
MCTemplates ==
  { Row(5, joint, -7, GBP, shop, food, None, 0),
    Row(40, card, -5, EUR, shop, fun, None, 9),
    Row(19, card, 8, EUR, None, None, GB, 0) }

MCPart(amount, c, p) == [amount |-> amount, category |-> c, project |-> p]

\* Two rows of a day in a currency whose rate is not known yet.
MCSameDay == { Row(40, card, -5, EUR, shop, fun, None, 0) }
MCNoRates == [k \in Days \X Currencies \X Currencies |-> 0]

MCSplits == { <<MCPart(-3, food, None), MCPart(-2, fun, trip)>>,
              <<MCPart(-1, fun, None), MCPart(-1, food, None), MCPart(-1, fun, trip)>> }
MCPercents == { <<333, 333, 333>>, <<255, 745>> }

MCKnownRates == [k \in Days \X Currencies \X Currencies |-> IF k \in {<<40, GBP, EUR>>, <<5, EUR, GBP>>} THEN 87 ELSE 0]
MCQuote == [num |-> 13, den |-> 10]
MCCountryOf == EUR :> ES @@ GBP :> GB
MCVendorCountry == shop :> ES
MCBudget(period, amount, c, p, first, last) ==
  [period |-> period, amount |-> amount, category |-> c, project |-> p,
   first |-> first, last |-> last, threshold |-> 80]
MCBudgets ==
  { MCBudget("monthly", 6, None, None, 0, 0), MCBudget("monthly", 4, fun, None, 0, 0),
    MCBudget("weekly", 6, food, None, 0, 0), MCBudget("quarterly", 9, None, trip, 0, 0),
    MCBudget("yearly", 9, food, None, 0, 0), MCBudget("custom", 5, None, None, 5, 40) }

MCSymmetry == Permutations(Callers) \cup Permutations(Txns)
=============================================================================
