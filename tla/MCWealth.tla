------------------------------ MODULE MCWealth ------------------------------
(* A car and a home, a savings and a pension account, two holdings. *)
EXTENDS Wealth

CONSTANTS t1, t2, car, home, s1, p1, i1, g1

Entry(a, k, d) ==
  [id |-> 0, asset |-> a, kind |-> k, date |-> d, cost |-> Null, odometer |-> Null, litres |-> Null, full |-> FALSE,
   meter |-> Null, reading |-> Null]
Fill(d, o, n, full) == [Entry(car, "refuel", d) EXCEPT !.odometer = o, !.litres = n, !.cost = n, !.full = full]
Meter(m, d, n, cost) == [Entry(home, "reading", d) EXCEPT !.meter = m, !.reading = n, !.cost = cost]

\* Two full tanks and a part of one on the way, one with the odometer mistyped and one
\* without; the meter read three times, one reading not paid for, and another meter.
MCEntries ==
  {Fill(0, 10, 3, TRUE), Fill(1, 20, 2, FALSE), Fill(2, 30, 4, TRUE), Fill(1, 5, 1, TRUE), Fill(1, Null, 1, FALSE),
   [Entry(car, "service", 1) EXCEPT !.cost = -1],
   Meter("electricity", 0, 5, Null), Meter("electricity", 1, 8, 2), Meter("electricity", 2, 9, Null),
   Meter("electric heating", 1, 1, 1)}

MCType == s1 :> "savings" @@ p1 :> "pension" @@ i1 :> "investment"
MCRate == s1 :> 1 @@ p1 :> 2 @@ i1 :> 1
MCTargets ==
  {[target |-> 6, date |-> 3, account |-> s1, amount |-> Null],
   [target |-> 2, date |-> Null, account |-> Null, amount |-> 1]}

NoneHeld == [h \in HoldingIds |-> NoHolding]
OneHeld == [NoneHeld EXCEPT ![1] = [account |-> i1, units |-> 1, price |-> Null]]
Off == [source |-> "off", semantics |-> "cumulative"]
HomeAssistant == [Off EXCEPT !.source = "ha_api"]
Home(kinds, n, days, e, hs) == [may |-> kinds, left |-> n, until |-> days, energy |-> e, holdings |-> hs]
MCHomes ==
  {Home({"log"}, 4, 0, Off, NoneHeld),
   Home({"produce", "read"}, 3, 5, HomeAssistant, NoneHeld),
   Home({"produce", "replace", "read"}, 4, 3, HomeAssistant, NoneHeld),
   Home({"produce", "config", "read"}, 3, 3, HomeAssistant, NoneHeld),
   Home({"balance"}, 4, 2, Off, NoneHeld),
   Home({"balance", "goal"}, 3, 3, Off, NoneHeld),
   Home({"holding", "fail"}, 4, 1, Off, OneHeld),
   Home({"holding", "sync"}, 3, 1, Off, OneHeld),
   Home({"holding", "balance"}, 3, 1, Off, OneHeld)}
MCSymmetry == Permutations(Callers)
=============================================================================
