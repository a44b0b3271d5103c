------------------------------- MODULE Ledger -------------------------------
(***************************************************************************)
(* The transactions and what they are worth in the household's currency:   *)
(* fx_service, split_service, the creation of rows (transaction_service,   *)
(* import_service), the change of the base currency (routes_settings), the *)
(* retention of transactions, projects made from trips, and edits by hand. *)
(*                                                                         *)
(* Amounts are in pennies.  A rate is a fraction, and the column that      *)
(* keeps it holds it rounded to the 1/RateScale.  A call that works on     *)
(* rows commits the columns it has changed over whatever they hold by      *)
(* then, as in Categories.  is_duplicate is read everywhere and set by no  *)
(* code: it is left out.                                                   *)
(***************************************************************************)
EXTENDS Integers, SequencesExt

CONSTANTS
  Callers,     \* worker threads
  Txns,        \* ids of transactions
  Templates,   \* rows as they are created: what is typed in or parsed
  Accounts,
  Currencies,
  Categories,
  Projects,
  Days,        \* days on which transactions are dated
  RateScale,   \* 10^8 in the code: Numeric(18, 8)
  ManualRates, \* rates typed in, in units of 1/RateScale
  Quote,       \* the rate a fetch gives, [num, den]: units of the quote for one of the base
  KnownRates,  \* the fx_rates table at first
  Fetches,     \* rates are fetched online (the FX mode frankfurter)
  Splits,      \* proposed splits: sequences of parts
  Percents,    \* proposed splits in percent: sequences of tenths of a percent
  NoAmount,    \* NULL as a base_amount
  MaxEdits     \* bound: commits

None == "none"
NoRate == [num |-> 0, den |-> 1]
One == [num |-> 1, den |-> 1]
\* No condition on the account: every row here has one.
All == Accounts

VARIABLES
  base,   \* the setting base_currency
  rate,   \* the fx_rates table: rate[<<day, base, quote>>] in 1/RateScale, or 0
  txn,    \* txn[x]: transaction x with its parts, or NoRow
  dates,  \* projects.start_date and end_date, as a pair, or <<>>
  call,   \* what each caller is doing
  past,   \* history: whether a change of the base was cut short, or met another call
  edits   \* commits so far

vars == <<base, rate, txn, dates, call, past, edits>>

Part == [amount : Int, category : Categories \cup {None}, project : Projects \cup {None}]

ASSUME LedgerAssumption ==
  /\ None \notin Categories \cup Projects \cup Currencies
  /\ NoAmount \notin Int
  /\ Days \subseteq Nat /\ MaxEdits \in Nat
  /\ RateScale \in Nat \ {0} /\ ManualRates \subseteq Nat \ {0}
  /\ Quote.num \in Nat \ {0} /\ Quote.den \in Nat \ {0}
  /\ \A s \in Splits : s \in Seq(Part)
  /\ \A p \in Percents : p \in Seq(Nat \ {0})
  /\ KnownRates \in [Days \X Currencies \X Currencies -> Nat]
  /\ Fetches \in BOOLEAN

NoRow == [day |-> 0, account |-> None]

Idle == [op |-> "none", base |-> None, new |-> NoRow, read |-> <<>>]

Stored == {x \in Txns : txn[x] # NoRow}
Editable == {x \in Stored : edits < MaxEdits}
Converted(row) == row.base # NoAmount

-----------------------------------------------------------------------------
(* Rounding to the penny of n / d, d > 0.                                   *)

Magnitude(n) == IF n < 0 THEN -n ELSE n
Signed(n, m) == IF n < 0 THEN -m ELSE m

HalfUp(n, d) == Signed(n, (2 * Magnitude(n) + d) \div (2 * d))

\* Decimal.quantize: half to even.
HalfEven(n, d) ==
  LET q == Magnitude(n) \div d
      r == Magnitude(n) % d
  IN Signed(n, IF 2 * r > d \/ (2 * r = d /\ q % 2 = 1) THEN q + 1 ELSE q)

-----------------------------------------------------------------------------
(* Splits.                                                                  *)

\* split_evenly: the odd pennies go to the first parts.
Evenly(total, n) ==
  [i \in 1..n |-> Signed(total, Magnitude(total) \div n
                                  + (IF i <= Magnitude(total) % n THEN 1 ELSE 0))]

\* _percent_amounts: the left-over pennies go to the largest remainders.
PercentAmounts(total, percents) ==
  LET whole == SumFunction(percents)
      floor == [i \in DOMAIN percents |-> (Magnitude(total) * percents[i]) \div whole]
      remainder(i) == (Magnitude(total) * percents[i]) % whole
      order == SetToSortSeq(DOMAIN percents,
                            LAMBDA i, j : \/ remainder(i) > remainder(j)
                                          \/ remainder(i) = remainder(j) /\ i < j)
      lucky == ToSet(SubSeq(order, 1, Magnitude(total) - SumFunction(floor)))
  IN [i \in DOMAIN percents |-> Signed(total, floor[i] + (IF i \in lucky THEN 1 ELSE 0))]

\* split_by_percentages: within half a percent of the whole.
PercentsFit(percents) == Len(percents) >= 2 /\ Magnitude(SumFunction(percents) - 1000) <= 5

\* validate, _validate_part
Splittable(row, ps) ==
  /\ ~row.archived /\ ~row.transfer
  /\ Len(ps) >= 2 /\ row.amount # 0
  /\ \A i \in DOMAIN ps :
       /\ ps[i].amount # 0 /\ (ps[i].amount < 0) = (row.amount < 0)
       /\ ps[i].category # None \/ ps[i].project # None
  /\ SumFunction([i \in DOMAIN ps |-> ps[i].amount]) = row.amount

\* Mutant: every part is only rounded by itself.
Distributed_Drift(row) ==
  [i \in DOMAIN row.parts |-> HalfEven(row.parts[i].amount * row.rate, RateScale)]

\* The pennies that the rounded parts lack or have too many go to those rounded
\* furthest.
Nudged(rounded, residual, drift) ==
  LET order == SetToSortSeq(DOMAIN rounded,
                 LAMBDA i, j : \/ drift > 0 /\ residual[i] > residual[j]
                               \/ drift <= 0 /\ residual[i] < residual[j]
                               \/ residual[i] = residual[j] /\ i < j)
      moved == {order[k] : k \in {n \in DOMAIN rounded : n <= Magnitude(drift)}}
  IN [i \in DOMAIN rounded |-> rounded[i] + (IF i \in moved THEN Signed(drift, 1) ELSE 0)]

\* _distributed_base_amounts: what each part is in the base currency.
Distributed(row) ==
  LET raw == [i \in DOMAIN row.parts |-> row.parts[i].amount * row.rate]
      rounded == [i \in DOMAIN raw |-> HalfEven(raw[i], RateScale)]
  IN Nudged(rounded, [i \in DOMAIN raw |-> raw[i] - rounded[i] * RateScale],
            row.base - SumFunction(rounded))

-----------------------------------------------------------------------------
(* Currency conversion.                                                     *)

\* A rate as the column keeps it.
Column(r) == HalfEven(r.num * RateScale, r.den)

\* get_rate without the network: one, the cached rate, or the cached inverse.
Cached(day, quote, into) ==
  IF quote = into THEN One
  ELSE IF rate[<<day, into, quote>>] # 0
    THEN [num |-> rate[<<day, into, quote>>], den |-> RateScale]
  ELSE IF rate[<<day, quote, into>>] # 0
    THEN [num |-> RateScale, den |-> rate[<<day, quote, into>>]]
  ELSE NoRate

\* fetch_frankfurter: one over what it is told, or nothing.
Fetched == IF Fetches THEN {NoRate, [num |-> Quote.den, den |-> Quote.num]} ELSE {NoRate}

\* What get_rate may find.
Found(day, quote, into) ==
  IF Cached(day, quote, into) = NoRate THEN Fetched ELSE {Cached(day, quote, into)}

Unconverted(row) == [row EXCEPT !.base = NoAmount, !.rate = 0, !.needsRate = TRUE]

AtRate(row, into, r) ==
  [row EXCEPT !.base = HalfUp(row.amount * r.num, r.den), !.rate = Column(r),
              !.needsRate = FALSE, !.into = into]

\* convert_transaction with the rate r: a row that is converted stays as it is.
ConvertedTo(row, into, r) ==
  IF Converted(row) /\ ~row.needsRate THEN row
  ELSE IF r = NoRate THEN Unconverted(row) ELSE AtRate(row, into, r)

\* upsert_rate of what the network gave: a rate that is there is not changed.
Upserted(table, day, into, quote, r) ==
  IF r # NoRate /\ Cached(day, quote, into) = NoRate
  THEN [table EXCEPT ![<<day, into, quote>>] = Column(r)] ELSE table

-----------------------------------------------------------------------------
(* Calls that convert.                                                      *)

Count == edits < MaxEdits /\ edits' = edits + 1
End(t) == call' = [call EXCEPT ![t] = Idle]

Busy == {u \in Callers : call[u] # Idle}
Starts(t, op) ==
  /\ call[t] = Idle
  /\ past' = IF \E u \in Busy : {op, call[u].op} \cap {"rebase", "recompute"} # {} THEN "met" ELSE past

Fresh(tpl) ==
  [day |-> tpl.day, account |-> tpl.account, amount |-> tpl.amount, currency |-> tpl.currency,
   vendor |-> tpl.vendor, country |-> tpl.country, vat |-> tpl.vat, business |-> tpl.business,
   category |-> tpl.category, project |-> None,
   base |-> NoAmount, rate |-> 0, needsRate |-> FALSE, into |-> None,
   transfer |-> FALSE, archived |-> FALSE, parts |-> <<>>, isSplit |-> FALSE]

\* create_manual, and an import for each of its rows: the base currency is read
\* first, and the row is inserted, converted and committed later.
CreateRead(t, tpl) ==
  /\ Starts(t, "create") /\ edits < MaxEdits
  /\ call' = [call EXCEPT ![t] = [Idle EXCEPT !.op = "create", !.base = base, !.new = Fresh(tpl)]]
  /\ UNCHANGED <<base, rate, txn, dates, edits>>

CreateCommit(t, x) ==
  LET c == call[t] IN
  /\ c.op = "create" /\ x \notin Stored /\ Count
  /\ \E r \in Found(c.new.day, c.new.currency, c.base) :
       /\ txn' = [txn EXCEPT ![x] = ConvertedTo(c.new, c.base, r)]
       /\ rate' = Upserted(rate, c.new.day, c.base, c.new.currency, r)
  /\ End(t)
  /\ UNCHANGED <<base, dates, past>>

\* Mutant: rows of the day are converted again at the rate that is typed in.
SetManualRate_Reconverts(day, into, quote, r) ==
  /\ Count /\ into # quote
  /\ rate' = [rate EXCEPT ![<<day, into, quote>>] = r]
  /\ txn' = [x \in Txns |->
       IF x \in Stored /\ txn[x].day = day /\ txn[x].currency = quote /\ txn[x].into = into
       THEN AtRate(txn[x], into, [num |-> r, den |-> RateScale]) ELSE txn[x]]
  /\ UNCHANGED <<base, dates, call, past>>

\* set_manual_rate: an explicit entry replaces what is there.
SetManualRate(day, into, quote, r) ==
  /\ Count /\ into # quote
  /\ rate' = [rate EXCEPT ![<<day, into, quote>>] = r]
  /\ UNCHANGED <<base, txn, dates, call, past>>

\* The columns of a row a conversion has changed, over what the row holds now.
Over(old, new, now) ==
  [now EXCEPT !.base = IF new.base = old.base THEN @ ELSE new.base,
              !.rate = IF new.rate = old.rate THEN @ ELSE new.rate,
              !.needsRate = IF new.needsRate = old.needsRate THEN @ ELSE new.needsRate,
              !.into = IF new.base = old.base /\ new.rate = old.rate THEN @ ELSE new.into]

\* What the rows a call has read can be converted at, one lookup for each.
Lookups(c) ==
  {g \in [DOMAIN c.read -> UNION {Found(c.read[x].day, c.read[x].currency, c.base) :
                                    x \in DOMAIN c.read}] :
     \A x \in DOMAIN c.read : g[x] \in Found(c.read[x].day, c.read[x].currency, c.base)}

Key(row) == <<row.day, row.currency>>

\* _prefetch_rates asks once for a day and a currency.
Prefetched(c) ==
  {g \in Lookups(c) : \A x, y \in DOMAIN c.read : Key(c.read[x]) = Key(c.read[y]) => g[x] = g[y]}

\* Two rows each add the rate they fetched: the session does not flush before a
\* query, so the second lookup does not see what the first has added.
AddedTwice(c, g) ==
  \E x, y \in DOMAIN c.read :
    /\ x # y /\ Key(c.read[x]) = Key(c.read[y]) /\ NoRate \notin {g[x], g[y]}
    /\ Cached(c.read[x].day, c.read[x].currency, c.base) = NoRate

\* The commit meets every row it is to change, or fails.
Land(t, out, g) ==
  LET c == call[t] IN
  /\ \A x \in DOMAIN out : out[x] # c.read[x] => x \in Stored
  /\ txn' = [x \in Txns |-> IF x \in DOMAIN out /\ out[x] # c.read[x]
                            THEN Over(c.read[x], out[x], txn[x]) ELSE txn[x]]
  /\ rate' = FoldSet(LAMBDA x, table : Upserted(table, c.read[x].day, c.base, c.read[x].currency, g[x]),
                     rate, DOMAIN out)
  /\ End(t)

\* backfill_missing: the rows that have no amount.
BackfillRead(t) ==
  /\ Starts(t, "backfill") /\ edits < MaxEdits
  /\ call' = [call EXCEPT ![t] =
       [Idle EXCEPT !.op = "backfill", !.base = base,
                    !.read = [x \in {y \in Stored : ~Converted(txn[y])} |-> txn[x]]]]
  /\ UNCHANGED <<base, rate, txn, dates, edits>>

BackfillCommit(t) ==
  LET c == call[t] IN
  /\ c.op = "backfill" /\ Count
  /\ \E g \in Prefetched(c) :
       Land(t, [x \in DOMAIN c.read |-> ConvertedTo(c.read[x], c.base, g[x])], g)
  /\ UNCHANGED <<base, dates, past>>

\* _apply_base_currency: the setting is committed first.
SaveBase(t, b) ==
  /\ Starts(t, "rebase") /\ b # base /\ Count
  /\ base' = b
  /\ call' = [call EXCEPT ![t] = [Idle EXCEPT !.op = "rebase", !.base = b]]
  /\ UNCHANGED <<rate, txn, dates>>

\* recompute_all reads every row
RecomputeRead(t) ==
  /\ call[t].op = "rebase"
  /\ call' = [call EXCEPT ![t].op = "recompute", ![t].read = [x \in Stored |-> txn[x]]]
  /\ UNCHANGED <<base, rate, txn, dates, past, edits>>

\* Mutant: rows that are in the new currency keep what they were converted to.
Recomputed_SameKept(row, into, r) ==
  IF row.currency = into THEN ConvertedTo(row, into, r)
  ELSE ConvertedTo([row EXCEPT !.base = NoAmount], into, r)

\* and clears the amount before it converts.
Recomputed(row, into, r) == ConvertedTo([row EXCEPT !.base = NoAmount], into, r)

RecomputeCommit(t) ==
  LET c == call[t] IN
  /\ c.op = "recompute"
  /\ \E g \in Lookups(c) :
       IF AddedTwice(c, g) THEN End(t) /\ UNCHANGED <<rate, txn>>
       ELSE Land(t, [x \in DOMAIN c.read |-> Recomputed(c.read[x], c.base, g[x])], g)
  /\ UNCHANGED <<base, dates, past, edits>>

\* A row was deleted meanwhile, the write lock was not to be had, or a restart.
Fails(t) ==
  /\ call[t] # Idle
  /\ past' = IF past = "smooth" /\ call[t].op \in {"rebase", "recompute"} THEN "cut" ELSE past
  /\ End(t)
  /\ UNCHANGED <<base, rate, txn, dates, edits>>

-----------------------------------------------------------------------------
(* Single rows.                                                             *)

\* set_splits, with amounts as typed in or as divided by the two helpers.
Proposals(row) ==
  Splits
  \cup {[i \in DOMAIN s |-> [s[i] EXCEPT !.amount = Evenly(row.amount, Len(s))[i]]] : s \in Splits}
  \cup {[i \in DOMAIN q[1] |-> [q[1][i] EXCEPT !.amount = PercentAmounts(row.amount, q[2])[i]]] :
          q \in {p \in Splits \X Percents : Len(p[1]) = Len(p[2]) /\ PercentsFit(p[2])}}

SetSplits(x, ps) ==
  /\ Count /\ Splittable(txn[x], ps)
  /\ txn' = [txn EXCEPT ![x].parts = ps, ![x].isSplit = TRUE]
  /\ UNCHANGED <<base, rate, dates, call, past>>

ClearSplits(x) ==
  /\ Count /\ txn[x].isSplit
  /\ txn' = [txn EXCEPT ![x].parts = <<>>, ![x].isSplit = FALSE]
  /\ UNCHANGED <<base, rate, dates, call, past>>

\* update_transaction: the parts stay, whatever the row becomes.
Update(x, c, p, transfer) ==
  /\ Count
  /\ txn' = [txn EXCEPT ![x].category = c, ![x].project = p, ![x].transfer = transfer]
  /\ UNCHANGED <<base, rate, dates, call, past>>

\* Retention's archive stage and the bulk action, and unarchive_transaction.
Archive(x) ==
  /\ Count
  /\ txn' = [txn EXCEPT ![x].archived = ~@]
  /\ UNCHANGED <<base, rate, dates, call, past>>

\* A purge of transactions, and deletions by hand.
Delete(x) ==
  /\ Count
  /\ txn' = [txn EXCEPT ![x] = NoRow]
  /\ UNCHANGED <<base, rate, dates, call, past>>

\* What referred to o has NULL: rows and their parts.
Without(o, row) ==
  LET gone(r) == [r EXCEPT !.category = IF @ = o THEN None ELSE @,
                           !.project = IF @ = o THEN None ELSE @]
  IN [gone(row) EXCEPT !.parts = [i \in DOMAIN @ |-> gone(@[i])]]

DeleteCategory(c) ==
  /\ Count
  /\ txn' = [x \in Txns |-> IF x \in Stored THEN Without(c, txn[x]) ELSE NoRow]
  /\ UNCHANGED <<base, rate, dates, call, past>>

DeleteProject(p) ==
  /\ Count /\ dates[p] # <<>>
  /\ txn' = [x \in Txns |-> IF x \in Stored THEN Without(p, txn[x]) ELSE NoRow]
  /\ dates' = [dates EXCEPT ![p] = <<>>]
  /\ UNCHANGED <<base, rate, call, past>>

\* account_scope_condition and archived_condition
Seen(A) == {x \in Stored : ~txn[x].archived /\ txn[x].account \in A}

\* What counts as spent or earned.
Spendable(A) == {x \in Seen(A) : ~txn[x].transfer /\ Converted(txn[x])}
Debits(A) == {x \in Spendable(A) : txn[x].base < 0}

\* _foreign_spend
ForeignSpend(A) == {x \in Debits(A) : txn[x].currency # base}

\* create_project_from_trip: of what was chosen, what is foreign spend.
CreateProjectFromTrip(p, xs, A) ==
  LET rows == xs \cap ForeignSpend(A)
      days == {txn[x].day : x \in rows}
  IN /\ Count /\ dates[p] = <<>> /\ rows # {}
     /\ txn' = [x \in Txns |-> IF x \in rows THEN [txn[x] EXCEPT !.project = p] ELSE txn[x]]
     /\ dates' = [dates EXCEPT ![p] = <<Min(days), Max(days)>>]
     /\ UNCHANGED <<base, rate, call, past>>

-----------------------------------------------------------------------------

Init ==
  /\ base \in Currencies
  /\ rate = KnownRates
  /\ txn = [x \in Txns |-> NoRow]
  /\ dates = [p \in Projects |-> <<>>]
  /\ call = [t \in Callers |-> Idle]
  /\ past = "smooth" /\ edits = 0

Living == {p \in Projects : dates[p] # <<>>}

Convert(t) ==
  \/ \E tpl \in Templates : CreateRead(t, tpl)
  \/ \E x \in Txns : CreateCommit(t, x)
  \/ BackfillRead(t) \/ BackfillCommit(t)
  \/ \E b \in Currencies : SaveBase(t, b)
  \/ RecomputeRead(t) \/ RecomputeCommit(t) \/ Fails(t)

Edit(x) ==
  \/ \E ps \in Proposals(txn[x]) : SetSplits(x, ps)
  \/ ClearSplits(x)
  \/ \E c \in Categories \cup {None}, p \in Living \cup {None}, transfer \in BOOLEAN :
       Update(x, c, p, transfer)
  \/ Archive(x)
  \/ Delete(x)

Next ==
  \/ \E t \in Callers : Convert(t)
  \/ \E x \in Editable : Edit(x)
  \/ \E day \in Days, into, quote \in Currencies, r \in ManualRates : SetManualRate(day, into, quote, r)
  \/ \E c \in Categories : DeleteCategory(c)
  \/ \E p \in Projects : DeleteProject(p)
  \/ \E p \in Projects, xs \in SUBSET Editable, A \in SUBSET Accounts :
       CreateProjectFromTrip(p, xs, A)

Spec == Init /\ [][Next]_vars

-----------------------------------------------------------------------------

\* Nobody is converting.  Any call may fail, so whatever the tables can hold they can
\* hold in such a state.
Quiescent == \A t \in Callers : call[t] = Idle

\* split_service: whatever the parts are worth in the base currency, together they
\* are worth the transaction, each in its direction.  (Two calls that meet
\* each commit the columns they changed, and amount and rate need not fit together.)
PartsAddUp ==
  past # "met" => \A x \in {y \in Stored : txn[y].isSplit /\ Converted(txn[y])} :
    /\ SumFunction(Distributed(txn[x])) = txn[x].base
    /\ \A i \in DOMAIN txn[x].parts : Signed(txn[x].base, Magnitude(Distributed(txn[x])[i]))
                                         = Distributed(txn[x])[i]

\* convert_transaction "never recomputes a row that already has a base_amount
\* (preserves existing converted history)": what a row was converted to changes only
\* by the recomputation after a change of the base, or by a backfill that read the
\* row while it had no amount.
HistoryKept ==
  [][\A x \in Stored :
       /\ txn'[x] # NoRow /\ Converted(txn[x])
       /\ <<txn'[x].base, txn'[x].rate>> # <<txn[x].base, txn[x].rate>>
       => \E t \in Callers :
            /\ x \in DOMAIN call[t].read /\ call'[t] = Idle
            /\ call[t].op = "backfill" => ~Converted(call[t].read[x])]_vars

\* recompute_all "(e.g. after a base-currency change)", "Re-convert everything
\* against the new base": with nobody converting, every amount is in the base
\* currency, unless a change of it was cut short or met another call.
OneBase ==
  past = "smooth" /\ Quiescent => \A x \in Stored : Converted(txn[x]) => txn[x].into = base
=============================================================================
