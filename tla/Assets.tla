------------------------------- MODULE Assets -------------------------------
(* Cars and homes with their logs (services/asset_service.py), and the energy  *)
(* a home produces (services/energy_service.py).                               *)
(*                                                                             *)
(* The logs are rows that are added and deleted; all figures are computed      *)
(* from them when they are asked for.  A reading of the energy meter goes over *)
(* the network and takes seconds; what it brought is then stored as a sample,  *)
(* unless the last one is a few minutes old.                                   *)
EXTENDS Integers, SequencesExt

CONSTANTS
  Callers,      \* threads
  Null,         \* NULL in a column
  Assets,       \* asset ids
  Entries,      \* the log entries the household may type in
  Sources,      \* the sources energy can be read from
  MonthLength,  \* days in a month
  Homes,        \* what a run starts from: kinds of call, how many of them, and the rest
  MaxMade       \* bound: kWh produced

Kinds == {"refuel", "service", "expense", "reading", "note"}

\* A row of the asset_logs table; 0 is the id of an entry that is not stored yet.
Numbers == Int \cup {Null}
Log == [id : Nat, asset : Assets, kind : Kinds, date : Nat, cost : Numbers, odometer : Numbers, litres : Numbers,
        full : BOOLEAN, meter : STRING \cup {Null}, reading : Numbers]

ASSUME AssetsAssumption ==
  /\ MonthLength \in Nat \ {0} /\ MaxMade \in Nat
  /\ IsFiniteSet(Assets) /\ Entries \subseteq Log /\ Null \notin Int
  /\ \A h \in Homes : h.energy \in [source : Sources \cup {"off"}, semantics : {"cumulative", "interval"}]

VARIABLES
  now,      \* the day
  logs,     \* the asset_logs table
  energy,   \* the settings: source and production_semantics
  samples,  \* the energy_snapshots table, in the order of captured_at
  meter,    \* what it shows, what was produced since the beginning, how often it was replaced
  reading,  \* what each thread has read from the meter
  astray,   \* history: a sample is not what the meter showed, or older than the one before
  may, left, until  \* bounds: what is done, how often, and for how many days

assetVars == <<logs, energy, samples, meter, reading, astray>>

Do(kind) == kind \in may /\ left > 0 /\ left' = left - 1 /\ UNCHANGED <<may, until>>

NotReading == [step |-> "idle"]
MonthOf(d) == d \div MonthLength

-----------------------------------------------------------------------------
(* Logs.                                                                      *)

\* Mutant: a negative cost is taken.
ValidEntry_Negative(e) == e.odometer # Null => e.odometer >= 0

\* _validate_numeric_fields
ValidEntry(e) ==
  /\ (e.cost # Null => e.cost >= 0) /\ (e.odometer # Null => e.odometer >= 0)
  /\ (e.reading # Null => e.reading >= 0) /\ (e.litres # Null => e.litres > 0)

NextId(S) == 1 + Max({0} \cup {l.id : l \in S})

add_log(e) ==
  /\ Do("log") /\ ValidEntry(e)
  /\ logs' = logs \cup {[e EXCEPT !.id = NextId(logs)]}
  /\ UNCHANGED <<now, energy, samples, meter, reading, astray>>

delete_log(l) ==
  /\ Do("log")
  /\ logs' = logs \ {l}
  /\ UNCHANGED <<now, energy, samples, meter, reading, astray>>

\* list_logs: by date, then in the order they were added.
Earlier(l, m) == l.date < m.date \/ (l.date = m.date /\ l.id < m.id)
LogsOf(a) == {l \in logs : l.asset = a}

\* What the pairs zip(S, S[1:]) have: the rows that are not the first, and the one before.
Following(S) == {l \in S : \E k \in S : Earlier(k, l)}
Previous(S, l) == CHOOSE k \in S : Earlier(k, l) /\ \A m \in S : Earlier(m, l) => m = k \/ Earlier(m, k)

Sum(f, S) == SumFunctionOnSet(f, S)
CostOf(S) == Sum([l \in S |-> IF l.cost = Null THEN 0 ELSE l.cost], S)

-----------------------------------------------------------------------------
(* Cars: consumption from one full tank to the next.                          *)

Refuels(a) == {l \in LogsOf(a) : l.kind = "refuel"}

\* Mutant: the full tanks are lined up, whatever was filled in between.
Fills_FullOnly(a) == {l \in Refuels(a) : l.odometer # Null /\ l.litres # Null /\ l.full}

\* The fills with an odometer.
Fills(a) == {l \in Refuels(a) : l.odometer # Null /\ l.litres # Null}

\* _refuel_segment: both tanks were full and the car has moved.
Measured(prev, cur) == prev.full /\ cur.full /\ cur.odometer > prev.odometer

Segments(a) == {l \in Following(Fills(a)) : Measured(Previous(Fills(a), l), l)}

car_stats(a) ==
  LET s == Segments(a) IN
  [distance |-> Sum([l \in s |-> l.odometer - Previous(Fills(a), l).odometer], s),
   litres |-> Sum([l \in s |-> l.litres], s),
   segment_cost |-> CostOf(s),
   fuel_cost |-> CostOf(Refuels(a))]

-----------------------------------------------------------------------------
(* Homes: usage between the readings of a meter, and the price of a unit.     *)

\* The meters whose name begins with "electric".
Electric == {"electricity", "electric heating"}

Readings(a, meters) == {l \in LogsOf(a) : l.kind = "reading" /\ l.meter \in meters /\ l.reading # Null}

Usage(r, l) == l.reading - Previous(r, l).reading
UsageOf(r, S) == Sum([l \in S |-> Usage(r, l)], S)

\* _meter_stats: a meter that went back was replaced, and that usage is not counted.
Counted(r) == {l \in Following(r) : Usage(r, l) >= 0}
meter_stats(a, m) ==
  LET r == Readings(a, {m}) IN [usage |-> UsageOf(r, Counted(r)), cost |-> CostOf(Counted(r))]

PaidUsage(r) == {l \in Following(r) : Usage(r, l) > 0 /\ l.cost # Null /\ l.cost > 0}

\* derive_unit_price: a pair stands for cost / usage, over the homes together.
derive_unit_price ==
  LET r == [a \in Assets |-> Readings(a, Electric)] IN
  [usage |-> Sum([a \in Assets |-> UsageOf(r[a], PaidUsage(r[a]))], Assets),
   cost |-> Sum([a \in Assets |-> CostOf(PaidUsage(r[a]))], Assets)]

-----------------------------------------------------------------------------
(* The meter of what is produced.                                             *)

\* External: the home produces, and a meter that is replaced begins at 0.
Produce ==
  /\ "produce" \in may /\ meter.made < MaxMade /\ UNCHANGED <<may, left, until>>
  /\ meter' = [meter EXCEPT !.shows = @ + 1, !.made = @ + 1]
  /\ UNCHANGED <<now, logs, energy, samples, reading, astray>>

ReplaceMeter ==
  /\ Do("replace") /\ meter.shows > 0
  /\ meter' = [meter EXCEPT !.shows = 0, !.replaced = @ + 1]
  /\ UNCHANGED <<now, logs, energy, samples, reading, astray>>

\* validate_and_save
Configure(source, semantics) ==
  /\ Do("config")
  /\ energy' = [source |-> source, semantics |-> semantics]
  /\ UNCHANGED <<now, logs, samples, meter, reading, astray>>

\* offset asks the source.  One that does not answer counts as 0 (_sum_numeric).
ReadMeter(t) ==
  /\ Do("read") /\ reading[t] = NotReading /\ energy.source # "off"
  /\ \E value \in {0, meter.shows} :
       reading' = [reading EXCEPT ![t] = [step |-> "read", source |-> energy.source, value |-> value,
                                          at |-> meter]]
  /\ UNCHANGED <<now, logs, energy, samples, meter, astray>>

LastOf(source) == SelectLastInSeq(samples, LAMBDA s : s.source = source)

\* The last sample of this source may be of the last minutes.
Throttled(source) == LastOf(source) # 0 /\ samples[LastOf(source)].day >= now - 1

Older(m, n) == m.made < n.made \/ m.replaced < n.replaced

SampleKept(t) ==
  LET r == reading[t] IN
  /\ r.step = "read"
  /\ samples' = Append(samples, [day |-> now, value |-> r.value, source |-> r.source, at |-> r.at])
  /\ astray' = (astray \/ r.value # r.at.shows \/ (samples # <<>> /\ Older(r.at, Last(samples).at)))
  /\ reading' = [reading EXCEPT ![t] = NotReading]
  /\ UNCHANGED <<now, logs, energy, meter, may, left, until>>

\* Throttled, or the commit fails, which is only logged.
SampleDropped(t) ==
  /\ reading[t].step = "read"
  /\ Throttled(reading[t].source) \/ "fail" \in may
  /\ reading' = [reading EXCEPT ![t] = NotReading]
  /\ UNCHANGED <<now, logs, energy, samples, meter, astray, may, left, until>>

NextDay ==
  /\ now < until
  /\ now' = now + 1
  /\ UNCHANGED <<assetVars, may, left, until>>

-----------------------------------------------------------------------------
(* What was produced.                                                         *)

\* The samples before month m, and those of it.
Before(m) == {i \in DOMAIN samples : MonthOf(samples[i].day) < m}
Within(m) == {i \in DOMAIN samples : MonthOf(samples[i].day) = m}
Risen(n) == IF n > 0 THEN n ELSE 0

\* _month_production of a reading, _baseline_before
month_production(current, m) ==
  IF energy.semantics # "cumulative" \/ Before(m) = {} THEN current
  ELSE Risen(current - samples[Max(Before(m))].value)

\* Mutant: the rise is counted from the first sample in the month.
produced_in_bucket_FirstInside(m) ==
  IF energy.semantics = "interval" THEN Sum([i \in Within(m) |-> samples[i].value], Within(m))
  ELSE IF Within(m) = {} THEN 0
  ELSE Risen(samples[Max(Within(m))].value - samples[Min(Within(m))].value)

\* _produced_in_bucket
produced_in_bucket(m) ==
  IF energy.semantics = "interval" THEN Sum([i \in Within(m) |-> samples[i].value], Within(m))
  ELSE IF Within(m) = {} THEN 0
  ELSE LET base == IF Before(m) = {} THEN Min(Within(m)) ELSE Max(Before(m))
       IN Risen(samples[Max(Within(m))].value - samples[base].value)

\* production_history: the months up to this one.
production_history == [m \in 0..MonthOf(now) |-> produced_in_bucket(m)]

\* last_saving: what the sensor on MQTT tells, in kWh.
last_production ==
  IF energy.source = "off" \/ samples = <<>> THEN 0
  ELSE month_production(Last(samples).value, MonthOf(Last(samples).day))

-----------------------------------------------------------------------------

InitAssets(h) ==
  /\ now = 0 /\ logs = {} /\ samples = <<>>
  /\ energy = h.energy
  /\ meter = [shows |-> 1, made |-> 1, replaced |-> 0]
  /\ reading = [t \in Callers |-> NotReading]
  /\ astray = FALSE
  /\ may = h.may /\ left = h.left /\ until = h.until

LogStep == (\E e \in Entries : add_log(e)) \/ \E l \in logs : delete_log(l)

MeterStep ==
  \/ Produce \/ ReplaceMeter
  \/ \E s \in Sources \cup {"off"}, k \in {"cumulative", "interval"} : Configure(s, k)
  \/ \E t \in Callers : ReadMeter(t) \/ SampleKept(t) \/ SampleDropped(t)

-----------------------------------------------------------------------------
(* Properties.                                                                *)

\* The fuel of a segment is all that was filled since the tank was last full.
TankToTank(a) ==
  (\A l \in Refuels(a) : Null \notin {l.odometer, l.litres}) =>
    \A l \in Segments(a) :
      LET since == {k \in Refuels(a) : Earlier(Previous(Fills(a), l), k) /\ ~Earlier(l, k)}
      IN l.litres = Sum([k \in since |-> k.litres], since)

\* The price of electricity is that of usage the homes' own figures have.
OneMeter == \A l, k \in logs : l.asset = k.asset /\ {l.meter, k.meter} \subseteq Electric => l.meter = k.meter
PriceOfUsage ==
  /\ derive_unit_price.usage <= Sum([a \in Assets |-> Sum([m \in Electric |-> meter_stats(a, m).usage], Electric)], Assets)
  /\ derive_unit_price.cost <= Sum([a \in Assets |-> Sum([m \in Electric |-> meter_stats(a, m).cost], Electric)], Assets)

\* The figures of a car and of a home are of what was logged, in whatever order the
\* entries came and went: segments of fuel are whole, they cost no more than the fuel and
\* the fuel no more than the car, and the price of electricity is of usage that was
\* counted ("tank-to-tank", asset_service; derive_unit_price).  A fill logged without its
\* odometer is not in the line, so the fuel is only told apart where there is none; with
\* two electric meters in one home the price is of the difference between them.
LogsAddUp ==
  /\ \A a \in Assets :
       /\ car_stats(a).segment_cost <= car_stats(a).fuel_cost /\ car_stats(a).fuel_cost <= CostOf(LogsOf(a))
       /\ TankToTank(a)
  /\ OneMeter => PriceOfUsage

\* What the months are said to have produced adds up to what the meter rose by
\* between the first sample and the last, and to no more than that if a meter was
\* replaced; and the sensor tells what the chart tells of the month of the last
\* sample, once there is an earlier month (_produced_in_bucket, last_saving).  Not so
\* when a source that did not answer left a sample of 0, when two readings were stored
\* in the wrong order, or when the source was changed.
ProductionAddsUp ==
  samples # <<>> /\ energy.semantics = "cumulative" =>
    LET rise == Last(samples).at.made - Head(samples).at.made
        told == SumFunction(production_history)
    IN /\ ~astray /\ (\A i \in DOMAIN samples : samples[i].source = Head(samples).source) =>
            IF meter.replaced > 0 THEN told <= rise ELSE told = rise
       /\ energy.source # "off" /\ Before(MonthOf(Last(samples).day)) # {} =>
            last_production = produced_in_bucket(MonthOf(Last(samples).day))
=============================================================================
