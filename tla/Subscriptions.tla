---------------------------- MODULE Subscriptions ----------------------------
(***************************************************************************)
(* Recurring payments: services/subscription_service.py, its routes, the   *)
(* rule action mark_subscription and what merging and deleting a vendor    *)
(* does to the rows.                                                       *)
(*                                                                         *)
(* The charges of a household are grouped by vendor, or by name while no   *)
(* vendor is matched; a group that recurs becomes a subscription, which    *)
(* the next detection finds again by the same vendor or name.  Detection   *)
(* reads, computes and commits apart, so that a second detection, an edit  *)
(* or a deletion may come between.  Sessions do not flush before a query:  *)
(* a row that is added is not found until it is committed.                 *)
(***************************************************************************)
EXTENDS Integers, FiniteSets, Sequences, SequencesExt, FiniteSetsExt, Functions

CONSTANTS
  Callers,       \* threads that serve requests
  Charges,       \* transactions there may be: [label, day, amount, account, plan]
  Labels,        \* merchant_raw or description_raw, stripped
  Fold,          \* a label in lower case, as Python does it
  SqlFold,       \* and as SQLite does it, which knows only the letters a to z
  Vendors,
  Marked,        \* labels a rule with mark_subscription matches
  Chosen,        \* the statuses the owner gives a subscription
  MaxId,         \* bound: subscriptions.id
  Households,    \* what a behaviour allows: [mqtt, batches, vendors, edits], mqtt the setting
                 \* mqtt_enabled, batches the charges imported together, edits a bound
  DETECT_WINDOW, \* 3 * 366 days in the code
  None

ASSUME ChargesAssumption ==
  \A c \in Charges : c.label \in Labels /\ c.day \in Nat /\ c.amount \in Nat \ {0}
\* To lower the letters a to z first does not change what Python lowers a label to, nor does
\* it to lower it twice: what SQLite finds equal to a lower case of Python's is of the same.
ASSUME FoldAssumption ==
  /\ Labels \subseteq DOMAIN Fold /\ DOMAIN SqlFold = DOMAIN Fold
  /\ \A l, m \in DOMAIN Fold : SqlFold[l] = Fold[m] => Fold[l] = Fold[m]
ASSUME VendorsAssumption == None \notin Vendors /\ None \notin Nat /\ None \notin {"cancelled", "ignored"}
ASSUME BoundsAssumption == MaxId \in Nat /\ DETECT_WINDOW \in Nat
ASSUME HouseholdsAssumption == \A h \in Households :
  /\ h.mqtt \in BOOLEAN /\ \A b \in h.batches : b \subseteq Charges /\ IsFiniteSet(b)
  /\ h.vendors \subseteq Vendors /\ h.edits \in Nat

VARIABLES
  home,     \* the member of Households this behaviour is one of
  seen,     \* the charges stored
  alias,    \* the vendor the charges of a label are linked to, or None
  sub,      \* the table subscriptions
  call,     \* what each thread is doing
  edits,    \* history: changes so far
  odd,      \* history: rows that came to stand beside another, or whose name or vendor changed
  wish,     \* history: the status the owner last gave a row, or None
  settled   \* history: a detection was the last change, and nothing came between its parts

charges == <<home, seen, alias>>
history == <<odd, wish, settled>>
subscriptions == <<charges, sub, edits, history>>

Ids == 1..MaxId
NoSub == [status |-> "none"]
Live == {i \in Ids : sub[i] # NoSub}
USER_LOCKED == {"cancelled", "ignored"}

Idle == [pc |-> "idle"]
AllIdle == \A t \in Callers : call[t].pc = "idle"

-----------------------------------------------------------------------------
(* A group of charges, and what it is taken for.                           *)

FREQUENCY_INTERVALS == [weekly |-> 7, fortnightly |-> 14, monthly |-> 30,
                        bi_monthly |-> 61, quarterly |-> 91, yearly |-> 365]

Bands == { <<5, 9, "weekly">>, <<10, 19, "fortnightly">>, <<20, 48, "monthly">>,
           <<49, 74, "bi_monthly">>, <<75, 135, "quarterly">>, <<300, 430, "yearly">> }

\* How many of each there are in twelve months.
PerYear == [weekly |-> 52, fortnightly |-> 26, monthly |-> 12, bi_monthly |-> 6,
            quarterly |-> 4, yearly |-> 1]

\* _group_key
GroupKey(c) ==
  IF alias[c.label] # None THEN [vendor |-> alias[c.label], name |-> None]
  ELSE [vendor |-> None, name |-> Fold[c.label]]

\* _recent_spend
RecentSpend == {c \in seen : \A d \in seen : c.day >= d.day - DETECT_WINDOW}

Group(key) == {c \in RecentSpend : GroupKey(c) = key}
ByDay(cs) == SetToSortSeq(cs, LAMBDA a, b : a.day < b.day)

\* _positive_gaps
Gaps(s) == SelectSeq([i \in 1..(Len(s) - 1) |-> s[i + 1].day - s[i].day], LAMBDA g : g > 0)

\* statistics.median, doubled.
Median2(s) ==
  LET t == SortSeq(s, <) n == Len(s)
  IN IF n % 2 = 1 THEN 2 * t[n \div 2 + 1] ELSE t[n \div 2] + t[n \div 2 + 1]

\* _classify; None between the bands
Classify(median2) ==
  LET bands == {b \in Bands : 2 * b[1] <= median2 /\ median2 <= 2 * b[2]}
  IN IF bands = {} THEN None ELSE (CHOOSE b \in bands : TRUE)[3]

SumSeq(s) == FoldSeq(LAMBDA x, y : x + y, 0, s)
Amounts(s) == [i \in DOMAIN s |-> s[i].amount]
Far(x, y) == IF x >= y THEN x - y ELSE y - x
\* The largest deviation from the mean, times the number of charges.
Deviation(as) == Max({Far(Len(as) * as[i], SumSeq(as)) : i \in DOMAIN as})

\* _is_monotonic_increase
OnlyRises(as) ==
  /\ \A i \in 1..(Len(as) - 1) : as[i] <= as[i + 1]
  /\ as[1] < as[Len(as)]

\* _confidence, at or above 0.6, to a twentieth of the deviation of the gaps: with
\* cov = sqrt(n * Q - G * G) / G it is 0.5 + 0.3 (1 - min(cov, 1)) + 0.2 (1 - dev / 0.35).
Confident(gaps, as, plan) ==
  LET n == Len(gaps)
      G == SumSeq(gaps)
      Q == SumSeq([i \in DOMAIN gaps |-> gaps[i] * gaps[i]])
      room == 27 - (800 * Deviation(as)) \div (21 * SumSeq(as))
  IN plan \/ OnlyRises(as) \/ room >= 20 \/ 400 * (n * Q - G * G) <= room * room * G * G

\* The charges differ by no more than 35 % from their mean.
Steady(as) == 100 * Deviation(as) <= 35 * SumSeq(as)

\* _detect_group: the row the group is to have, as a set of at most one.
Detected(key) ==
  LET s == ByDay(Group(key)) gaps == Gaps(s) as == Amounts(s)
      last == CHOOSE c \in Group(key) : \A d \in Group(key) : d.day <= c.day
      f == Classify(Median2(gaps))
  IN IF Len(s) < 3 \/ Len(gaps) < 2 \/ f = None \/ ~Steady(as) THEN {}
     ELSE {[vendor |-> key.vendor, name |-> last.label, amount |-> last.amount,
            frequency |-> f, last |-> last.day, next |-> last.day + FREQUENCY_INTERVALS[f],
            occurrences |-> Len(s),
            status |-> IF Confident(gaps, as, last.plan) THEN "active" ELSE "possible"]}

Verdicts == UNION {Detected(GroupKey(c)) : c \in RecentSpend}

\* Mutant: a row the owner has put aside is not looked for.
FindExisting_Open(vendor, name) ==
  LET rows == {i \in Live : /\ sub[i].vendor = vendor /\ sub[i].status \notin USER_LOCKED
                            /\ vendor = None => SqlFold[sub[i].name] = Fold[name]}
  IN IF rows = {} THEN 0 ELSE Min(rows)

\* _find_existing: the first row of the vendor, or else of the name; 0 when there is none.
FindExisting(vendor, name) ==
  LET rows == {i \in Live : /\ sub[i].vendor = vendor
                            /\ vendor = None => SqlFold[sub[i].name] = Fold[name]}
  IN IF rows = {} THEN 0 ELSE Min(rows)

-----------------------------------------------------------------------------
(* What the pages and the sensors show of them.                            *)

\* visible_subscription_ids: those with a charge in an account of A.
VisibleIds(A) ==
  LET keys == {GroupKey(c) : c \in {d \in seen : d.account \in A}}
  IN {i \in Live : IF sub[i].vendor # None THEN \E k \in keys : k.vendor = sub[i].vendor
                   ELSE \E k \in keys : k.vendor = None /\ k.name = Fold[sub[i].name]}

\* monthly_equivalent, rounded half to even.
MonthlyEquivalent(s) ==
  LET n == s.amount * PerYear[s.frequency] q == n \div 12 r == n % 12
  IN IF r > 6 \/ (r = 6 /\ q % 2 = 1) THEN q + 1 ELSE q

Active == {i \in Live : sub[i].status = "active"}
MonthlyTotal == SumFunction([i \in Active |-> MonthlyEquivalent(sub[i])])

\* alerts, for those that were expected more than some days ago.
Overdue(day, grace) == {i \in Active : sub[i].next # None /\ sub[i].next - day < -grace}

-----------------------------------------------------------------------------
(* Charges, vendors and the rows a rule makes.                             *)

Begin(t) == call[t].pc = "idle" /\ edits < home.edits /\ edits' = edits + 1
Goto(t, next) == call' = [call EXCEPT ![t] = [pc |-> next]]

\* The rows of s added to the table.
LastId == Max({0} \cup Live)
Fits(s) == LastId + Len(s) <= MaxId
Added(s) == [i \in Ids |-> IF i - LastId \in DOMAIN s THEN s[i - LastId] ELSE sub[i]]

\* _apply_mark_subscription: the row a rule makes of one charge.
Mark(vendor, c) ==
  [vendor |-> vendor, name |-> c.label, amount |-> c.amount, frequency |-> "monthly",
   last |-> c.day, next |-> None, occurrences |-> 1, status |-> "possible"]

\* The charges of cs in the order of their days.
InOrder(cs) == {s \in SetToSeqs(cs) : \A i, j \in DOMAIN s : i < j => s[i].day <= s[j].day}

\* Those a row is made for, when each finds the rows made before it.
Firsts(cs) ==
  LET finds(c, d) == SqlFold[d.label] = Fold[c.label]
  IN {s \in UNION {InOrder(ds) : ds \in SUBSET cs} :
        /\ \A i, j \in DOMAIN s : i < j => ~finds(s[j], s[i])
        /\ \A c \in cs \ Range(s) : \E i \in DOMAIN s : s[i].day <= c.day /\ finds(c, s[i])}

\* confirm_import flushes after every row, before the rules see it; a new row has no
\* vendor yet when they do.
ImportRows(t, b) ==
  /\ Begin(t) /\ b \cap seen = {}
  /\ \E marked \in Firsts({c \in b : c.label \in Marked /\ FindExisting(None, c.label) = 0}) :
       LET rows == [i \in DOMAIN marked |-> Mark(None, marked[i])]
       IN Fits(rows) /\ sub' = Added(rows)
  /\ seen' = seen \cup b
  /\ Goto(t, "detect_after")
  /\ settled' = FALSE
  /\ UNCHANGED <<home, alias, odd, wish>>

\* recategorise runs the rules over all rows and commits at the end.
Recategorise(t) ==
  /\ Begin(t)
  /\ \E marked \in InOrder({c \in seen : c.label \in Marked /\ FindExisting(alias[c.label], c.label) = 0}) :
       LET rows == [i \in DOMAIN marked |-> Mark(alias[marked[i].label], marked[i])]
           beside == {LastId + i : i \in {j \in DOMAIN rows : \E k \in 1..(j - 1) :
                                            GroupKey(marked[k]) = GroupKey(marked[j])}}
       IN Fits(rows) /\ sub' = Added(rows) /\ odd' = odd \cup beside
  /\ settled' = FALSE
  /\ UNCHANGED <<charges, call, wish>>

\* The charges of a label get a vendor: create_from_transaction and the passes after it.
Match(t, l, v) ==
  /\ Begin(t) /\ alias[l] = None
  /\ alias' = [alias EXCEPT ![l] = v]
  /\ settled' = FALSE
  /\ UNCHANGED <<home, seen, sub, call, odd, wish>>

\* The charges and the rows of v become those of w (None: v is deleted, ON DELETE SET NULL).
Repoint(t, v, w) ==
  LET its == {i \in Live : sub[i].vendor = v}
  IN /\ Begin(t) /\ \E l \in Labels : alias[l] = v
     /\ alias' = [l \in Labels |-> IF alias[l] = v THEN w ELSE alias[l]]
     /\ sub' = [i \in Ids |-> IF i \in its THEN [sub[i] EXCEPT !.vendor = w] ELSE sub[i]]
     /\ odd' = odd \cup its
     /\ settled' = FALSE
     /\ UNCHANGED <<home, seen, call, wish>>

MergeVendor(t, v, w) == v # w /\ (\E l \in Labels : alias[l] = w) /\ Repoint(t, v, w)
DeleteVendor(t, v) == Repoint(t, v, None)

-----------------------------------------------------------------------------
(* Detection.                                                              *)

\* The rows that are to be added and those to be updated, as they were loaded.
Plan ==
  {LET i == FindExisting(f.vendor, f.name)
   IN [id |-> i, was |-> IF i = 0 THEN NoSub ELSE sub[i], row |-> f] : f \in Verdicts}

\* Mutant: a status the owner chose is replaced.
Target_Reset(p) == p.row

\* _upsert_subscription: what the loaded row is to become.
Target(p) ==
  IF p.was.status \in USER_LOCKED THEN [p.row EXCEPT !.status = p.was.status] ELSE p.row

DetectStart(t) ==
  /\ Begin(t)
  /\ call' = [call EXCEPT ![t] = [pc |-> "detected", after |-> FALSE, plan |-> Plan]]
  /\ UNCHANGED <<charges, sub, history>>

\* confirm_import goes on to detect.
DetectAfter(t) ==
  /\ call[t].pc = "detect_after"
  /\ call' = [call EXCEPT ![t] = [pc |-> "detected", after |-> TRUE, plan |-> Plan]]
  /\ UNCHANGED subscriptions

Changes(p) == p.id # 0 /\ Target(p) # p.was

\* A loaded row was deleted, or the vendor of a new one.
Vanished(plan) ==
  \E p \in plan :
    \/ Changes(p) /\ sub[p.id] = NoSub
    \/ p.id = 0 /\ p.row.vendor # None /\ \A l \in Labels : alias[l] # p.row.vendor

\* The flush writes the columns that changed since the row was loaded.
Over(p) ==
  [c \in DOMAIN p.row |-> IF Target(p)[c] # p.was[c] THEN Target(p)[c] ELSE sub[p.id][c]]

DetectCommit(t) ==
  LET plan == call[t].plan
      new == SetToSeq({p.row : p \in {q \in plan : q.id = 0}})
      beside == {LastId + k : k \in {j \in DOMAIN new : FindExisting(new[j].vendor, new[j].name) # 0}}
      crossed == {p.id : p \in {q \in plan : Changes(q) /\ sub[q.id].status # q.was.status}}
      moved == {p.id : p \in {q \in plan : /\ Changes(q) /\ Target(q).name # q.was.name
                                          /\ <<sub[q.id].vendor, sub[q.id].name>> # <<q.was.vendor, q.was.name>>}}
      updated(i) == {Over(p) : p \in {q \in plan : q.id = i /\ Changes(q)}}
  IN /\ call[t].pc = "detected" /\ ~Vanished(plan) /\ Fits(new)
     /\ sub' = [i \in Ids |-> IF updated(i) # {} THEN CHOOSE r \in updated(i) : TRUE
                              ELSE Added(new)[i]]
     /\ odd' = odd \cup beside \cup moved
     /\ wish' = [i \in Ids |-> IF i \in crossed THEN None ELSE wish[i]]
     /\ settled' = (plan = Plan)
     /\ Goto(t, "publish")
     /\ UNCHANGED <<charges, edits>>

\* The commit fails: the import has been committed and goes on, the route does not.
DetectFails(t) ==
  /\ call[t].pc = "detected" /\ Vanished(call[t].plan)
  /\ Goto(t, IF call[t].after THEN "publish" ELSE "idle")
  /\ UNCHANGED subscriptions

-----------------------------------------------------------------------------
(* The owner's edits.                                                      *)

SetStatus(t, i, status) ==
  /\ Begin(t) /\ i \in Live
  /\ sub' = [sub EXCEPT ![i].status = status]
  /\ wish' = [wish EXCEPT ![i] = status]
  /\ settled' = FALSE
  /\ Goto(t, "publish")
  /\ UNCHANGED <<charges, odd>>

Rename(t, i, name) ==
  /\ Begin(t) /\ i \in Live /\ sub[i].name # name
  /\ sub' = [sub EXCEPT ![i].name = name]
  /\ odd' = odd \cup {i}
  /\ settled' = FALSE
  /\ Goto(t, "publish")
  /\ UNCHANGED <<charges, wish>>

DeleteSubscription(t, i) ==
  /\ Begin(t) /\ i \in Live
  /\ sub' = [sub EXCEPT ![i] = NoSub]
  /\ odd' = odd \ {i}
  /\ wish' = [wish EXCEPT ![i] = None]
  /\ settled' = FALSE
  /\ Goto(t, "publish")
  /\ UNCHANGED charges

Begun ==
  /\ home \in Households
  /\ seen = {} /\ alias = [l \in Labels |-> None]
  /\ sub = [i \in Ids |-> NoSub] /\ edits = 0
  /\ odd = {} /\ wish = [i \in Ids |-> None] /\ settled = FALSE

Renewals(t) ==
  \/ \E b \in home.batches : ImportRows(t, b)
  \/ Recategorise(t) \/ DetectStart(t) \/ DetectAfter(t) \/ DetectCommit(t) \/ DetectFails(t)
  \/ \E l \in Labels, v \in home.vendors : Match(t, l, v)
  \/ \E v, w \in home.vendors : MergeVendor(t, v, w)
  \/ \E v \in home.vendors : DeleteVendor(t, v)
  \/ \E i \in Ids :
       \/ \E status \in Chosen : SetStatus(t, i, status)
       \/ \E name \in DOMAIN Fold : Rename(t, i, name)
       \/ DeleteSubscription(t, i)

-----------------------------------------------------------------------------
(* Properties.                                                             *)

Plain(name) == SqlFold[name] = Fold[name]
KeyOf(i) ==
  IF sub[i].vendor # None THEN [vendor |-> sub[i].vendor, name |-> None]
  ELSE [vendor |-> None, name |-> Fold[sub[i].name]]
Standing == {i \in Live \ odd : sub[i].vendor # None \/ Plain(sub[i].name)}

\* A group that recurs has its row, with its latest price; the row is overdue exactly when
\* no charge came in an interval and the days of grace, and a member sees it exactly when he
\* sees one of its charges ("the exact same partition _group_key produces").
Served(f) ==
  LET i == FindExisting(f.vendor, f.name)
      its == {c \in seen : GroupKey(c) = KeyOf(i)}
      recent(day) == \E c \in its : c.day + FREQUENCY_INTERVALS[f.frequency] + 3 >= day
  IN /\ i # 0 /\ sub[i].amount = f.amount
     /\ \A c \in seen : i \in Active => (i \in Overdue(c.day + 40, 3) <=> ~recent(c.day + 40))
     /\ \A a \in {c.account : c \in Charges} :
          i \in VisibleIds({a}) <=> \E c \in its : c.account = a

\* "Detection is idempotent": what recurs is counted once, whatever imports, edits and
\* detections came before, unless two detections overlapped, a pass over all rows marked
\* it, or its name or vendor was changed.  After a detection nothing interfered with, each
\* group that recurs is served.
OnePerCharge ==
  /\ \A i, j \in Standing : KeyOf(i) = KeyOf(j) => i = j
  /\ settled => \A f \in {g \in Verdicts : g.vendor # None \/ Plain(g.name)} : Served(f)

\* "Detection never flips a status the user set deliberately": a row the owner has
\* cancelled or ignores keeps that status, and what it stands for is counted by no other
\* row; but a detection that has read the row before the owner's choice may write over it.
CancelledStays ==
  \A i \in Standing : wish[i] \in USER_LOCKED =>
    /\ sub[i].status = wish[i]
    /\ \A j \in Standing \cap Active : KeyOf(j) # KeyOf(i)
=============================================================================
