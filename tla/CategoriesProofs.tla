--------------------------- MODULE CategoriesProofs ---------------------------
(***************************************************************************)
(* Proofs about Categories, for every set of threads, transactions, texts, *)
(* names and rules of the household's own, and every bound.                *)
(***************************************************************************)
EXTENDS Categories, WellFoundedInduction, FiniteSetTheorems, TLAPS

CategoryRef == {None} \cup CatIds
VendorRef == {None} \cup VendorIds
Partial(S, T) == UNION {[D -> T] : D \in SUBSET S}

Row == [category : CategoryRef, confidence : 0..MANUAL_CONFIDENCE, vendor : VendorRef]
VendorRow == [name : Texts \cup {NoText}, default : CategoryRef]
Alias == [vendor : VendorIds, text : Texts, type : MatchTypes]

PassPcs == {"p_rows", "p_apply", "p_commit", "a_commit"}
HandPcs == {"h_vendor", "h_look", "h_rule", "h_commit"}

Call == [op : Ops \cup {"none"}, pc : {"idle"} \cup PassPcs \cup HandPcs, force : BOOLEAN,
         read : Partial(Txns, Row), new : Partial(Txns, Row),
         rules : Partial(RuleIds, Rule), vendors : Partial(VendorIds, VendorRow),
         aliases : SUBSET Alias, seen : SUBSET VendorIds,
         category : CategoryRef, learn : BOOLEAN]

\* The type invariant.
TypeOK ==
  /\ category \in [CatIds -> Names \cup {NoName}]
  /\ vendor \in [VendorIds -> VendorRow]
  /\ alias \subseteq Alias
  /\ rule \in [RuleIds -> Rule \cup {NoRule}]
  /\ txn \in [Txns -> Row \cup {NoRow}]
  /\ call \in [Callers -> Call]
  /\ lesson \in [Texts -> CategoryRef]
  /\ folded \subseteq CatIds

\* A row whose category was chosen by hand, and what leaves the choice alone.
ByHandIn(row) == row.confidence = MANUAL_CONFIDENCE /\ row.category # None
SameChoice(row, new) == new.category = row.category /\ new.confidence = row.confidence

\* What a call c is going to write is about rows it has read, at each of its positions it
\* has what it needs there, and a pass that was not told otherwise spares choices by hand.
Fits(c) ==
  /\ DOMAIN c.new \subseteq DOMAIN c.read
  /\ c.pc \in {"idle", "p_rows", "p_apply"} => DOMAIN c.new = {}
  /\ c.op = "none" <=> c.pc = "idle"
  /\ c.op = "correct" <=> c.pc \in HandPcs
  /\ c.pc \in HandPcs => DOMAIN c.read # {}
  /\ c.pc \in {"h_vendor", "h_look", "h_rule"} => c.category \in CatIds
  /\ c.pc \in {"p_commit", "a_commit"} /\ ~c.force =>
       \A x \in DOMAIN c.new : ByHandIn(c.read[x]) => SameChoice(c.read[x], c.new[x])

CallsFit == \A t \in Callers : Fits(call[t])

-------------------------------------------------------------------------------
(* The least and the largest of numbers, and functions on some of a set.    *)

\* Every set of naturals that has a member has a least one.
LEMMA LeastNumber ==
  ASSUME NEW T \in SUBSET Nat, T # {}
  PROVE  \E m \in T : \A k \in T : m <= k
<1>1. PICK R : R = OpToRel(<, Nat) OBVIOUS
<1>2. \A x, y \in Nat : x < y => <<x, y>> \in R
  BY <1>1, Zenon DEF OpToRel
<1>3. IsWellFoundedOn(R, Nat) BY <1>1, NatLessThanWellFounded, Zenon
<1>4. PICK m \in T : \A k \in T : ~(<<k, m>> \in R) BY <1>3, WFMin
<1>5. \A k \in T : ~(k < m) BY <1>2, <1>4
<1> QED BY <1>5

\* What Min returns is a member.
LEMMA MinMember ==
  ASSUME NEW T \in SUBSET Nat, T # {}
  PROVE  Min(T) \in T
BY LeastNumber DEF Min

-------------------------------------------------------------------------------
(* What a pass makes of a row.                                              *)

\* A rule makes a row of a row, and spares a choice by hand unless forced.
LEMMA AppliedRow ==
  ASSUME NEW r \in Rule, NEW row \in Row, NEW force \in BOOLEAN, Applies(r, row, force)
  PROVE  /\ Applied(r, row) \in Row
         /\ ~force /\ ByHandIn(row) => SameChoice(row, Applied(r, row))
<1>1. CASE r.action = "set_category"
  <2>1. r.ref \in CatIds /\ (force \/ row.confidence < MANUAL_CONFIDENCE)
    BY <1>1 DEF Applies, Exists
  <2>2. Applied(r, row) \in Row
    <3>1. RULE_CONFIDENCE \in 0..MANUAL_CONFIDENCE BY DEF RULE_CONFIDENCE, MANUAL_CONFIDENCE
    <3> QED BY <1>1, <2>1, <3>1 DEF Applied, Row, CategoryRef
  <2> QED BY <2>1, <2>2 DEF ByHandIn, MANUAL_CONFIDENCE
<1>2. CASE r.action # "set_category"
  <2>1. r.ref \in VendorIds BY <1>2 DEF Applies, ExistsVendor
  <2> QED BY <1>2, <2>1 DEF Applied, Row, VendorRef, SameChoice
<1> QED BY <1>1, <1>2

\* Whatever holds of the row before, and of what a rule that applies makes of a row it
\* holds of, holds of the row after the rules.
LEMMA RulesClosed ==
  ASSUME NEW rules, NEW x, NEW row, NEW force, NEW Q, row \in Q,
         \A r \in DOMAIN rules, now \in Q :
           Applies(rules[r], now, force) => Applied(rules[r], now) \in Q
  PROVE  ApplyRules(rules, x, row, force) \in Q
<1>1. ASSUME NEW R, R \subseteq DOMAIN rules, NEW now \in Q
      PROVE  RowAfter(rules, FirstToApply(rules, R, x, now, force), now) \in Q
  <2>1. CASE FirstToApply(rules, R, x, now, force) = {} BY <2>1 DEF RowAfter
  <2>2. CASE FirstToApply(rules, R, x, now, force) # {}
    <3>1. PICK r : r = CHOOSE s \in FirstToApply(rules, R, x, now, force) : TRUE OBVIOUS
    <3>2. r \in R /\ Applies(rules[r], now, force) BY <2>2, <3>1 DEF FirstToApply
    <3> QED BY <1>1, <2>2, <3>1, <3>2 DEF RowAfter
  <2> QED BY <2>1, <2>2
<1>2. PICK one : one = FirstToApply(rules, DOMAIN rules, x, row, force) OBVIOUS
<1>3. PICK now : now = RowAfter(rules, one, row) OBVIOUS
<1>4. PICK R : R = {s \in DOMAIN rules : \A r \in one : /\ Before(rules, r, s)
                                                       /\ rules[s].action # rules[r].action}
  OBVIOUS
<1>5. ApplyRules(rules, x, row, force) =
        IF one = {} THEN row ELSE RowAfter(rules, FirstToApply(rules, R, x, now, force), now)
  BY <1>2, <1>3, <1>4 DEF ApplyRules
<1>6. now \in Q BY <1>1, <1>2, <1>3
<1> QED BY <1>1, <1>4, <1>5, <1>6

\* The rules, one after the other.
LEMMA RulesRow ==
  ASSUME NEW rules \in Partial(RuleIds, Rule), NEW x, NEW row \in Row, NEW force \in BOOLEAN
  PROVE  /\ ApplyRules(rules, x, row, force) \in Row
         /\ ~force /\ ByHandIn(row) => SameChoice(row, ApplyRules(rules, x, row, force))
<1>1. PICK Q : Q = {now \in Row : ~force /\ ByHandIn(row) => SameChoice(row, now)} OBVIOUS
<1>2. row \in Q BY <1>1 DEF SameChoice
<1>3. ASSUME NEW r \in DOMAIN rules, NEW now \in Q, Applies(rules[r], now, force)
      PROVE  Applied(rules[r], now) \in Q
  <2>1. rules[r] \in Rule BY DEF Partial
  <2> QED BY <1>1, <1>3, <2>1, AppliedRow DEF SameChoice, ByHandIn
<1>4. ApplyRules(rules, x, row, force) \in Q BY <1>2, <1>3, RulesClosed
<1> QED BY <1>1, <1>4

\* The default of a vendor, and the keywords of the library.
LEMMA NormalisedRow ==
  ASSUME TypeOK, NEW a \in Alias, NEW vendors \in Partial(VendorIds, VendorRow), NEW row \in Row
  PROVE  /\ Normalised(a, vendors, row) \in Row
         /\ row.category # None => SameChoice(row, Normalised(a, vendors, row))
<1>1. PICK linked : linked = IF row.vendor = None THEN a.vendor ELSE row.vendor OBVIOUS
<1>2. linked \in VendorIds BY <1>1 DEF Row, VendorRef, Alias
<1>3. PICK default : default = IF linked \in DOMAIN vendors THEN vendors[linked].default
                               ELSE IF ExistsVendor(linked) THEN vendor[linked].default ELSE None
  OBVIOUS
<1>4. default \in CategoryRef
  <2>1. \A v \in DOMAIN vendors : vendors[v] \in VendorRow BY DEF Partial
  <2>2. vendor[linked] \in VendorRow BY <1>2 DEF TypeOK
  <2> QED BY <1>3, <2>1, <2>2 DEF VendorRow, CategoryRef
<1>5. MATCH_CONFIDENCE[a.type] \in 0..MANUAL_CONFIDENCE
  BY DEF Alias, MatchTypes, MATCH_PRECEDENCE, MATCH_CONFIDENCE, MANUAL_CONFIDENCE
<1>6. Normalised(a, vendors, row) =
        IF row.category = None /\ default # None
        THEN [category |-> default, confidence |-> MATCH_CONFIDENCE[a.type], vendor |-> linked]
        ELSE [row EXCEPT !.vendor = linked]
  BY <1>1, <1>3 DEF Normalised
<1>7. [row EXCEPT !.vendor = linked] \in Row /\ SameChoice(row, [row EXCEPT !.vendor = linked])
  BY <1>2 DEF Row, VendorRef, SameChoice
<1>8. [category |-> default, confidence |-> MATCH_CONFIDENCE[a.type], vendor |-> linked] \in Row
  BY <1>2, <1>4, <1>5 DEF Row, VendorRef
<1> QED BY <1>6, <1>7, <1>8

\* A keyword of the library, for a row that has no category.
LEMMA KeywordRow ==
  ASSUME NEW d, NEW row \in Row
  PROVE  /\ WithKeyword(d, row) \in Row
         /\ row.category # None => SameChoice(row, WithKeyword(d, row))
<1>1. CASE row.category # None \/ KeywordCategories(d) = {}
  BY <1>1 DEF WithKeyword, SameChoice
<1>2. CASE row.category = None /\ KeywordCategories(d) # {}
  <2>1. KeywordCategories(d) \in SUBSET CatIds /\ CatIds \subseteq Nat
    BY BoundsAssumption DEF KeywordCategories, Categories, CatIds
  <2>2. PICK i \in CatIds : i = Min(KeywordCategories(d)) BY <1>2, <2>1, MinMember
  <2>3. WithKeyword(d, row) = [row EXCEPT !.category = i, !.confidence = KEYWORD_CONFIDENCE]
    BY <1>2, <2>2 DEF WithKeyword
  <2>4. KEYWORD_CONFIDENCE \in 0..MANUAL_CONFIDENCE BY DEF KEYWORD_CONFIDENCE, MANUAL_CONFIDENCE
  <2>5. i \in CategoryRef BY DEF CategoryRef
  <2> QED BY <1>2, <2>3, <2>4, <2>5 DEF Row
<1> QED BY <1>1, <1>2

\* All three in turn: what auto_categorise makes of a row, and the vendor it has seen.
LEMMA AutoRow ==
  ASSUME TypeOK, NEW c, c.rules \in Partial(RuleIds, Rule), c.vendors \in Partial(VendorIds, VendorRow),
         c.aliases \in SUBSET Alias, c.force \in BOOLEAN, NEW x, NEW row \in Row,
         NEW out \in AutoCategorised(c, x, row)
  PROVE  /\ out.row \in Row /\ out.seen \in SUBSET VendorIds
         /\ ~c.force /\ ByHandIn(row) => SameChoice(row, out.row)
<1>1. PICK ruled : ruled = ApplyRules(c.rules, x, row, c.force) OBVIOUS
<1>2. ruled \in Row /\ (~c.force /\ ByHandIn(row) => SameChoice(row, ruled)) BY <1>1, RulesRow
<1>3. CASE BestAliases(c.aliases, Desc[x]) = {}
  <2>1. out.row = WithKeyword(Desc[x], ruled) /\ out.seen = {} BY <1>1, <1>3 DEF AutoCategorised
  <2> QED BY <1>2, <2>1, KeywordRow DEF SameChoice, ByHandIn
<1>4. CASE BestAliases(c.aliases, Desc[x]) # {}
  <2>1. PICK a \in BestAliases(c.aliases, Desc[x]) :
          out.row = WithKeyword(Desc[x], Normalised(a, c.vendors, ruled)) /\ out.seen = {a.vendor}
    BY <1>1, <1>4 DEF AutoCategorised
  <2>2. a \in Alias BY <2>1 DEF BestAliases
  <2>3. PICK now : now = Normalised(a, c.vendors, ruled) OBVIOUS
  <2>4. now \in Row /\ (ruled.category # None => SameChoice(ruled, now))
    BY <1>2, <2>2, <2>3, NormalisedRow
  <2>5. out.row \in Row /\ (now.category # None => SameChoice(now, out.row))
    BY <2>1, <2>3, <2>4, KeywordRow
  <2>6. out.seen \in SUBSET VendorIds BY <2>1, <2>2 DEF Alias
  <2> QED BY <1>2, <2>4, <2>5, <2>6 DEF SameChoice, ByHandIn
<1> QED BY <1>3, <1>4

\* An UPDATE makes a row of rows.
LEMMA MergedRow ==
  ASSUME NEW old \in Row, NEW new \in Row, NEW now \in Row
  PROVE  /\ Merged(old, new, now) \in Row
         /\ SameChoice(old, new) => SameChoice(now, Merged(old, new, now))
<1>1. Merged(old, new, now) \in Row BY DEF Merged, Row
<1>2. SameChoice(old, new) => SameChoice(now, Merged(old, new, now)) BY DEF Merged, Row, SameChoice
<1> QED BY <1>1, <1>2

-------------------------------------------------------------------------------
(* Types.                                                                   *)

TypeInv == TypeOK /\ CallsFit

\* A call goes on as c.
LEMMA CallStep ==
  ASSUME TypeInv, NEW t \in Callers, NEW c \in Call, Fits(c), call' = [call EXCEPT ![t] = c]
  PROVE  call' \in [Callers -> Call] /\ CallsFit'
<1>1. call' \in [Callers -> Call] BY DEF TypeInv, TypeOK
<1>2. ASSUME NEW u \in Callers PROVE Fits(call'[u])
  BY DEF TypeInv, TypeOK, CallsFit
<1> QED BY <1>1, <1>2 DEF CallsFit, Fits

\* No call, and functions on nothing.
LEMMA NoCall ==
  /\ \A S, T : <<>> \in Partial(S, T)
  /\ DOMAIN <<>> = {}
  /\ Idle \in Call /\ Fits(Idle)
<1>1. ASSUME NEW S, NEW T PROVE <<>> \in Partial(S, T)
  <2>1. <<>> \in [{} -> T] OBVIOUS
  <2> QED BY <2>1 DEF Partial
<1>2. DOMAIN <<>> = {} OBVIOUS
<1>3. Idle \in Call
  <2>1. PICK P : P = Partial(Txns, Row) OBVIOUS
  <2>2. PICK Q : Q = Partial(RuleIds, Rule) OBVIOUS
  <2>3. PICK R : R = Partial(VendorIds, VendorRow) OBVIOUS
  <2>4. <<>> \in P /\ <<>> \in Q /\ <<>> \in R BY <1>1, <2>1, <2>2, <2>3
  <2> QED BY <2>1, <2>2, <2>3, <2>4 DEF Idle, Call, CategoryRef
<1>4. Fits(Idle) BY <1>2 DEF Idle, Fits, PassPcs, HandPcs
<1> QED BY <1>1, <1>2, <1>3, <1>4

\* A call that ends.
LEMMA CallEnds ==
  ASSUME TypeInv, NEW t \in Callers, End(t)
  PROVE  call' \in [Callers -> Call] /\ CallsFit'
BY NoCall, CallStep DEF End

\* Reading rows, and the rows there are.
LEMMA ReadRows ==
  ASSUME TypeInv, NEW S \in SUBSET Stored
  PROVE  [x \in S |-> txn[x]] \in Partial(Txns, Row)
<1>1. S \in SUBSET Txns /\ \A x \in S : txn[x] \in Row BY DEF Stored, TypeInv, TypeOK
<1> QED BY <1>1 DEF Partial

\* The rows after a commit.
LEMMA WrittenRows ==
  ASSUME TypeInv, NEW t \in Callers, CanWrite(call[t])
  PROVE  Written(call[t]) \in [Txns -> Row \cup {NoRow}]
<1>1. call[t] \in Call /\ Fits(call[t]) BY DEF TypeInv, TypeOK, CallsFit
<1>2. ASSUME NEW x \in Changed(call[t])
      PROVE  /\ call[t].new[x] \in Row /\ call[t].read[x] \in Row /\ txn[x] \in Row
  <2>1. x \in DOMAIN call[t].new /\ x \in DOMAIN call[t].read BY <1>1 DEF Changed, Fits
  <2>2. call[t].new[x] \in Row BY <1>1, <2>1 DEF Call, Partial
  <2>3. call[t].read[x] \in Row BY <1>1, <2>1 DEF Call, Partial
  <2>4. x \in Stored BY DEF CanWrite
  <2> QED BY <2>2, <2>3, <2>4 DEF Stored, TypeInv, TypeOK
<1>3. \A x \in Changed(call[t]) : Merged(call[t].read[x], call[t].new[x], txn[x]) \in Row
  BY <1>2, MergedRow
<1> QED BY <1>3 DEF Written, TypeInv, TypeOK

\* What a pass reads at its beginning.
LEMMA SnapshotTypes ==
  ASSUME TypeOK
  PROVE  /\ Snapshot.rules \in Partial(RuleIds, Rule)
         /\ Snapshot.vendors \in Partial(VendorIds, VendorRow)
         /\ Snapshot.aliases \in SUBSET Alias
<1>1. Snapshot.rules \in Partial(RuleIds, Rule)
  <2>1. PICK D : D = {s \in Rules : rule[s].enabled} OBVIOUS
  <2>2. D \in SUBSET RuleIds /\ \A r \in D : rule[r] \in Rule
    BY <2>1 DEF Rules, ExistsRule, TypeOK
  <2>3. [r \in D |-> rule[r]] \in [D -> Rule] BY <2>2
  <2>4. [r \in D |-> rule[r]] \in Partial(RuleIds, Rule) BY <2>2, <2>3 DEF Partial
  <2> QED BY <2>1, <2>4 DEF Snapshot
<1>2. Snapshot.vendors \in Partial(VendorIds, VendorRow)
  <2>1. PICK D : D = {a.vendor : a \in alias} OBVIOUS
  <2>2. D \in SUBSET VendorIds /\ \A v \in D : vendor[v] \in VendorRow
    BY <2>1 DEF Alias, TypeOK
  <2>3. [v \in D |-> vendor[v]] \in [D -> VendorRow] BY <2>2
  <2>4. [v \in D |-> vendor[v]] \in Partial(VendorIds, VendorRow) BY <2>2, <2>3 DEF Partial
  <2> QED BY <2>1, <2>4 DEF Snapshot
<1> QED BY <1>1, <1>2 DEF Snapshot, TypeOK

\* The passes: recategorise, apply_suggestions and their commits.
LEMMA PassTypes ==
  ASSUME TypeInv, NEW t \in Callers, Recategorise(t) \/ Suggestions(t) \/ PassCommit(t) \/ PassDropped(t)
  PROVE  TypeInv'
<1> USE DEF TypeInv
<1>t. TypeOK /\ call[t] \in Call /\ Fits(call[t]) BY DEF TypeOK, CallsFit
<1>1. ASSUME NEW force \in BOOLEAN, PassRules(t, force) PROVE TypeInv'
  <2>1. PICK rules, vendors, aliases :
          rules = Snapshot.rules /\ vendors = Snapshot.vendors /\ aliases = Snapshot.aliases
    OBVIOUS
  <2>2. PICK c : c = [Idle EXCEPT !.op = "recategorise", !.pc = "p_rows", !.force = force,
                                  !.rules = rules, !.vendors = vendors, !.aliases = aliases]
    OBVIOUS
  <2>3. c \in Call
    BY <2>1, <2>2, NoCall, SnapshotTypes DEF Call, Ops, PassPcs
  <2>4. Fits(c) BY <2>2, NoCall DEF Fits, Idle, HandPcs
  <2>5. call' = [call EXCEPT ![t] = c] BY <1>1, <2>1, <2>2 DEF PassRules
  <2> QED BY <1>1, <2>3, <2>4, <2>5, CallStep DEF PassRules, TypeOK
<1>2. ASSUME PassRows(t) PROVE TypeInv'
  <2>1. PICK S \in SUBSET Stored : call' = [call EXCEPT ![t].pc = "p_apply", ![t].read = [x \in S |-> txn[x]]]
    BY <1>2 DEF PassRows
  <2>2. PICK read : read = [x \in S |-> txn[x]] OBVIOUS
  <2>3. read \in Partial(Txns, Row) BY <2>2, ReadRows
  <2>4. PICK c : c = [call[t] EXCEPT !.pc = "p_apply", !.read = read] OBVIOUS
  <2>5. c \in Call BY <1>t, <2>3, <2>4 DEF Call, PassPcs
  <2>6. call' = [call EXCEPT ![t] = c] BY <2>1, <2>2, <2>4 DEF TypeOK
  <2>7. DOMAIN call[t].new = {} BY <1>2, <1>t DEF PassRows, Fits
  <2>8. call[t].op # "none" /\ call[t].op # "correct" BY <1>2, <1>t DEF PassRows, Fits, HandPcs
  <2>9. Fits(c) BY <1>t, <2>4, <2>5, <2>7, <2>8 DEF Fits, Call, HandPcs
  <2> QED BY <1>2, <2>5, <2>6, <2>9, CallStep DEF PassRows, TypeOK
<1>3. ASSUME PassApply(t) PROVE TypeInv'
  <2>0. PICK out : /\ \A x \in DOMAIN call[t].read :
                         out[x] \in AutoCategorised(call[t], x, call[t].read[x])
                   /\ call' = [call EXCEPT ![t] = Decided(call[t], out)]
    BY <1>3 DEF PassApply
  <2>1. PICK D : D = DOMAIN call[t].read OBVIOUS
  <2>2. \A x \in D : out[x] \in AutoCategorised(call[t], x, call[t].read[x]) BY <2>0, <2>1
  <2>3. D \in SUBSET Txns /\ call[t].read \in [D -> Row] BY <1>t, <2>1 DEF Call, Partial
  <2>4. ASSUME NEW x \in D
        PROVE  /\ out[x].row \in Row /\ out[x].seen \in SUBSET VendorIds
               /\ ~call[t].force /\ ByHandIn(call[t].read[x]) => SameChoice(call[t].read[x], out[x].row)
    <3>1. /\ call[t].rules \in Partial(RuleIds, Rule) /\ call[t].vendors \in Partial(VendorIds, VendorRow)
          /\ call[t].aliases \in SUBSET Alias /\ call[t].force \in BOOLEAN
      BY <1>t DEF Call
    <3>2. call[t].read[x] \in Row BY <2>3
    <3> QED BY <1>t, <2>2, <3>1, <3>2, AutoRow
  <2>5. PICK new : new = [x \in D |-> out[x].row] OBVIOUS
  <2>6. PICK seen : seen = UNION {out[x].seen : x \in D} OBVIOUS
  <2>7. new \in Partial(Txns, Row) /\ DOMAIN new = D
    <3>1. new \in [D -> Row] BY <2>4, <2>5
    <3> QED BY <2>3, <3>1 DEF Partial
  <2>8. seen \in SUBSET VendorIds BY <2>4, <2>6
  <2>9. PICK c : c = [call[t] EXCEPT !.pc = "p_commit", !.rules = <<>>, !.vendors = <<>>,
                                     !.aliases = {}, !.new = new, !.seen = seen]
    OBVIOUS
  <2>16. c = Decided(call[t], out) BY <2>1, <2>5, <2>6, <2>9 DEF Decided
  <2>10. c \in Call
    <3>1. PICK P : P = Partial(RuleIds, Rule) OBVIOUS
    <3>2. PICK Q : Q = Partial(VendorIds, VendorRow) OBVIOUS
    <3>3. <<>> \in P /\ <<>> \in Q BY <3>1, <3>2, NoCall
    <3> QED BY <1>t, <2>7, <2>8, <2>9, <3>1, <3>2, <3>3 DEF Call, PassPcs
  <2>11. call' = [call EXCEPT ![t] = c] BY <2>0, <2>16
  <2>12. call[t].op # "none" /\ call[t].op # "correct" BY <1>3, <1>t DEF PassApply, Fits, HandPcs
  <2>13. /\ c.new = new /\ c.read = call[t].read /\ c.pc = "p_commit" /\ c.op = call[t].op
         /\ c.force = call[t].force
    BY <1>t, <2>9 DEF Call
  <2>14. \A x \in D : ~c.force /\ ByHandIn(c.read[x]) => SameChoice(c.read[x], c.new[x])
    BY <2>4, <2>5, <2>13
  <2>15. Fits(c) BY <2>1, <2>7, <2>12, <2>13, <2>14 DEF Fits, HandPcs
  <2> QED BY <1>3, <2>10, <2>11, <2>15, CallStep DEF PassApply, TypeOK
<1>4. ASSUME PassCommit(t) PROVE TypeInv'
  BY <1>4, WrittenRows, CallEnds DEF PassCommit, TypeOK
<1>5. ASSUME PassDropped(t) PROVE TypeInv'
  BY <1>5, CallEnds DEF PassDropped, TypeOK
<1>6. ASSUME NEW S \in SUBSET Txns, NEW i \in CatIds, ApplyRead(t, S, i) PROVE TypeInv'
  <2>1. PICK read : read = [x \in S |-> txn[x]] OBVIOUS
  <2>2. PICK new : new = Suggested(S, i) OBVIOUS
  <2>3. S \in SUBSET Stored BY <1>6 DEF ApplyRead
  <2>4. read \in Partial(Txns, Row) BY <2>1, <2>3, ReadRows
  <2>5. PICK D : D = {y \in S : txn[y].confidence < MANUAL_CONFIDENCE} OBVIOUS
  <2>6. \A x \in S : txn[x] \in Row BY <1>t, <2>3 DEF Stored, TypeOK
  <2>7. \A x \in D : [txn[x] EXCEPT !.category = i, !.confidence = MANUAL_CONFIDENCE] \in Row
    <3>1. MANUAL_CONFIDENCE \in 0..MANUAL_CONFIDENCE /\ i \in CategoryRef
      BY DEF MANUAL_CONFIDENCE, CategoryRef
    <3> QED BY <2>5, <2>6, <3>1 DEF Row
  <2>8. new \in [D -> Row] BY <2>2, <2>5, <2>7 DEF Suggested
  <2>9. new \in Partial(Txns, Row) BY <2>5, <2>8 DEF Partial
  <2>10. PICK c : c = [Idle EXCEPT !.op = "apply", !.pc = "a_commit", !.read = read, !.new = new]
    OBVIOUS
  <2>11. c \in Call BY <2>4, <2>9, <2>10, NoCall DEF Call, Ops, PassPcs
  <2>12. c.read = read /\ c.new = new /\ c.pc = "a_commit" /\ c.op = "apply" BY <2>10 DEF Idle
  <2>13. \A x \in D : ~ByHandIn(read[x])
    <3>1. \A x \in D : read[x] = txn[x] /\ txn[x].confidence < MANUAL_CONFIDENCE BY <2>1, <2>5
    <3> QED BY <3>1 DEF ByHandIn, MANUAL_CONFIDENCE
  <2>14. Fits(c) BY <2>1, <2>5, <2>8, <2>12, <2>13 DEF Fits, HandPcs
  <2>15. call' = [call EXCEPT ![t] = c] BY <1>6, <2>1, <2>2, <2>10 DEF ApplyRead
  <2> QED BY <1>6, <2>11, <2>14, <2>15, CallStep DEF ApplyRead, TypeOK
<1> QED BY <1>1, <1>2, <1>3, <1>4, <1>5, <1>6 DEF Recategorise, Suggestions

\* The text of a correction is one of the texts.
LEMMA TextTypes ==
  ASSUME NEW c \in Call, DOMAIN c.read # {} PROVE TextOf(c) \in Texts
<1>1. DOMAIN c.read \in SUBSET Txns BY DEF Call, Partial
<1>2. {Desc[x] : x \in DOMAIN c.read} \subseteq Texts /\ {Desc[x] : x \in DOMAIN c.read} # {}
  BY <1>1, TextsAssumption
<1> QED BY <1>2 DEF TextOf

\* Corrections, and what they teach.
LEMMA HandTypes ==
  ASSUME TypeInv, NEW t \in Callers, Correct(t)
  PROVE  TypeInv'
<1> USE DEF TypeInv
<1>t. TypeOK /\ call[t] \in Call /\ Fits(call[t]) BY DEF TypeOK, CallsFit
<1>1. ASSUME NEW S \in SUBSET Txns, NEW i \in {None} \cup CatIds, NEW v \in BOOLEAN, NEW r \in BOOLEAN,
             HandLoad(t, S, i, v, r)
      PROVE  TypeInv'
  <2>1. PICK read : read = [x \in S |-> txn[x]] OBVIOUS
  <2>2. PICK new : new = [x \in S |-> [txn[x] EXCEPT !.category = i, !.confidence = MANUAL_CONFIDENCE]]
    OBVIOUS
  <2>3. S \in SUBSET Stored /\ S # {} BY <1>1 DEF HandLoad
  <2>4. read \in Partial(Txns, Row) BY <2>1, <2>3, ReadRows
  <2>5. \A x \in S : txn[x] \in Row BY <1>t, <2>3 DEF Stored, TypeOK
  <2>6. MANUAL_CONFIDENCE \in 0..MANUAL_CONFIDENCE /\ i \in CategoryRef
    BY DEF MANUAL_CONFIDENCE, CategoryRef
  <2>7. new \in [S -> Row] BY <2>2, <2>5, <2>6 DEF Row
  <2>8. new \in Partial(Txns, Row) BY <2>7 DEF Partial
  <2>9. PICK pc \in HandPcs : pc = IF v THEN "h_vendor" ELSE IF r THEN "h_look" ELSE "h_commit"
    BY DEF HandPcs
  <2>10. PICK c : c = [Idle EXCEPT !.op = "correct", !.category = i, !.learn = r, !.pc = pc,
                                   !.read = read, !.new = new]
    OBVIOUS
  <2>11. c \in Call BY <2>4, <2>6, <2>8, <2>10, NoCall DEF Call, Ops
  <2>12. /\ c.read = read /\ c.new = new /\ c.pc = pc /\ c.op = "correct" /\ c.category = i
    BY <2>10 DEF Idle
  <2>13. pc \in {"h_vendor", "h_look", "h_rule"} => i \in CatIds BY <1>1, <2>9 DEF HandLoad
  <2>14. Fits(c) BY <2>1, <2>3, <2>7, <2>9, <2>12, <2>13 DEF Fits, HandPcs
  <2>15. call' = [call EXCEPT ![t] = c] BY <1>1, <2>1, <2>2, <2>9, <2>10 DEF HandLoad
  <2> QED BY <1>1, <2>11, <2>14, <2>15, CallStep DEF HandLoad, TypeOK
<1>2. ASSUME HandCommit(t) PROVE TypeInv'
  BY <1>2, WrittenRows, CallEnds DEF HandCommit, TypeOK
<1>3. ASSUME HandVendor(t) PROVE TypeInv'
  <2>1. PICK d : d = TextOf(call[t]) OBVIOUS
  <2>2. call[t].category \in CatIds /\ DOMAIN call[t].read # {} /\ call[t].op = "correct"
    BY <1>3, <1>t DEF HandVendor, Fits, HandPcs
  <2>3. d \in Texts BY <1>t, <2>1, <2>2, TextTypes
  <2>4. PICK v \in VendorIds :
          /\ vendor' = [vendor EXCEPT ![v] = IF ExistsVendor(v) THEN [@ EXCEPT !.default = call[t].category]
                                             ELSE [name |-> d, default |-> call[t].category]]
          /\ alias' = IF BestAliases(alias, d) # {} THEN alias
                      ELSE alias \cup {[vendor |-> v, text |-> d, type |-> "contains"]}
    BY <1>3, <2>1 DEF HandVendor
  <2>5. vendor' \in [VendorIds -> VendorRow]
    BY <1>t, <2>2, <2>3, <2>4 DEF TypeOK, VendorRow, CategoryRef
  <2>6. alias' \subseteq Alias BY <1>t, <2>3, <2>4 DEF TypeOK, Alias, MatchTypes, MATCH_PRECEDENCE
  <2>7. txn' \in [Txns -> Row \cup {NoRow}] BY <1>3, WrittenRows DEF HandVendor
  <2>8. call' \in [Callers -> Call] /\ CallsFit'
    <3>1. CASE call[t].learn
      <4>1. PICK c : c = [call[t] EXCEPT !.pc = "h_look", !.new = <<>>] OBVIOUS
      <4>2. c \in Call
        <5>1. PICK P : P = Partial(Txns, Row) OBVIOUS
        <5>2. <<>> \in P BY <5>1, NoCall
        <5> QED BY <1>t, <4>1, <5>1, <5>2 DEF Call, HandPcs
      <4>3. /\ c.pc = "h_look" /\ c.new = <<>> /\ c.read = call[t].read /\ c.op = call[t].op
            /\ c.category = call[t].category
        BY <1>t, <4>1 DEF Call
      <4>4. Fits(c) BY <1>t, <2>2, <4>3, NoCall DEF Fits, HandPcs
      <4>5. call' = [call EXCEPT ![t] = c] BY <1>3, <3>1, <4>1 DEF HandVendor
      <4> QED BY <4>2, <4>4, <4>5, CallStep
    <3>2. CASE ~call[t].learn
      <4>1. End(t) BY <1>3, <3>2 DEF HandVendor, End
      <4> QED BY <4>1, CallEnds
    <3> QED BY <3>1, <3>2
  <2> QED BY <1>3, <2>5, <2>6, <2>7, <2>8 DEF HandVendor, TypeOK
<1>4. ASSUME HandLook(t) PROVE TypeInv'
  <2>1. PICK D : D = {s \in Rules : /\ rule[s].on = "description"
                                    /\ rule[s].value = TextOf(call[t])
                                    /\ rule[s].action = "set_category"}
    OBVIOUS
  <2>2. PICK rules : rules = [r \in D |-> rule[r]] OBVIOUS
  <2>3. D \in SUBSET RuleIds /\ \A r \in D : rule[r] \in Rule
    BY <1>t, <2>1 DEF Rules, ExistsRule, TypeOK
  <2>4. rules \in [D -> Rule] BY <2>2, <2>3
  <2>5. rules \in Partial(RuleIds, Rule) BY <2>3, <2>4 DEF Partial
  <2>6. PICK c : c = [call[t] EXCEPT !.pc = "h_rule", !.rules = rules] OBVIOUS
  <2>7. c \in Call BY <1>t, <2>5, <2>6 DEF Call, HandPcs
  <2>8. /\ c.pc = "h_rule" /\ c.new = call[t].new /\ c.read = call[t].read /\ c.op = call[t].op
        /\ c.category = call[t].category
    BY <1>t, <2>6 DEF Call
  <2>9. Fits(c) BY <1>4, <1>t, <2>8 DEF HandLook, Fits, HandPcs
  <2>10. call' = [call EXCEPT ![t] = c] BY <1>4, <2>1, <2>2, <2>6 DEF HandLook, TypeOK
  <2> QED BY <1>4, <2>7, <2>9, <2>10, CallStep DEF HandLook, TypeOK
<1>5. ASSUME HandRule(t) PROVE TypeInv'
  <2>1. PICK r \in RuleIds : r = Taking(call[t]) BY <1>5 DEF HandRule
  <2>2. call[t].category \in CatIds /\ DOMAIN call[t].read # {} BY <1>5, <1>t DEF HandRule, Fits, HandPcs
  <2>3. PICK d \in Texts : d = TextOf(call[t]) BY <1>t, <2>2, TextTypes
  <2>4. r \notin DOMAIN call[t].rules \/ ExistsRule(r) => Taught(call[t], r) \in Rule
    <3>1. CASE r \notin DOMAIN call[t].rules
      BY <2>2, <2>3, <3>1 DEF Taught, Lesson, Rule
    <3>2. CASE r \in DOMAIN call[t].rules /\ ExistsRule(r)
      <4>1. rule[r] \in Rule BY <1>t, <3>2 DEF ExistsRule, TypeOK
      <4>2. call[t].rules[r] \in Rule BY <1>t, <3>2 DEF Call, Partial
      <4> QED BY <2>2, <3>2, <4>1, <4>2 DEF Taught, Rule
    <3> QED BY <3>1, <3>2
  <2>5. rule' = rule \/ (Taught(call[t], r) \in Rule /\ rule' = [rule EXCEPT ![r] = Taught(call[t], r)])
    BY <1>5, <2>1, <2>4 DEF HandRule
  <2>6. rule' \in [RuleIds -> Rule \cup {NoRule}] BY <1>t, <2>5 DEF TypeOK
  <2>7. lesson' \in [Texts -> CategoryRef]
    BY <1>5, <1>t, <2>2, <2>3 DEF HandRule, TypeOK, CategoryRef
  <2>8. txn' \in [Txns -> Row \cup {NoRow}] BY <1>5, WrittenRows DEF HandRule
  <2>9. call' \in [Callers -> Call] /\ CallsFit' BY <1>5, CallEnds DEF HandRule
  <2> QED BY <1>5, <2>6, <2>7, <2>8, <2>9 DEF HandRule, TypeOK
<1>6. ASSUME HandDropped(t) PROVE TypeInv'
  BY <1>6, CallEnds DEF HandDropped, TypeOK
<1> QED BY <1>1, <1>2, <1>3, <1>4, <1>5, <1>6 DEF Correct

\* Sets the category, or moves the vendor, of rows that have one.
LEMMA MovedRows ==
  ASSUME TypeOK
  PROVE  /\ \A i \in CatIds, j \in CategoryRef, x \in Txns :
              txn[x].category = i => [txn[x] EXCEPT !.category = j] \in Row
         /\ \A v \in VendorIds, w \in VendorRef, x \in Txns :
              txn[x].vendor = v => [txn[x] EXCEPT !.vendor = w] \in Row
         /\ \A w \in VendorRef, x \in Stored : [txn[x] EXCEPT !.vendor = w] \in Row
<1>1. ASSUME NEW x \in Txns PROVE txn[x] \in Row \/ (txn[x].category = None /\ txn[x].vendor = None)
  <2>1. txn[x] \in Row \/ txn[x] = NoRow BY DEF TypeOK
  <2>2. NoRow.category = None /\ NoRow.vendor = None BY DEF NoRow
  <2> QED BY <2>1, <2>2
<1>2. None \notin CatIds /\ None \notin VendorIds BY BoundsAssumption DEF None, CatIds, VendorIds
<1>3. ASSUME NEW x \in Stored PROVE x \in Txns /\ txn[x] \in Row BY DEF Stored, TypeOK
<1> QED BY <1>1, <1>2, <1>3 DEF Row

\* The row of no rule, with two of its columns as they are.
LEMMA NoRuleStays == [NoRule EXCEPT !.ref = @, !.value = @] = NoRule
BY DEF NoRule

\* Rules by hand.
LEMMA RuleTypes ==
  ASSUME TypeOK
  PROVE  /\ \A h \in HandRules : CreateRule(h) => TypeOK'
         /\ \A r \in RuleIds : UpdateRule(r) \/ DeleteRule(r) => TypeOK'
<1>1. ASSUME NEW r \in Rule \cup {NoRule} PROVE Forgotten(r) \in [Texts -> CategoryRef]
  BY DEF Forgotten, TypeOK, CategoryRef
<1>2. ASSUME NEW h \in HandRules, CreateRule(h) PROVE TypeOK'
  <2>1. h \in Rule BY BoundsAssumption
  <2> QED BY <1>1, <1>2, <2>1 DEF CreateRule, TypeOK
<1>3. ASSUME NEW r \in RuleIds, UpdateRule(r) PROVE TypeOK'
  <2>1. rule[r] \in Rule BY <1>3 DEF UpdateRule, ExistsRule, TypeOK
  <2>2. [rule[r] EXCEPT !.enabled = ~@] \in Rule BY <2>1 DEF Rule
  <2> QED BY <1>1, <1>3, <2>1, <2>2 DEF UpdateRule, TypeOK
<1>4. ASSUME NEW r \in RuleIds, DeleteRule(r) PROVE TypeOK'
  <2>1. rule[r] \in Rule BY <1>4 DEF DeleteRule, ExistsRule, TypeOK
  <2> QED BY <1>1, <1>4, <2>1 DEF DeleteRule, TypeOK
<1> QED BY <1>2, <1>3, <1>4

\* Categories by hand.
LEMMA CategoryTypes ==
  ASSUME TypeOK
  PROVE  /\ \A n \in Names : CreateCategory(n) => TypeOK'
         /\ \A i \in CatIds : DeleteCategory(i) => TypeOK'
         /\ \A i, j \in CatIds : MergeCategory(i, j) => TypeOK'
<1>1. ASSUME NEW n \in Names, CreateCategory(n) PROVE TypeOK'
  BY <1>1 DEF CreateCategory, TypeOK
<1>2. ASSUME NEW i \in CatIds, NEW j \in CategoryRef,
             vendor' = [v \in VendorIds |-> IF vendor[v].default = i THEN [vendor[v] EXCEPT !.default = j]
                                            ELSE vendor[v]],
             txn' = [x \in Txns |-> IF txn[x].category = i THEN [txn[x] EXCEPT !.category = j] ELSE txn[x]],
             lesson' = [d \in Texts |-> IF lesson[d] = i THEN j ELSE lesson[d]]
      PROVE  /\ vendor' \in [VendorIds -> VendorRow]
             /\ txn' \in [Txns -> Row \cup {NoRow}]
             /\ lesson' \in [Texts -> CategoryRef]
  <2>1. vendor' \in [VendorIds -> VendorRow] BY <1>2 DEF TypeOK, VendorRow
  <2>2. txn' \in [Txns -> Row \cup {NoRow}] BY <1>2, MovedRows DEF TypeOK
  <2>3. lesson' \in [Texts -> CategoryRef] BY <1>2 DEF TypeOK
  <2> QED BY <2>1, <2>2, <2>3
<1>3. None \in CategoryRef /\ CatIds \subseteq CategoryRef BY DEF CategoryRef
<1>4. ASSUME NEW i \in CatIds, DeleteCategory(i) PROVE TypeOK'
  BY <1>2, <1>3, <1>4 DEF DeleteCategory, TypeOK
<1>5. ASSUME NEW i \in CatIds, NEW j \in CatIds, MergeCategory(i, j) PROVE TypeOK'
  <2>1. ASSUME NEW r \in RuleIds PROVE Repointed(r, i, j) \in Rule \cup {NoRule}
    <3>1. CASE rule[r] \in Rule BY <3>1 DEF Repointed, Rule
    <3>2. CASE rule[r] = NoRule
      <4>1. Repointed(r, i, j) = [NoRule EXCEPT !.ref = @, !.value = @] BY <3>2 DEF Repointed, NoRule
      <4> QED BY <4>1, NoRuleStays
    <3> QED BY <3>1, <3>2 DEF TypeOK
  <2>2. rule' \in [RuleIds -> Rule \cup {NoRule}] BY <1>5, <2>1 DEF MergeCategory
  <2> QED BY <1>2, <1>3, <1>5, <2>2 DEF MergeCategory, TypeOK
<1> QED BY <1>1, <1>4, <1>5

\* Vendors by hand.
LEMMA VendorTypes ==
  ASSUME TypeOK
  PROVE  /\ \A d \in Texts : CreateVendor(d) => TypeOK'
         /\ \A v \in VendorIds, i \in {None} \cup CatIds : SetDefault(v, i) => TypeOK'
         /\ \A v \in VendorIds, h \in HandAliases : AddAlias(v, h) => TypeOK'
         /\ \A v \in VendorIds : DeleteVendor(v) => TypeOK'
         /\ \A v, w \in VendorIds : MergeVendor(v, w) => TypeOK'
<1>n. None \in CategoryRef /\ None \in VendorRef /\ VendorIds \subseteq VendorRef BY DEF CategoryRef, VendorRef
<1>1. ASSUME NEW d \in Texts, CreateVendor(d) PROVE TypeOK'
  BY <1>1, <1>n DEF CreateVendor, TypeOK, VendorRow
<1>2. ASSUME NEW v \in VendorIds, NEW i \in {None} \cup CatIds, SetDefault(v, i) PROVE TypeOK'
  BY <1>2 DEF SetDefault, TypeOK, VendorRow, CategoryRef
<1>3. ASSUME NEW v \in VendorIds, NEW h \in HandAliases, AddAlias(v, h) PROVE TypeOK'
  <2>1. h.text \in Texts /\ h.type \in MatchTypes BY BoundsAssumption
  <2> QED BY <1>3, <2>1 DEF AddAlias, TypeOK, Alias
<1>4. ASSUME NEW v \in VendorIds, DeleteVendor(v) PROVE TypeOK'
  <2>1. NoVendor \in VendorRow BY <1>n DEF NoVendor, VendorRow
  <2>2. vendor' \in [VendorIds -> VendorRow] BY <1>4, <2>1 DEF DeleteVendor, TypeOK
  <2>3. txn' \in [Txns -> Row \cup {NoRow}] BY <1>4, <1>n, MovedRows DEF DeleteVendor, TypeOK
  <2> QED BY <1>4, <2>2, <2>3 DEF DeleteVendor, TypeOK
<1>5. ASSUME NEW v \in VendorIds, NEW w \in VendorIds, MergeVendor(v, w) PROVE TypeOK'
  <2>1. NoVendor \in VendorRow BY <1>n DEF NoVendor, VendorRow
  <2>2. vendor[v] \in VendorRow /\ vendor[w] \in VendorRow BY DEF TypeOK
  <2>3. PICK new : new = [vendor[w] EXCEPT !.default = IF @ = None THEN vendor[v].default ELSE @] OBVIOUS
  <2>4. new \in VendorRow BY <2>2, <2>3 DEF VendorRow
  <2>5. vendor' \in [VendorIds -> VendorRow]
    <3>1. vendor' = [vendor EXCEPT ![v] = NoVendor, ![w] = new] BY <1>5, <2>3 DEF MergeVendor, TypeOK
    <3> QED BY <2>1, <2>4, <3>1 DEF TypeOK
  <2>6. alias' \subseteq Alias
    <3>1. PICK S \in MovedAliases(v, w) :
            alias' = {a \in alias : a.vendor # v} \cup {[a EXCEPT !.vendor = w] : a \in S}
      BY <1>5 DEF MergeVendor
    <3>2. S \subseteq Alias BY DEF MovedAliases, TypeOK
    <3>3. \A a \in S : [a EXCEPT !.vendor = w] \in Alias BY <3>2 DEF Alias
    <3> QED BY <3>1, <3>3 DEF TypeOK
  <2>7. txn' \in [Txns -> Row \cup {NoRow}] BY <1>5, <1>n, MovedRows DEF MergeVendor, TypeOK
  <2>8. rule' \in [RuleIds -> Rule \cup {NoRule}]
    <3>1. ASSUME NEW r \in RuleIds PROVE rule'[r] \in Rule \cup {NoRule}
      <4>1. rule'[r] = [rule[r] EXCEPT !.ref = IF rule[r].action = "set_vendor" /\ @ = v THEN w ELSE @,
                                       !.value = IF rule[r].on = "vendor" /\ @ = v THEN w ELSE @]
        BY <1>5 DEF MergeVendor
      <4>2. CASE rule[r] \in Rule BY <4>1, <4>2 DEF Rule
      <4>3. CASE rule[r] = NoRule
        <5>1. rule'[r] = [NoRule EXCEPT !.ref = @, !.value = @] BY <4>1, <4>3 DEF NoRule
        <5> QED BY <5>1, NoRuleStays
      <4> QED BY <4>2, <4>3 DEF TypeOK
    <3> QED BY <1>5, <3>1 DEF MergeVendor
  <2> QED BY <1>5, <2>5, <2>6, <2>7, <2>8 DEF MergeVendor, TypeOK
<1> QED BY <1>1, <1>2, <1>3, <1>4, <1>5

\* Transactions by hand.
LEMMA TransactionTypes ==
  ASSUME TypeOK, NEW x \in Txns
  PROVE  /\ VendorFromTransaction(x) => TypeOK'
         /\ \A v \in {None} \cup VendorIds : LinkVendor(x, v) => TypeOK'
         /\ \A i \in {None} \cup CatIds : CreateManual(x, i) => TypeOK'
         /\ DeleteTransaction(x) => TypeOK'
<1>n. None \in CategoryRef /\ None \in VendorRef /\ VendorIds \subseteq VendorRef BY DEF CategoryRef, VendorRef
<1>1. ASSUME VendorFromTransaction(x) PROVE TypeOK'
  <2>1. PICK named : named = {v \in Vendors : vendor[v].name = Desc[x]} OBVIOUS
  <2>2. PICK v \in VendorIds : v = IF named # {} THEN Min(named) ELSE 1 + Max({0} \cup Vendors)
    BY <1>1, <2>1 DEF VendorFromTransaction
  <2>3. /\ vendor' = [vendor EXCEPT ![v] = IF ExistsVendor(v) THEN @ ELSE [name |-> Desc[x], default |-> None]]
        /\ alias' = IF \E a \in alias : a.vendor = v /\ a.text = Desc[x] THEN alias
                    ELSE alias \cup {[vendor |-> v, text |-> Desc[x], type |-> "contains"]}
        /\ txn' = [txn EXCEPT ![x].vendor = v] /\ x \in Stored
    BY <1>1, <2>1, <2>2 DEF VendorFromTransaction
  <2>4. Desc[x] \in Texts BY TextsAssumption
  <2>5. vendor' \in [VendorIds -> VendorRow] BY <1>n, <2>3, <2>4 DEF TypeOK, VendorRow
  <2>6. alias' \subseteq Alias BY <2>3, <2>4 DEF TypeOK, Alias, MatchTypes, MATCH_PRECEDENCE
  <2>7. txn' \in [Txns -> Row \cup {NoRow}] BY <1>n, <2>3, MovedRows DEF TypeOK
  <2> QED BY <1>1, <2>5, <2>6, <2>7 DEF VendorFromTransaction, TypeOK
<1>2. ASSUME NEW v \in {None} \cup VendorIds, LinkVendor(x, v) PROVE TypeOK'
  BY <1>2, <1>n, MovedRows DEF LinkVendor, TypeOK
<1>3. ASSUME NEW i \in {None} \cup CatIds, CreateManual(x, i) PROVE TypeOK'
  <2>1. Fresh \in Row BY <1>n DEF Fresh, Row, None, MANUAL_CONFIDENCE
  <2>2. CASE i # None
    <3>1. MANUAL_CONFIDENCE \in 0..MANUAL_CONFIDENCE /\ i \in CategoryRef
      BY DEF MANUAL_CONFIDENCE, CategoryRef
    <3>2. [Fresh EXCEPT !.category = i, !.confidence = MANUAL_CONFIDENCE] \in Row BY <2>1, <3>1 DEF Row
    <3> QED BY <1>3, <2>2, <3>2 DEF CreateManual, TypeOK
  <2>3. CASE i = None
    <3>1. PICK out \in AutoCategorised(Live, x, Fresh) : txn' = [txn EXCEPT ![x] = out.row]
      BY <1>3, <2>3 DEF CreateManual
    <3>2. PICK rules, vendors : rules = Snapshot.rules /\ vendors = Snapshot.vendors OBVIOUS
    <3>3. Live = [rules |-> rules, vendors |-> vendors, aliases |-> alias, force |-> FALSE]
      BY <3>2 DEF Live
    <3>4. rules \in Partial(RuleIds, Rule) /\ vendors \in Partial(VendorIds, VendorRow)
      BY <3>2, SnapshotTypes
    <3>5. out.row \in Row
      <4>1. PICK c : c = Live OBVIOUS
      <4>2. /\ c.rules \in Partial(RuleIds, Rule) /\ c.vendors \in Partial(VendorIds, VendorRow)
            /\ c.aliases \in SUBSET Alias /\ c.force \in BOOLEAN
        BY <3>3, <3>4, <4>1 DEF TypeOK
      <4> QED BY <2>1, <3>1, <4>1, <4>2, AutoRow
    <3> QED BY <1>3, <3>1, <3>5 DEF CreateManual, TypeOK
  <2> QED BY <2>2, <2>3
<1>4. ASSUME DeleteTransaction(x) PROVE TypeOK'
  BY <1>4 DEF DeleteTransaction, TypeOK
<1> QED BY <1>1, <1>2, <1>3, <1>4

\* Every call that loads and commits at once.
LEMMA ByHandTypes ==
  ASSUME TypeInv, ByHand
  PROVE  TypeInv' /\ call' = call
<1>1. call' = call
  BY DEF ByHand, CreateRule, UpdateRule, DeleteRule, CreateCategory, DeleteCategory, MergeCategory,
         CreateVendor, SetDefault, AddAlias, DeleteVendor, MergeVendor, VendorFromTransaction,
         LinkVendor, CreateManual, DeleteTransaction
<1>2. CallsFit' BY <1>1 DEF TypeInv, CallsFit, Fits
<1>3. TypeOK' BY RuleTypes, CategoryTypes, VendorTypes, TransactionTypes DEF ByHand, TypeInv
<1> QED BY <1>1, <1>2, <1>3 DEF TypeInv

\* The state the runs start from.
LEMMA InitTypes == Init => TypeInv
<1> SUFFICES ASSUME Init PROVE TypeInv OBVIOUS
<1>1. category \in [CatIds -> Names \cup {NoName}]
  <2>1. \A i \in DOMAIN Library : Library[i] \in Names BY TextsAssumption
  <2> QED BY <2>1 DEF Init
<1>2. PICK known \in SUBSET Texts :
        /\ Cardinality(known) <= 1
        /\ vendor = [v \in VendorIds |-> IF v \in 1..Cardinality(known)
                                         THEN [name |-> CHOOSE d \in known : TRUE, default |-> None]
                                         ELSE NoVendor]
        /\ alias = {[vendor |-> 1, text |-> d, type |-> "contains"] : d \in known}
  BY DEF Init
<1>3. None \in CategoryRef /\ 1 \in VendorIds BY BoundsAssumption DEF CategoryRef, VendorIds
<1>4. known # {} \/ Cardinality(known) = 0 BY FS_EmptySet
<1>5. vendor \in [VendorIds -> VendorRow] BY <1>2, <1>3, <1>4 DEF VendorRow, NoVendor
<1>6. alias \subseteq Alias BY <1>2, <1>3 DEF Alias, MatchTypes, MATCH_PRECEDENCE
<1>7. Fresh \in Row BY <1>3 DEF Fresh, Row, None, VendorRef, MANUAL_CONFIDENCE
<1>8. CallsFit /\ call \in [Callers -> Call] BY NoCall DEF Init, CallsFit
<1> QED BY <1>1, <1>3, <1>5, <1>6, <1>7, <1>8 DEF Init, TypeInv, TypeOK

\* Every step.
LEMMA NextTypes == TypeInv /\ [Next]_vars => TypeInv'
<1> SUFFICES ASSUME TypeInv, [Next]_vars PROVE TypeInv' OBVIOUS
<1>1. CASE UNCHANGED vars BY <1>1 DEF vars, TypeInv, TypeOK, CallsFit, Fits
<1>2. CASE ByHand BY <1>2, ByHandTypes
<1>3. ASSUME NEW t \in Callers, \/ Recategorise(t) \/ Suggestions(t) \/ PassCommit(t) \/ PassDropped(t)
                                \/ Correct(t)
      PROVE  TypeInv'
  BY <1>3, PassTypes, HandTypes
<1> QED BY <1>1, <1>2, <1>3 DEF Next

\* Every state the app reaches is well formed.
THEOREM TypesHold == Spec => []TypeInv
<1> QED BY InitTypes, NextTypes, PTL DEF Spec

-------------------------------------------------------------------------------
(* HandOnly: Categories implements ManualChoice.                            *)

\* What the mapping in Categories makes of a row and of a call.
ChoiceOf(row) == [category |-> row.category, byHand |-> row.confidence = MANUAL_CONFIDENCE /\ row.category # None]
PassOf(c) ==
  IF c.pc \in {"p_apply", "p_commit", "a_commit"} /\ ~c.force
  THEN [running |-> TRUE, open |-> {x \in DOMAIN c.read : c.read[x].confidence # MANUAL_CONFIDENCE
                                                          \/ c.read[x].category = None}]
  ELSE [running |-> FALSE, open |-> {}]

ChoiceNow == [x \in Txns |-> ChoiceOf(txn[x])]
PassNow == [t \in Callers |-> PassOf(call[t])]

\* The steps of ManualChoice, as they are seen through the mapping.
LEMMA Mapped ==
  /\ Choice!Init <=> ChoiceNow \in [Txns -> Choice!Choices] /\ PassNow = [t \in Callers |-> Choice!NoPass]
  /\ Choice!ByHand <=> ChoiceNow' \in [Txns -> Choice!Choices] /\ PassNow' = PassNow
  /\ \A t : Choice!Begin(t) <=>
       /\ ~PassNow[t].running
       /\ \E S \in SUBSET {x \in Txns : ~ChoiceNow[x].byHand} :
            PassNow' = [PassNow EXCEPT ![t] = [running |-> TRUE, open |-> S]]
       /\ ChoiceNow' = ChoiceNow
  /\ \A t : Choice!Finish(t) <=>
       /\ PassNow[t].running
       /\ PassNow' = [PassNow EXCEPT ![t] = Choice!NoPass]
       /\ ChoiceNow' \in [Txns -> Choice!Choices]
       /\ \A x \in Txns \ PassNow[t].open : ChoiceNow'[x] = ChoiceNow[x]
  /\ UNCHANGED <<ChoiceNow, PassNow>> => UNCHANGED Choice!vars
BY DEF ChoiceNow, PassNow, ChoiceOf, PassOf, Choice!Init, Choice!ByHand, Choice!Begin, Choice!Finish, Choice!vars

\* What the rows say is always a choice.
LEMMA ChoicesHold == TypeOK => ChoiceNow \in [Txns -> Choice!Choices]
<1> SUFFICES ASSUME TypeOK, NEW x \in Txns PROVE ChoiceOf(txn[x]) \in Choice!Choices
  BY DEF ChoiceNow
<1>1. txn[x] \in Row \/ txn[x] = NoRow BY DEF TypeOK
<1>2. txn[x].category \in CategoryRef BY <1>1 DEF Row, NoRow, CategoryRef
<1> QED BY <1>2 DEF ChoiceOf, Choice!Choices, CategoryRef

\* A step of a call that is no pass, and goes on as none.
LEMMA NoPassStep ==
  ASSUME TypeInv, TypeInv', NEW t \in Callers,
         \A u \in Callers \ {t} : call'[u] = call[u], PassOf(call'[t]) = PassOf(call[t])
  PROVE  Choice!ByHand
<1>1. \A u \in Callers : PassOf(call'[u]) = PassOf(call[u]) OBVIOUS
<1>2. PassNow' = PassNow BY <1>1 DEF PassNow, PassOf
<1>3. ChoiceNow' \in [Txns -> Choice!Choices]
  <2>1. TypeOK' => (ChoiceNow \in [Txns -> Choice!Choices])' BY ChoicesHold, PTL
  <2> QED BY <2>1 DEF TypeInv, Choice!Choices
<1> QED BY <1>2, <1>3, Mapped

\* A call that reads the rows S and then is a pass that was not told to replace choices.
LEMMA BeginStep ==
  ASSUME TypeInv, NEW t \in Callers, NEW S \in SUBSET Stored, NEW c \in Call, txn' = txn,
         call' = [call EXCEPT ![t] = c], call[t].pc \in {"idle", "p_rows"},
         c.pc \in {"p_apply", "a_commit"}, ~c.force, c.read = [x \in S |-> txn[x]]
  PROVE  Choice!Begin(t)
<1>1. ~PassNow[t].running BY DEF PassNow, PassOf
<1>2. ChoiceNow' = ChoiceNow BY DEF ChoiceNow, ChoiceOf
<1>3. PICK open : open = {x \in DOMAIN c.read : c.read[x].confidence # MANUAL_CONFIDENCE
                                                \/ c.read[x].category = None}
  OBVIOUS
<1>4. open \in SUBSET {x \in Txns : ~ChoiceNow[x].byHand}
  BY <1>3 DEF ChoiceNow, ChoiceOf, Stored
<1>5. call'[t] = c /\ \A u \in Callers \ {t} : call'[u] = call[u] BY DEF TypeInv, TypeOK
<1>6. PassOf(call'[t]) = [running |-> TRUE, open |-> open] BY <1>3, <1>5 DEF PassOf
<1>7. PICK begun : begun = [running |-> TRUE, open |-> open] OBVIOUS
<1>8. PassNow' = [PassNow EXCEPT ![t] = begun]
  <2>1. \A u \in Callers : PassOf(call'[u]) = IF u = t THEN begun ELSE PassOf(call[u])
    BY <1>5, <1>6, <1>7
  <2>2. PassNow' = [u \in Callers |-> IF u = t THEN begun ELSE PassOf(call[u])]
    BY <2>1 DEF PassNow, PassOf
  <2>3. [PassNow EXCEPT ![t] = begun] = [u \in Callers |-> IF u = t THEN begun ELSE PassOf(call[u])]
    BY DEF PassNow
  <2> QED BY <2>2, <2>3
<1> QED BY <1>1, <1>2, <1>4, <1>7, <1>8, Mapped

\* A call that ends: a pass that spares choices by hand writes open rows, if any, and any
\* other call is no pass.
LEMMA EndChoices ==
  ASSUME TypeInv, TypeInv', NEW t \in Callers, End(t),
         \/ txn' = txn
         \/ txn' = Written(call[t]) /\ CanWrite(call[t])
  PROVE  Choice!ByHand \/ Choice!Finish(t)
<1>1. call'[t] = Idle /\ \A u \in Callers \ {t} : call'[u] = call[u] BY DEF TypeInv, TypeOK, End
<1>2. PassOf(Idle) = Choice!NoPass BY DEF PassOf, Idle, Choice!NoPass
<1>3. CASE PassOf(call[t]) = Choice!NoPass BY <1>1, <1>2, <1>3, NoPassStep
<1>4. CASE PassOf(call[t]) # Choice!NoPass
  <2>1. /\ call[t].pc \in {"p_apply", "p_commit", "a_commit"} /\ ~call[t].force
        /\ PassOf(call[t]).running
        /\ PassOf(call[t]).open = {x \in DOMAIN call[t].read : call[t].read[x].confidence # MANUAL_CONFIDENCE
                                                               \/ call[t].read[x].category = None}
    BY <1>4 DEF PassOf, Choice!NoPass
  <2>2. PassNow[t].running /\ PassNow[t].open = PassOf(call[t]).open BY <2>1 DEF PassNow
  <2>3. PassNow' = [PassNow EXCEPT ![t] = Choice!NoPass]
    <3>1. \A u \in Callers : PassOf(call'[u]) = IF u = t THEN Choice!NoPass ELSE PassOf(call[u])
      BY <1>1, <1>2
    <3> QED BY <3>1 DEF PassNow, PassOf
  <2>4. ChoiceNow' \in [Txns -> Choice!Choices]
    <3>1. TypeOK' => (ChoiceNow \in [Txns -> Choice!Choices])' BY ChoicesHold, PTL
    <3> QED BY <3>1 DEF TypeInv, Choice!Choices
  <2>5. ASSUME NEW x \in Txns \ PassNow[t].open PROVE ChoiceNow'[x] = ChoiceNow[x]
    <3>1. SameChoice(txn[x], txn'[x])
      <4>1. CASE txn' = txn BY <4>1 DEF SameChoice
      <4>2. CASE txn' = Written(call[t]) /\ CanWrite(call[t]) /\ x \notin Changed(call[t])
        BY <4>2 DEF Written, SameChoice
      <4>3. CASE txn' = Written(call[t]) /\ CanWrite(call[t]) /\ x \in Changed(call[t])
        <5>1. call[t] \in Call /\ Fits(call[t]) BY DEF TypeInv, TypeOK, CallsFit
        <5>2. x \in DOMAIN call[t].new /\ x \in DOMAIN call[t].read BY <4>3, <5>1 DEF Changed, Fits
        <5>3. ByHandIn(call[t].read[x]) BY <2>1, <2>2, <2>5, <5>2 DEF ByHandIn
        <5>4. call[t].pc \in {"p_commit", "a_commit"} BY <2>1, <5>1, <5>2 DEF Fits
        <5>5. SameChoice(call[t].read[x], call[t].new[x]) BY <2>1, <5>1, <5>2, <5>3, <5>4 DEF Fits
        <5>6. call[t].new[x] \in Row /\ call[t].read[x] \in Row
          BY <5>1, <5>2 DEF Call, Partial
        <5>7. txn[x] \in Row BY <4>3 DEF CanWrite, Stored, TypeInv, TypeOK
        <5>8. txn'[x] = Merged(call[t].read[x], call[t].new[x], txn[x]) BY <4>3 DEF Written
        <5> QED BY <5>5, <5>6, <5>7, <5>8, MergedRow
      <4> QED BY <4>1, <4>2, <4>3
    <3> QED BY <3>1 DEF ChoiceNow, ChoiceOf, SameChoice
  <2> QED BY <2>2, <2>3, <2>4, <2>5, Mapped
<1> QED BY <1>3, <1>4

\* Every step of Categories is one of ManualChoice, or none.
LEMMA ChoiceNext ==
  ASSUME TypeInv, TypeInv', [Next]_vars PROVE [Choice!Next]_(Choice!vars)
<1>t. ASSUME NEW t \in Callers PROVE call[t] \in Call /\ Fits(call[t]) BY DEF TypeInv, TypeOK, CallsFit
<1>1. CASE UNCHANGED vars
  <2>1. UNCHANGED <<ChoiceNow, PassNow>> BY <1>1 DEF vars, ChoiceNow, PassNow, ChoiceOf, PassOf
  <2> QED BY <2>1, Mapped
<1>2. CASE ByHand
  <2>1. call' = call BY <1>2, ByHandTypes
  <2>2. PassNow' = PassNow BY <2>1 DEF PassNow, PassOf
  <2>3. ChoiceNow' \in [Txns -> Choice!Choices]
    <3>1. TypeOK' => (ChoiceNow \in [Txns -> Choice!Choices])' BY ChoicesHold, PTL
    <3> QED BY <3>1 DEF TypeInv, Choice!Choices
  <2> QED BY <2>2, <2>3, Mapped DEF Choice!Next
<1>3. ASSUME NEW t \in Callers, PassCommit(t) \/ PassDropped(t) \/ HandCommit(t) \/ HandRule(t) \/ HandDropped(t)
      PROVE  Choice!ByHand \/ Choice!Finish(t)
  BY <1>3, EndChoices DEF PassCommit, PassDropped, HandCommit, HandRule, HandDropped
<1>4. ASSUME NEW t \in Callers, NEW force \in BOOLEAN, PassRules(t, force) PROVE Choice!ByHand
  <2>1. call[t] = Idle /\ call'[t].pc = "p_rows" /\ \A u \in Callers \ {t} : call'[u] = call[u]
    BY <1>4 DEF PassRules, Free, Idle, TypeInv, TypeOK
  <2>2. PassOf(call'[t]) = PassOf(call[t]) BY <2>1 DEF PassOf, Idle
  <2> QED BY <2>1, <2>2, NoPassStep
<1>5. ASSUME NEW t \in Callers, PassRows(t) PROVE Choice!ByHand \/ Choice!Begin(t)
  <2>1. PICK S \in SUBSET Stored : call' = [call EXCEPT ![t].pc = "p_apply", ![t].read = [x \in S |-> txn[x]]]
    BY <1>5 DEF PassRows
  <2>2. PICK c : c = [call[t] EXCEPT !.pc = "p_apply", !.read = [x \in S |-> txn[x]]] OBVIOUS
  <2>3. call' = [call EXCEPT ![t] = c] BY <2>1, <2>2 DEF TypeInv, TypeOK
  <2>4. c.pc = "p_apply" /\ c.read = [x \in S |-> txn[x]] /\ c.force = call[t].force
    BY <1>t, <2>2 DEF Call
  <2>5. call[t].pc = "p_rows" BY <1>5 DEF PassRows
  <2>6. call'[t] = c /\ \A u \in Callers \ {t} : call'[u] = call[u] BY <2>3 DEF TypeInv, TypeOK
  <2>7. CASE call[t].force
    <3>1. PassOf(call'[t]) = PassOf(call[t]) BY <2>4, <2>6, <2>7 DEF PassOf
    <3> QED BY <2>6, <3>1, NoPassStep
  <2>8. CASE ~call[t].force
    <3>1. c \in Call BY <2>6 DEF TypeInv, TypeOK
    <3> QED BY <1>5, <2>3, <2>4, <2>5, <2>8, <3>1, BeginStep DEF PassRows
  <2> QED BY <2>7, <2>8
<1>6. ASSUME NEW t \in Callers, PassApply(t) PROVE Choice!ByHand
  <2>1. PICK out : call' = [call EXCEPT ![t] = Decided(call[t], out)] BY <1>6 DEF PassApply
  <2>2. call'[t] = Decided(call[t], out) /\ \A u \in Callers \ {t} : call'[u] = call[u]
    BY <2>1 DEF TypeInv, TypeOK
  <2>3. call'[t].pc = "p_commit" /\ call'[t].read = call[t].read /\ call'[t].force = call[t].force
    BY <1>t, <2>2 DEF Decided, Call
  <2>4. PassOf(call'[t]) = PassOf(call[t]) BY <1>6, <2>3 DEF PassApply, PassOf
  <2> QED BY <2>2, <2>4, NoPassStep
<1>7. ASSUME NEW t \in Callers, NEW S \in SUBSET Txns, NEW i \in CatIds, ApplyRead(t, S, i)
      PROVE  Choice!Begin(t)
  <2>1. PICK c : c = [Idle EXCEPT !.op = "apply", !.pc = "a_commit", !.read = [x \in S |-> txn[x]],
                                  !.new = Suggested(S, i)]
    OBVIOUS
  <2>2. call' = [call EXCEPT ![t] = c] BY <1>7, <2>1 DEF ApplyRead
  <2>3. c.pc = "a_commit" /\ c.read = [x \in S |-> txn[x]] /\ ~c.force BY <2>1 DEF Idle
  <2>4. c \in Call BY <2>2 DEF TypeInv, TypeOK
  <2>5. call[t].pc = "idle" /\ S \in SUBSET Stored /\ txn' = txn BY <1>7 DEF ApplyRead, Free, Idle
  <2> QED BY <2>2, <2>3, <2>4, <2>5, BeginStep
<1>8. ASSUME NEW t \in Callers, Correct(t), call'[t].pc \in HandPcs PROVE Choice!ByHand
  <2>1. call[t].pc \in {"idle"} \cup HandPcs /\ \A u \in Callers \ {t} : call'[u] = call[u]
    <3>1. CASE \E S \in SUBSET Txns, i \in {None} \cup CatIds, v \in BOOLEAN, r \in BOOLEAN : HandLoad(t, S, i, v, r)
      BY <3>1 DEF HandLoad, Free, Idle, TypeInv, TypeOK
    <3>2. CASE HandCommit(t) \/ HandDropped(t)
      BY <3>2 DEF HandCommit, HandDropped, End, HandPcs, TypeInv, TypeOK
    <3>3. CASE HandVendor(t) BY <3>3 DEF HandVendor, HandPcs, TypeInv, TypeOK
    <3>4. CASE HandLook(t) BY <3>4 DEF HandLook, HandPcs, TypeInv, TypeOK
    <3>5. CASE HandRule(t) BY <3>5 DEF HandRule, End, HandPcs, TypeInv, TypeOK
    <3> QED BY <1>8, <3>1, <3>2, <3>3, <3>4, <3>5 DEF Correct
  <2>2. PassOf(call'[t]) = PassOf(call[t]) BY <1>8, <2>1 DEF PassOf, HandPcs
  <2> QED BY <2>1, <2>2, NoPassStep
<1>9. ASSUME NEW t \in Callers, Correct(t) PROVE Choice!ByHand \/ Choice!Finish(t)
  <2>1. CASE call'[t].pc \in HandPcs BY <1>8, <1>9, <2>1
  <2>2. CASE call'[t].pc \notin HandPcs
    <3>1. CASE HandCommit(t) \/ HandRule(t) \/ HandDropped(t) BY <1>3, <3>1
    <3>2. CASE HandVendor(t)
      <4>1. call'[t] = IF call[t].learn THEN [call[t] EXCEPT !.pc = "h_look", !.new = <<>>] ELSE Idle
        BY <3>2 DEF HandVendor, TypeInv, TypeOK
      <4>2. ~call[t].learn BY <1>t, <2>2, <4>1 DEF Call, HandPcs
      <4>3. End(t) BY <3>2, <4>2 DEF HandVendor, End
      <4> QED BY <3>2, <4>3, EndChoices DEF HandVendor
    <3>3. CASE HandLook(t)
      <4>1. PICK rules : call' = [call EXCEPT ![t].pc = "h_rule", ![t].rules = rules]
        BY <3>3 DEF HandLook
      <4>2. PICK c : c = [call[t] EXCEPT !.pc = "h_rule", !.rules = rules] OBVIOUS
      <4>3. call'[t] = c BY <4>1, <4>2 DEF TypeInv, TypeOK
      <4>4. c.pc = "h_rule" BY <1>t, <4>2 DEF Call
      <4> QED BY <2>2, <4>3, <4>4 DEF HandPcs
    <3>4. ASSUME NEW S \in SUBSET Txns, NEW i \in {None} \cup CatIds, NEW v \in BOOLEAN, NEW r \in BOOLEAN,
                 HandLoad(t, S, i, v, r)
          PROVE  FALSE
      BY <2>2, <3>4 DEF HandLoad, HandPcs, Idle, TypeInv, TypeOK
    <3> QED BY <1>9, <3>1, <3>2, <3>3, <3>4 DEF Correct
  <2> QED BY <2>1, <2>2
<1> QED BY <1>1, <1>2, <1>3, <1>4, <1>5, <1>6, <1>7, <1>9 DEF Next, Recategorise, Suggestions, Choice!Next

\* A category chosen by hand before a pass has read the row outlasts the pass, be it a
\* recategorisation that was not told to replace choices or the application of AI
\* suggestions, for any number of passes, corrections, merges and deletions at once
\* (recategorise, apply_suggestions, apply_rules).
THEOREM HandTheorem == Spec => HandOnly
<1>1. Init => Choice!Init
  <2> SUFFICES ASSUME Init PROVE Choice!Init OBVIOUS
  <2>1. TypeOK BY InitTypes DEF TypeInv
  <2>2. \A t \in Callers : PassOf(call[t]) = Choice!NoPass BY DEF Init, Idle, PassOf, Choice!NoPass
  <2>3. PassNow = [t \in Callers |-> Choice!NoPass] BY <2>2 DEF PassNow
  <2> QED BY <2>1, <2>3, ChoicesHold, Mapped
<1>2. TypeInv /\ TypeInv' /\ [Next]_vars => [Choice!Next]_(Choice!vars) BY ChoiceNext
<1> QED BY <1>1, <1>2, TypesHold, PTL DEF Spec, HandOnly, Choice!Spec

-------------------------------------------------------------------------------
(* NothingLeftBehind: what a merge leaves behind is referred to nowhere.    *)

\* The household makes no correction while it merges categories.
CorrectsAndMergesApart == \E A \in Apart : {"correct", "merge"} \subseteq A

\* What was merged into another category is gone; no rule, vendor, transaction or
\* correction under way refers to it.
FoldedGone == \A i \in folded : ~Exists(i)
RulesMoved ==
  \A r \in RuleIds : /\ rule[r].action = "set_category" => rule[r].ref \notin folded
                     /\ rule[r].on = "category" => rule[r].value \notin folded
DefaultsMoved == \A v \in VendorIds : vendor[v].default \notin folded
RowsMoved == \A x \in Txns : txn[x].category \notin folded
CorrectionsApart == \A t \in Callers : call[t].op = "correct" => call[t].category \notin folded

MergeInv == FoldedGone /\ RulesMoved /\ DefaultsMoved /\ RowsMoved /\ CorrectionsApart

\* Neither no category nor one that exists was merged into another.
LEMMA StillThere ==
  ASSUME TypeOK, FoldedGone PROVE None \notin folded /\ Categories \cap folded = {}
<1>1. None \notin CatIds BY BoundsAssumption DEF None, CatIds
<1> QED BY <1>1 DEF TypeOK, FoldedGone, Categories

\* What the automatic order makes of a row as things are refers to nothing that was merged.
LEMMA AutoMoved ==
  ASSUME TypeOK, FoldedGone, DefaultsMoved, NEW x, NEW row \in Row, row.category \notin folded,
         NEW out \in AutoCategorised(Live, x, row)
  PROVE  out.row.category \notin folded
<1>1. PICK rules, vendors : rules = Snapshot.rules /\ vendors = Snapshot.vendors OBVIOUS
<1>2. PICK c : c = Live OBVIOUS
<1>3. PICK force \in BOOLEAN : force = c.force BY <1>2 DEF Live
<1>r. c.rules = rules /\ c.vendors = vendors BY <1>1, <1>2 DEF Live
<1>4. rules \in Partial(RuleIds, Rule) BY <1>1, SnapshotTypes
<1>5. \A v \in DOMAIN vendors : vendors[v].default \notin folded
  <2>1. vendors = [v \in {a.vendor : a \in alias} |-> vendor[v]] BY <1>1 DEF Snapshot
  <2>2. {a.vendor : a \in alias} \subseteq VendorIds BY DEF TypeOK, Alias
  <2> QED BY <2>1, <2>2 DEF DefaultsMoved
<1>6. PICK ruled : ruled = ApplyRules(rules, x, row, force) OBVIOUS
<1>7. ruled.category \notin folded
  <2>1. PICK Q : Q = {now \in Row : now.category \notin folded} OBVIOUS
  <2>2. ASSUME NEW r \in DOMAIN rules, NEW now \in Q, Applies(rules[r], now, force)
        PROVE  Applied(rules[r], now) \in Q
    <3>1. rules[r] \in Rule BY <1>4 DEF Partial
    <3>2. Applied(rules[r], now) \in Row BY <2>1, <2>2, <3>1, AppliedRow
    <3>3. Applied(rules[r], now).category = now.category \/ Exists(Applied(rules[r], now).category)
      BY <2>1, <2>2 DEF Applied, Applies, Row
    <3> QED BY <2>1, <3>2, <3>3 DEF FoldedGone
  <2>3. row \in Q BY <2>1
  <2>4. ruled \in Q BY <1>6, <2>2, <2>3, RulesClosed
  <2> QED BY <2>1, <2>4
<1>8. ASSUME NEW now, now.category \notin folded PROVE WithKeyword(Desc[x], now).category \notin folded
  <2>1. CASE now.category # None \/ KeywordCategories(Desc[x]) = {} BY <1>8, <2>1 DEF WithKeyword
  <2>2. CASE now.category = None /\ KeywordCategories(Desc[x]) # {}
    <3>1. KeywordCategories(Desc[x]) \in SUBSET Nat
      BY BoundsAssumption DEF KeywordCategories, Categories, CatIds
    <3>2. PICK i \in KeywordCategories(Desc[x]) : i = Min(KeywordCategories(Desc[x]))
      BY <2>2, <3>1, MinMember
    <3>3. WithKeyword(Desc[x], now) = [now EXCEPT !.category = i, !.confidence = KEYWORD_CONFIDENCE]
      BY <2>2, <3>2 DEF WithKeyword
    <3>4. i \notin folded BY <3>2, StillThere DEF KeywordCategories
    <3>5. WithKeyword(Desc[x], now).category \in {i, now.category} BY <3>3
    <3> QED BY <1>8, <3>4, <3>5
  <2> QED BY <2>1, <2>2
<1>9. CASE BestAliases(c.aliases, Desc[x]) = {}
  <2>1. out.row = WithKeyword(Desc[x], ruled) BY <1>2, <1>3, <1>6, <1>9, <1>r DEF AutoCategorised
  <2> QED BY <1>7, <1>8, <2>1
<1>10. CASE BestAliases(c.aliases, Desc[x]) # {}
  <2>1. PICK a : out.row = WithKeyword(Desc[x], Normalised(a, vendors, ruled)) /\ a \in c.aliases
    BY <1>2, <1>3, <1>6, <1>10, <1>r DEF AutoCategorised, BestAliases
  <2>2. PICK now : now = Normalised(a, vendors, ruled) OBVIOUS
  <2>3. PICK linked : linked = IF ruled.vendor = None THEN a.vendor ELSE ruled.vendor OBVIOUS
  <2>4. PICK default : default = IF linked \in DOMAIN vendors THEN vendors[linked].default
                                 ELSE IF ExistsVendor(linked) THEN vendor[linked].default ELSE None
    OBVIOUS
  <2>5. default \notin folded BY <1>5, <2>4, StillThere DEF DefaultsMoved, ExistsVendor
  <2>6. now = IF ruled.category = None /\ default # None
              THEN [category |-> default, confidence |-> MATCH_CONFIDENCE[a.type], vendor |-> linked]
              ELSE [ruled EXCEPT !.vendor = linked]
    BY <2>2, <2>3, <2>4 DEF Normalised
  <2>7. ruled \in Row BY <1>4, <1>6, RulesRow
  <2>8. now.category \notin folded BY <1>7, <2>5, <2>6, <2>7 DEF Row
  <2> QED BY <1>8, <2>1, <2>2, <2>8
<1> QED BY <1>9, <1>10

\* A commit of rows refers to what exists, or to what the rows referred to.
LEMMA WrittenMoved ==
  ASSUME TypeInv, FoldedGone, RowsMoved, NEW t \in Callers, CanWrite(call[t]), NEW x \in Txns
  PROVE  Written(call[t])[x].category \notin folded
<1>1. CASE x \notin Changed(call[t]) BY <1>1 DEF Written, RowsMoved
<1>2. CASE x \in Changed(call[t])
  <2>1. call[t] \in Call /\ Fits(call[t]) BY DEF TypeInv, TypeOK, CallsFit
  <2>2. x \in Stored /\ x \in DOMAIN call[t].new /\ x \in DOMAIN call[t].read
    BY <1>2, <2>1 DEF CanWrite, Changed, Fits
  <2>3. txn[x] \in Row BY <2>2 DEF Stored, TypeInv, TypeOK
  <2>4. Written(call[t])[x] = Merged(call[t].read[x], call[t].new[x], txn[x]) BY <1>2 DEF Written
  <2>5. Written(call[t])[x].category = IF call[t].new[x].category = call[t].read[x].category
                                       THEN txn[x].category ELSE call[t].new[x].category
    BY <2>3, <2>4 DEF Merged, Row
  <2> QED BY <1>2, <2>5, StillThere DEF CanWrite, RowsMoved, TypeInv
<1> QED BY <1>1, <1>2

\* Corrections.
LEMMA HandMoves ==
  ASSUME TypeInv, MergeInv, NEW t \in Callers, Correct(t)
  PROVE  MergeInv'
<1> USE DEF MergeInv
<1>t. TypeOK /\ call[t] \in Call /\ Fits(call[t]) BY DEF TypeInv, TypeOK, CallsFit
<1>g. folded' = folded /\ category' = category
  BY DEF Correct, HandLoad, HandCommit, HandVendor, HandLook, HandRule, HandDropped
<1>f. FoldedGone' BY <1>g DEF FoldedGone, Exists
<1>e. ASSUME End(t) PROVE CorrectionsApart'
  <2>1. Idle.op # "correct" BY DEF Idle
  <2> QED BY <1>e, <1>g, <2>1 DEF End, CorrectionsApart, TypeInv, TypeOK
<1>w. ASSUME CanWrite(call[t]), txn' = Written(call[t]) PROVE RowsMoved'
  BY <1>w, <1>g, WrittenMoved DEF RowsMoved
<1>1. ASSUME NEW S \in SUBSET Txns, NEW i \in {None} \cup CatIds, NEW v \in BOOLEAN, NEW r \in BOOLEAN,
             HandLoad(t, S, i, v, r)
      PROVE  MergeInv'
  <2>1. call'[t].category = i /\ \A u \in Callers \ {t} : call'[u] = call[u]
    BY <1>1 DEF HandLoad, Idle, TypeInv, TypeOK
  <2>2. i \notin folded BY <1>1, <1>t, StillThere DEF HandLoad
  <2>3. CorrectionsApart' BY <1>g, <2>1, <2>2 DEF CorrectionsApart
  <2> QED BY <1>1, <1>f, <2>3 DEF HandLoad, RulesMoved, DefaultsMoved, RowsMoved
<1>2. ASSUME HandCommit(t) PROVE MergeInv'
  BY <1>2, <1>e, <1>f, <1>w DEF HandCommit, RulesMoved, DefaultsMoved
<1>3. ASSUME HandVendor(t) PROVE MergeInv'
  <2>1. call[t].op = "correct" /\ call[t].category \notin folded
    BY <1>3, <1>t DEF HandVendor, Fits, HandPcs, CorrectionsApart
  <2>2. DefaultsMoved'
    <3>d. PICK d : d = TextOf(call[t]) OBVIOUS
    <3>1. PICK v \in VendorIds :
            vendor' = [vendor EXCEPT ![v] = IF ExistsVendor(v) THEN [@ EXCEPT !.default = call[t].category]
                                            ELSE [name |-> d, default |-> call[t].category]]
      BY <1>3, <3>d DEF HandVendor
    <3>2. vendor'[v].default = call[t].category /\ \A w \in VendorIds \ {v} : vendor'[w] = vendor[w]
      BY <1>t, <3>1 DEF TypeOK, VendorRow
    <3> QED BY <1>g, <2>1, <3>2 DEF DefaultsMoved
  <2>3. CorrectionsApart'
    <3>1. call'[t] = Idle \/ call'[t] = [call[t] EXCEPT !.pc = "h_look", !.new = <<>>]
      BY <1>3 DEF HandVendor, TypeInv, TypeOK
    <3>2. call'[t].op # "correct" \/ call'[t].category = call[t].category
      <4>1. CASE call'[t] = Idle BY <4>1 DEF Idle
      <4>2. CASE call'[t] = [call[t] EXCEPT !.pc = "h_look", !.new = <<>>]
        BY <1>t, <4>2 DEF Call
      <4> QED BY <3>1, <4>1, <4>2
    <3>3. \A u \in Callers \ {t} : call'[u] = call[u] BY <1>3 DEF HandVendor, TypeInv, TypeOK
    <3> QED BY <1>g, <2>1, <3>2, <3>3 DEF CorrectionsApart
  <2> QED BY <1>3, <1>f, <1>w, <2>2, <2>3 DEF HandVendor, RulesMoved
<1>4. ASSUME HandLook(t) PROVE MergeInv'
  <2>1. PICK rules : call' = [call EXCEPT ![t].pc = "h_rule", ![t].rules = rules] BY <1>4 DEF HandLook
  <2>2. PICK c : c = [call[t] EXCEPT !.pc = "h_rule", !.rules = rules] OBVIOUS
  <2>3. c.op = call[t].op /\ c.category = call[t].category BY <1>t, <2>2 DEF Call
  <2>4. call'[t] = c /\ \A u \in Callers \ {t} : call'[u] = call[u] BY <2>1, <2>2 DEF TypeInv, TypeOK
  <2>5. CorrectionsApart' BY <1>g, <2>3, <2>4 DEF CorrectionsApart
  <2> QED BY <1>4, <1>f, <2>5 DEF HandLook, RulesMoved, DefaultsMoved, RowsMoved
<1>5. ASSUME HandRule(t) PROVE MergeInv'
  <2>1. call[t].category \notin folded BY <1>5, <1>t DEF HandRule, Fits, HandPcs, CorrectionsApart
  <2>2. PICK r \in RuleIds : rule' = rule \/ rule' = [rule EXCEPT ![r] = Taught(call[t], r)]
    BY <1>5 DEF HandRule
  <2>3. RulesMoved'
    <3>1. PICK new : new = Taught(call[t], r) OBVIOUS
    <3>2. new.action = "set_category" => new.ref \in {call[t].category, rule[r].ref}
      <4>1. CASE r \notin DOMAIN call[t].rules BY <3>1, <4>1 DEF Taught, Lesson
      <4>2. CASE r \in DOMAIN call[t].rules
        <5>1. rule[r] \in Rule \/ rule[r] = NoRule BY <1>t DEF TypeOK
        <5> QED BY <3>1, <4>2, <5>1 DEF Taught, Rule, NoRule
      <4> QED BY <4>1, <4>2
    <3>3. new.on = "category" => rule[r].on = "category" /\ new.value = rule[r].value
      <4>1. CASE r \notin DOMAIN call[t].rules BY <3>1, <4>1 DEF Taught, Lesson
      <4>2. CASE r \in DOMAIN call[t].rules
        <5>1. rule[r] \in Rule \/ rule[r] = NoRule BY <1>t DEF TypeOK
        <5> QED BY <3>1, <4>2, <5>1 DEF Taught, Rule, NoRule
      <4> QED BY <4>1, <4>2
    <3>4. rule[r].ref \notin folded \/ new.action # "set_category" \/ new.ref = call[t].category
      <4>1. CASE r \notin DOMAIN call[t].rules BY <3>1, <4>1 DEF Taught, Lesson
      <4>2. CASE r \in DOMAIN call[t].rules
        <5>1. rule[r] \in Rule \/ rule[r] = NoRule BY <1>t DEF TypeOK
        <5>2. new.action = rule[r].action BY <3>1, <4>2, <5>1 DEF Taught, Rule, NoRule
        <5> QED BY <5>2 DEF RulesMoved
      <4> QED BY <4>1, <4>2
    <3>5. ASSUME NEW s \in RuleIds PROVE rule'[s] = rule[s] \/ (s = r /\ rule'[s] = new)
      BY <1>t, <2>2, <3>1 DEF TypeOK
    <3> QED BY <1>g, <2>1, <3>2, <3>3, <3>4, <3>5 DEF RulesMoved
  <2> QED BY <1>5, <1>e, <1>f, <1>w, <2>3 DEF HandRule, DefaultsMoved
<1>6. ASSUME HandDropped(t) PROVE MergeInv'
  BY <1>6, <1>e, <1>f DEF HandDropped, RulesMoved, DefaultsMoved, RowsMoved
<1> QED BY <1>1, <1>2, <1>3, <1>4, <1>5, <1>6 DEF Correct

\* A pass goes on as no correction, and leaves the other calls alone.
LEMMA PassCalls ==
  ASSUME TypeInv, NEW t \in Callers, Recategorise(t) \/ Suggestions(t) \/ PassCommit(t) \/ PassDropped(t)
  PROVE  call'[t].pc \notin HandPcs /\ \A u \in Callers \ {t} : call'[u] = call[u]
<1>t. call[t] \in Call BY DEF TypeInv, TypeOK
<1>1. ASSUME NEW force \in BOOLEAN, PassRules(t, force)
      PROVE  call'[t].pc \notin HandPcs /\ \A u \in Callers \ {t} : call'[u] = call[u]
  BY <1>1 DEF PassRules, Idle, HandPcs, TypeInv, TypeOK
<1>2. ASSUME PassRows(t)
      PROVE  call'[t].pc \notin HandPcs /\ \A u \in Callers \ {t} : call'[u] = call[u]
  BY <1>2 DEF PassRows, HandPcs, TypeInv, TypeOK, Call
<1>3. ASSUME PassApply(t)
      PROVE  call'[t].pc \notin HandPcs /\ \A u \in Callers \ {t} : call'[u] = call[u]
  <2>1. PICK out : call' = [call EXCEPT ![t] = Decided(call[t], out)] BY <1>3 DEF PassApply
  <2>2. Decided(call[t], out).pc = "p_commit" BY <1>t DEF Decided, Call
  <2> QED BY <2>1, <2>2 DEF HandPcs, TypeInv, TypeOK
<1>4. ASSUME NEW S \in SUBSET Txns, NEW i \in CatIds, ApplyRead(t, S, i)
      PROVE  call'[t].pc \notin HandPcs /\ \A u \in Callers \ {t} : call'[u] = call[u]
  BY <1>4 DEF ApplyRead, Idle, HandPcs, TypeInv, TypeOK
<1>5. ASSUME End(t)
      PROVE  call'[t].pc \notin HandPcs /\ \A u \in Callers \ {t} : call'[u] = call[u]
  BY <1>5 DEF End, Idle, HandPcs, TypeInv, TypeOK
<1> QED BY <1>1, <1>2, <1>3, <1>4, <1>5 DEF Recategorise, Suggestions, PassCommit, PassDropped

\* Passes.
LEMMA PassMoves ==
  ASSUME TypeInv, MergeInv, NEW t \in Callers, Recategorise(t) \/ Suggestions(t) \/ PassCommit(t) \/ PassDropped(t)
  PROVE  MergeInv'
<1> USE DEF MergeInv
<1>t. TypeOK /\ call[t] \in Call BY DEF TypeInv, TypeOK
<1>1. UNCHANGED <<category, vendor, rule, folded>>
  BY DEF Recategorise, PassRules, PassRows, PassApply, Suggestions, ApplyRead, PassCommit, PassDropped
<1>2. call'[t].pc \notin HandPcs /\ \A u \in Callers \ {t} : call'[u] = call[u] BY PassCalls
<1>5. call'[t].op # "correct"
  <2>1. TypeInv' BY PassTypes
  <2> QED BY <1>2, <2>1 DEF TypeInv, CallsFit, Fits
<1>3. CorrectionsApart' BY <1>1, <1>2, <1>5 DEF CorrectionsApart
<1>4. RowsMoved'
  BY <1>1, WrittenMoved DEF Recategorise, PassRules, PassRows, PassApply, Suggestions, ApplyRead, PassCommit,
         PassDropped, RowsMoved
<1> QED BY <1>1, <1>3, <1>4 DEF FoldedGone, RulesMoved, DefaultsMoved, Exists

\* Rules and categories by hand.
LEMMA CategoryMoves ==
  ASSUME TypeInv, MergeInv, CorrectsAndMergesApart
  PROVE  /\ \A h \in HandRules : CreateRule(h) => MergeInv'
         /\ \A r \in RuleIds : UpdateRule(r) \/ DeleteRule(r) => MergeInv'
         /\ \A n \in Names : CreateCategory(n) => MergeInv'
         /\ \A i \in CatIds : DeleteCategory(i) => MergeInv'
         /\ \A i, j \in CatIds : MergeCategory(i, j) => MergeInv'
<1> USE DEF MergeInv
<1>t. TypeOK BY DEF TypeInv
<1>n. None \notin folded /\ Categories \cap folded = {} BY <1>t, StillThere
<1>1. ASSUME NEW h \in HandRules, CreateRule(h) PROVE MergeInv'
  <2>1. /\ h.action = "set_category" => h.ref \notin folded
        /\ h.on = "category" => h.value \notin folded
    BY <1>1 DEF CreateRule, FoldedGone
  <2>2. PICK next \in RuleIds : rule' = [rule EXCEPT ![next] = h] BY <1>1 DEF CreateRule
  <2>3. RulesMoved' BY <1>1, <1>t, <2>1, <2>2 DEF CreateRule, RulesMoved, TypeOK
  <2> QED BY <1>1, <2>3 DEF CreateRule, FoldedGone, Exists, DefaultsMoved, RowsMoved, CorrectionsApart
<1>2. ASSUME NEW r \in RuleIds, UpdateRule(r) PROVE MergeInv'
  <2>1. rule[r] \in Rule BY <1>2, <1>t DEF UpdateRule, ExistsRule, TypeOK
  <2>2. PICK new : new = [rule[r] EXCEPT !.enabled = ~@] OBVIOUS
  <2>3. new.action = rule[r].action /\ new.on = rule[r].on /\ new.ref = rule[r].ref /\ new.value = rule[r].value
    BY <2>1, <2>2 DEF Rule
  <2>4. rule' = [rule EXCEPT ![r] = new] BY <1>2, <2>2 DEF UpdateRule, TypeOK
  <2>5. RulesMoved' BY <1>2, <1>t, <2>3, <2>4 DEF UpdateRule, RulesMoved, TypeOK
  <2> QED BY <1>2, <2>5 DEF UpdateRule, FoldedGone, Exists, DefaultsMoved, RowsMoved, CorrectionsApart
<1>3. ASSUME NEW r \in RuleIds, DeleteRule(r) PROVE MergeInv'
  <2>1. RulesMoved' BY <1>3, <1>t DEF DeleteRule, RulesMoved, TypeOK, NoRule
  <2> QED BY <1>3, <2>1 DEF DeleteRule, FoldedGone, Exists, DefaultsMoved, RowsMoved, CorrectionsApart
<1>4. ASSUME NEW n \in Names, CreateCategory(n) PROVE MergeInv'
  <2>1. PICK next \in CatIds : category' = [category EXCEPT ![next] = n] /\ folded' = folded \ {next}
    BY <1>4 DEF CreateCategory
  <2>2. FoldedGone' BY <1>t, <2>1 DEF FoldedGone, Exists, TypeOK
  <2> QED BY <1>4, <2>1, <2>2 DEF CreateCategory, RulesMoved, DefaultsMoved, RowsMoved, CorrectionsApart
<1>5. ASSUME NEW i \in CatIds, DeleteCategory(i) PROVE MergeInv'
  <2>1. FoldedGone' BY <1>5, <1>t DEF DeleteCategory, FoldedGone, Exists, TypeOK
  <2>2. DefaultsMoved'
    BY <1>5, <1>n, <1>t DEF DeleteCategory, DefaultsMoved, TypeOK, VendorRow
  <2>3. RowsMoved'
    <3>1. ASSUME NEW x \in Txns PROVE txn'[x].category \in {None, txn[x].category}
      <4>1. txn[x] \in Row \/ txn[x] = NoRow BY <1>t DEF TypeOK
      <4> QED BY <1>5, <4>1 DEF DeleteCategory, Row, NoRow
    <3> QED BY <1>5, <1>n, <3>1 DEF DeleteCategory, RowsMoved
  <2> QED BY <1>5, <2>1, <2>2, <2>3 DEF DeleteCategory, RulesMoved, CorrectionsApart
<1>6. ASSUME NEW i \in CatIds, NEW j \in CatIds, MergeCategory(i, j) PROVE MergeInv'
  <2>1. folded' = folded \cup {i} /\ j \notin folded' BY <1>6 DEF MergeCategory, FoldedGone
  <2>2. FoldedGone' BY <1>6, <1>t DEF MergeCategory, FoldedGone, Exists, TypeOK
  <2>3. RulesMoved'
    <3>1. ASSUME NEW r \in RuleIds
          PROVE  LET new == Repointed(r, i, j) IN
                 /\ new.action = "set_category" => new.ref \notin folded'
                 /\ new.on = "category" => new.value \notin folded'
      <4>1. rule[r] \in Rule \/ rule[r] = NoRule BY <1>t DEF TypeOK
      <4> QED BY <1>6, <2>1, <4>1 DEF MergeCategory, Repointed, RulesMoved, Rule, NoRule
    <3> QED BY <1>6, <3>1 DEF MergeCategory, RulesMoved
  <2>4. DefaultsMoved'
    BY <1>6, <1>t, <2>1 DEF MergeCategory, DefaultsMoved, TypeOK, VendorRow
  <2>5. RowsMoved'
    <3>1. ASSUME NEW x \in Txns PROVE txn'[x].category = IF txn[x].category = i THEN j ELSE txn[x].category
      <4>1. txn[x] \in Row \/ txn[x] = NoRow BY <1>t DEF TypeOK
      <4> QED BY <1>6, <4>1 DEF MergeCategory, Row, NoRow
    <3> QED BY <2>1, <3>1 DEF RowsMoved
  <2>6. CorrectionsApart'
    <3>1. PICK A \in Apart : {"correct", "merge"} \subseteq A BY DEF CorrectsAndMergesApart
    <3>2. \A u \in Callers : call[u].op # "correct" BY <1>6, <3>1 DEF MergeCategory, Quiet
    <3> QED BY <1>6, <3>2 DEF MergeCategory, CorrectionsApart
  <2> QED BY <2>2, <2>3, <2>4, <2>5, <2>6
<1> QED BY <1>1, <1>2, <1>3, <1>4, <1>5, <1>6

\* Vendors and transactions by hand.
LEMMA VendorMoves ==
  ASSUME TypeInv, MergeInv
  PROVE  /\ \A d \in Texts : CreateVendor(d) => MergeInv'
         /\ \A v \in VendorIds, i \in {None} \cup CatIds : SetDefault(v, i) => MergeInv'
         /\ \A v \in VendorIds, h \in HandAliases : AddAlias(v, h) => MergeInv'
         /\ \A v \in VendorIds : DeleteVendor(v) => MergeInv'
         /\ \A v, w \in VendorIds : MergeVendor(v, w) => MergeInv'
<1> USE DEF MergeInv
<1>t. TypeOK BY DEF TypeInv
<1>n. None \notin folded /\ Categories \cap folded = {} BY <1>t, StillThere
<1>1. ASSUME NEW d \in Texts, CreateVendor(d) PROVE MergeInv'
  <2>1. DefaultsMoved' BY <1>1, <1>n, <1>t DEF CreateVendor, DefaultsMoved, TypeOK
  <2> QED BY <1>1, <2>1 DEF CreateVendor, FoldedGone, Exists, RulesMoved, RowsMoved, CorrectionsApart
<1>2. ASSUME NEW v \in VendorIds, NEW i \in {None} \cup CatIds, SetDefault(v, i) PROVE MergeInv'
  <2>1. DefaultsMoved' BY <1>2, <1>n, <1>t DEF SetDefault, DefaultsMoved, TypeOK, VendorRow
  <2> QED BY <1>2, <2>1 DEF SetDefault, FoldedGone, Exists, RulesMoved, RowsMoved, CorrectionsApart
<1>3. ASSUME NEW v \in VendorIds, NEW h \in HandAliases, AddAlias(v, h) PROVE MergeInv'
  BY <1>3 DEF AddAlias, FoldedGone, Exists, RulesMoved, DefaultsMoved, RowsMoved, CorrectionsApart
<1>r. ASSUME NEW x \in Txns, NEW w PROVE [txn[x] EXCEPT !.vendor = w].category = txn[x].category
  <2>1. txn[x] \in Row \/ txn[x] = NoRow BY <1>t DEF TypeOK
  <2> QED BY <2>1 DEF Row, NoRow
<1>4. ASSUME NEW v \in VendorIds, DeleteVendor(v) PROVE MergeInv'
  <2>1. DefaultsMoved' BY <1>4, <1>n, <1>t DEF DeleteVendor, DefaultsMoved, TypeOK, NoVendor
  <2>2. RowsMoved' BY <1>4, <1>r DEF DeleteVendor, RowsMoved
  <2> QED BY <1>4, <2>1, <2>2 DEF DeleteVendor, FoldedGone, Exists, RulesMoved, CorrectionsApart
<1>5. ASSUME NEW v \in VendorIds, NEW w \in VendorIds, MergeVendor(v, w) PROVE MergeInv'
  <2>1. PICK new : new = [vendor[w] EXCEPT !.default = IF @ = None THEN vendor[v].default ELSE @] OBVIOUS
  <2>2. new.default \in {vendor[v].default, vendor[w].default} BY <1>t, <2>1 DEF TypeOK, VendorRow
  <2>3. vendor' = [vendor EXCEPT ![v] = NoVendor, ![w] = new] BY <1>5, <2>1 DEF MergeVendor, TypeOK
  <2>7. folded' = folded BY <1>5 DEF MergeVendor
  <2>4. DefaultsMoved' BY <1>n, <1>t, <2>2, <2>3, <2>7 DEF DefaultsMoved, TypeOK, NoVendor
  <2>5. RowsMoved'
    <3>1. txn' = [x \in Txns |-> IF txn[x].vendor = v THEN [txn[x] EXCEPT !.vendor = w] ELSE txn[x]]
      BY <1>5 DEF MergeVendor
    <3> QED BY <1>r, <2>7, <3>1 DEF RowsMoved
  <2>6. RulesMoved'
    <3>1. ASSUME NEW r \in RuleIds
          PROVE  /\ rule'[r].action = rule[r].action /\ rule'[r].on = rule[r].on
                 /\ rule[r].action = "set_category" => rule'[r].ref = rule[r].ref
                 /\ rule[r].on = "category" => rule'[r].value = rule[r].value
      <4>1. rule[r] \in Rule \/ rule[r] = NoRule BY <1>t DEF TypeOK
      <4>2. rule'[r] = [rule[r] EXCEPT !.ref = IF rule[r].action = "set_vendor" /\ @ = v THEN w ELSE @,
                                       !.value = IF rule[r].on = "vendor" /\ @ = v THEN w ELSE @]
        BY <1>5 DEF MergeVendor
      <4> QED BY <4>1, <4>2 DEF Rule, NoRule
    <3> QED BY <2>7, <3>1 DEF RulesMoved
  <2> QED BY <1>5, <2>4, <2>5, <2>6 DEF MergeVendor, FoldedGone, Exists, CorrectionsApart
<1> QED BY <1>1, <1>2, <1>3, <1>4, <1>5

\* Transactions by hand.
LEMMA TransactionMoves ==
  ASSUME TypeInv, MergeInv, NEW x \in Txns
  PROVE  /\ VendorFromTransaction(x) => MergeInv'
         /\ \A v \in {None} \cup VendorIds : LinkVendor(x, v) => MergeInv'
         /\ \A i \in {None} \cup CatIds : CreateManual(x, i) => MergeInv'
         /\ DeleteTransaction(x) => MergeInv'
<1> USE DEF MergeInv
<1>t. TypeOK BY DEF TypeInv
<1>n. None \notin folded /\ Categories \cap folded = {} BY <1>t, StillThere
<1>r. ASSUME NEW w PROVE [txn[x] EXCEPT !.vendor = w].category = txn[x].category
  <2>1. txn[x] \in Row \/ txn[x] = NoRow BY <1>t DEF TypeOK
  <2> QED BY <2>1 DEF Row, NoRow
<1>1. ASSUME VendorFromTransaction(x) PROVE MergeInv'
  <2>1. PICK v \in VendorIds :
          /\ vendor' = [vendor EXCEPT ![v] = IF ExistsVendor(v) THEN @ ELSE [name |-> Desc[x], default |-> None]]
          /\ txn' = [txn EXCEPT ![x].vendor = v]
    <3>1. PICK named : named = {v \in Vendors : vendor[v].name = Desc[x]} OBVIOUS
    <3>2. PICK v : v = IF named # {} THEN Min(named) ELSE 1 + Max({0} \cup Vendors) OBVIOUS
    <3> QED BY <1>1, <3>1, <3>2 DEF VendorFromTransaction
  <2>2. DefaultsMoved' BY <1>1, <1>n, <1>t, <2>1 DEF VendorFromTransaction, DefaultsMoved, TypeOK
  <2>3. RowsMoved' BY <1>1, <1>r, <1>t, <2>1 DEF VendorFromTransaction, RowsMoved, TypeOK
  <2> QED BY <1>1, <2>2, <2>3 DEF VendorFromTransaction, FoldedGone, Exists, RulesMoved, CorrectionsApart
<1>2. ASSUME NEW v \in {None} \cup VendorIds, LinkVendor(x, v) PROVE MergeInv'
  <2>1. RowsMoved' BY <1>2, <1>r, <1>t DEF LinkVendor, RowsMoved, TypeOK
  <2> QED BY <1>2, <2>1 DEF LinkVendor, FoldedGone, Exists, RulesMoved, DefaultsMoved, CorrectionsApart
<1>3. ASSUME NEW i \in {None} \cup CatIds, CreateManual(x, i) PROVE MergeInv'
  <2>1. PICK new : txn' = [txn EXCEPT ![x] = new] /\ new.category \notin folded
    <3>1. CASE i # None
      <4>1. txn' = [txn EXCEPT ![x] = [Fresh EXCEPT !.category = i, !.confidence = MANUAL_CONFIDENCE]]
        BY <1>3, <3>1 DEF CreateManual
      <4>2. [Fresh EXCEPT !.category = i, !.confidence = MANUAL_CONFIDENCE].category = i BY DEF Fresh
      <4>3. i \notin folded BY <1>3, <1>n DEF CreateManual
      <4> QED BY <4>1, <4>2, <4>3
    <3>2. CASE i = None
      <4>1. PICK out \in AutoCategorised(Live, x, Fresh) : txn' = [txn EXCEPT ![x] = out.row]
        BY <1>3, <3>2 DEF CreateManual
      <4>2. Fresh \in Row /\ Fresh.category = None
        BY DEF Fresh, Row, None, MANUAL_CONFIDENCE, CategoryRef, VendorRef
      <4> QED BY <1>n, <1>t, <4>1, <4>2, AutoMoved
    <3> QED BY <3>1, <3>2
  <2>2. RowsMoved' BY <1>3, <1>t, <2>1 DEF CreateManual, RowsMoved, TypeOK
  <2> QED BY <1>3, <2>2 DEF CreateManual, FoldedGone, Exists, RulesMoved, DefaultsMoved, CorrectionsApart
<1>4. ASSUME DeleteTransaction(x) PROVE MergeInv'
  <2>1. RowsMoved' BY <1>4, <1>n, <1>t DEF DeleteTransaction, RowsMoved, TypeOK, NoRow
  <2> QED BY <1>4, <2>1 DEF DeleteTransaction, FoldedGone, Exists, RulesMoved, DefaultsMoved, CorrectionsApart
<1> QED BY <1>1, <1>2, <1>3, <1>4

\* Nothing refers to a category that was merged into another, if no correction is under way
\* during the merge: no rule, no vendor's default and no transaction, for any number of
\* merges, passes and deletions (merge_category).
THEOREM MergeTheorem == CorrectsAndMergesApart => (Spec => []NothingLeftBehind)
<1> SUFFICES ASSUME CorrectsAndMergesApart PROVE Spec => []NothingLeftBehind OBVIOUS
<1>1. Init => MergeInv
  <2> SUFFICES ASSUME Init PROVE MergeInv OBVIOUS
  <2> QED BY DEF Init, MergeInv, FoldedGone, RulesMoved, DefaultsMoved, RowsMoved, CorrectionsApart
<1>2. TypeInv /\ MergeInv /\ [Next]_vars => MergeInv'
  <2> SUFFICES ASSUME TypeInv, MergeInv, [Next]_vars PROVE MergeInv' OBVIOUS
  <2>1. CASE UNCHANGED vars
    BY <2>1 DEF vars, MergeInv, FoldedGone, Exists, RulesMoved, DefaultsMoved, RowsMoved, CorrectionsApart
  <2>2. CASE ByHand BY <2>2, CategoryMoves, VendorMoves, TransactionMoves DEF ByHand
  <2>3. ASSUME NEW t \in Callers, \/ Recategorise(t) \/ Suggestions(t) \/ PassCommit(t) \/ PassDropped(t)
                                  \/ Correct(t)
        PROVE  MergeInv'
    BY <2>3, HandMoves, PassMoves
  <2> QED BY <2>1, <2>2, <2>3 DEF Next
<1>3. MergeInv => NothingLeftBehind
  BY DEF MergeInv, RulesMoved, DefaultsMoved, RowsMoved, NothingLeftBehind, Rules, Vendors
<1> QED BY <1>1, <1>2, <1>3, TypesHold, PTL DEF Spec

-------------------------------------------------------------------------------
(* CorrectionSticks: what was taught last is what the rules say.            *)

\* A rule that sets a category for a description, and the same for d.
IsLesson(q) == q.on = "description" /\ q.action = "set_category"
Teaches(q, d) == IsLesson(q) /\ q.value = d

\* The rules the household writes itself rank below what it teaches, and set no category
\* for a description.
RulesRankBelow == \A h \in HandRules : h.priority < 200 /\ ~IsLesson(h)

\* What was taught ranks above all other rules; there is one rule at most for a text; it
\* says what was taught last; what a correction has read of it is still true, or the lesson
\* is over; there is one correction at a time.
LessonsRank ==
  \A r \in Rules : IF IsLesson(rule[r]) THEN rule[r].priority = 200 ELSE rule[r].priority < 200
OneLesson ==
  \A r, s \in RuleIds, d \in Texts : Teaches(rule[r], d) /\ Teaches(rule[s], d) => r = s
LessonsHeld ==
  \A d \in Texts : lesson[d] # None =>
    /\ Exists(lesson[d])
    /\ \E r \in RuleIds : Teaches(rule[r], d) /\ rule[r].enabled /\ rule[r].ref = lesson[d]
AsRead(c, d) ==
  /\ \A r \in RuleIds : Teaches(rule[r], d) => r \in DOMAIN c.rules
  /\ \A r \in DOMAIN c.rules : /\ Teaches(c.rules[r], d)
                               /\ IsLesson(rule[r]) => Teaches(rule[r], d)
                               /\ rule[r] = c.rules[r] \/ lesson[d] = None
  /\ \A r, s \in DOMAIN c.rules : r = s
RulesRead ==
  \A t \in Callers, c \in Call, d \in Texts :
    c = call[t] /\ c.pc = "h_rule" /\ d = TextOf(c) => AsRead(c, d)
OneCorrection == \A t, u \in Callers : call[t].op = "correct" /\ call[u].op = "correct" => t = u

LessonInv == LessonsRank /\ OneLesson /\ LessonsHeld /\ RulesRead /\ OneCorrection

\* Above all rules there are, no rule is.
LEMMA NextRule ==
  ASSUME TypeOK, NEW r \in RuleIds, r = 1 + Max({0} \cup Rules)
  PROVE  rule[r] = NoRule
<1>1. MaxRule \in Nat /\ {0} \cup Rules \subseteq 0..MaxRule
  BY BoundsAssumption DEF Rules, ExistsRule, RuleIds
<1>2. PICK S \in SUBSET (0..MaxRule) : S = {0} \cup Rules BY <1>1
<1>3. PICK T : T = {MaxRule - x : x \in S} OBVIOUS
<1>4. T \in SUBSET Nat /\ T # {} BY <1>1, <1>2, <1>3
<1>5. PICK m \in T : \A k \in T : m <= k BY <1>4, LeastNumber
<1>6. PICK x \in S : m = MaxRule - x BY <1>3
<1>7. \A y \in S : y <= x
  <2> SUFFICES ASSUME NEW y \in S PROVE y <= x OBVIOUS
  <2>1. MaxRule - x <= MaxRule - y BY <1>3, <1>5, <1>6
  <2> QED BY <1>1, <1>2, <2>1
<1>8. \A y \in S : y <= Max(S) BY <1>7 DEF Max
<1>9. Max(S) \in S BY <1>7 DEF Max
<1>10. r \notin S BY <1>1, <1>2, <1>8, <1>9
<1> QED BY <1>2, <1>10 DEF Rules, ExistsRule

\* What was read stays true while the rules do and no lesson but None is new.
LEMMA ReadStays ==
  ASSUME RulesRead, rule' = rule, \A d \in Texts : lesson'[d] \in {lesson[d], None},
         \A t \in Callers : call'[t].pc = "h_rule" => call'[t] = call[t]
  PROVE  RulesRead'
<1>1. ASSUME NEW t \in Callers, NEW c \in Call, NEW d \in Texts, c = call'[t], c.pc = "h_rule", d = TextOf(c)
      PROVE  AsRead(c, d)'
  <2>1. AsRead(c, d) BY <1>1 DEF RulesRead
  <2> QED BY <2>1 DEF AsRead
<1> QED BY <1>1 DEF RulesRead, TextOf

\* The rules, the categories and what was taught stay; a call goes on, and not to h_rule.
LEMMA LessonsStay ==
  ASSUME TypeInv, LessonInv, rule' = rule, category' = category, lesson' = lesson,
         \A t \in Callers : call'[t].op = "correct" => call[t].op = "correct",
         \A t \in Callers : call'[t].pc = "h_rule" => call'[t] = call[t]
  PROVE  LessonInv'
<1> USE DEF LessonInv
<1>1. LessonsRank' BY DEF LessonsRank, Rules, ExistsRule
<1>2. OneLesson' BY DEF OneLesson
<1>3. LessonsHeld' BY DEF LessonsHeld, Exists
<1>4. RulesRead' BY ReadStays
<1>5. OneCorrection' BY DEF OneCorrection
<1> QED BY <1>1, <1>2, <1>3, <1>4, <1>5

\* Passes, and what comes before a correction looks for the rule.
LEMMA PassLessons ==
  ASSUME TypeInv, LessonInv, NEW t \in Callers,
         Recategorise(t) \/ Suggestions(t) \/ PassCommit(t) \/ PassDropped(t)
  PROVE  LessonInv'
<1>1. call'[t].pc \notin HandPcs /\ \A u \in Callers \ {t} : call'[u] = call[u] BY PassCalls
<1>2. call'[t].op # "correct"
  <2>1. TypeInv' BY PassTypes
  <2> QED BY <1>1, <2>1 DEF TypeInv, CallsFit, Fits
<1>3. UNCHANGED <<category, rule, lesson>>
  BY DEF Recategorise, PassRules, PassRows, PassApply, Suggestions, ApplyRead, PassCommit, PassDropped
<1> QED BY <1>1, <1>2, <1>3, LessonsStay DEF HandPcs

\* A correction that has not read the rule yet.
LEMMA HandLessons ==
  ASSUME TypeInv, LessonInv, CorrectsAndMergesApart, NEW t \in Callers, Correct(t), ~HandLook(t), ~HandRule(t)
  PROVE  LessonInv'
<1>t. call[t] \in Call /\ Fits(call[t]) BY DEF TypeInv, TypeOK, CallsFit
<1>1. ASSUME NEW S \in SUBSET Txns, NEW i \in {None} \cup CatIds, NEW v \in BOOLEAN, NEW r \in BOOLEAN,
             HandLoad(t, S, i, v, r)
      PROVE  LessonInv'
  <2>1. call'[t].pc # "h_rule" /\ \A u \in Callers \ {t} : call'[u] = call[u]
    BY <1>1 DEF HandLoad, Idle, TypeInv, TypeOK
  <2>2. \A u \in Callers : call[u].op # "correct"
    <3>1. PICK A \in Apart : {"correct", "merge"} \subseteq A BY DEF CorrectsAndMergesApart
    <3> QED BY <1>1, <3>1 DEF HandLoad, Free
  <2>3. OneCorrection' BY <2>1, <2>2 DEF OneCorrection
  <2>4. UNCHANGED <<rule, category, lesson>> BY <1>1 DEF HandLoad
  <2>5. RulesRead' BY <2>1, <2>4, ReadStays DEF LessonInv
  <2> QED BY <2>3, <2>4, <2>5 DEF LessonInv, LessonsRank, Rules, ExistsRule, OneLesson, LessonsHeld, Exists
<1>2. ASSUME HandVendor(t) PROVE LessonInv'
  <2>1. call'[t] = Idle \/ call'[t] = [call[t] EXCEPT !.pc = "h_look", !.new = <<>>]
    BY <1>2 DEF HandVendor, TypeInv, TypeOK
  <2>2. call'[t].pc # "h_rule" /\ call[t].op = "correct"
    <3>1. CASE call'[t] = Idle BY <1>2, <1>t, <3>1 DEF Idle, HandVendor, Fits, HandPcs
    <3>2. CASE call'[t] = [call[t] EXCEPT !.pc = "h_look", !.new = <<>>]
      <4>1. call'[t].pc = "h_look" BY <1>t, <3>2 DEF Call
      <4> QED BY <1>2, <1>t, <4>1 DEF HandVendor, Fits, HandPcs
    <3> QED BY <2>1, <3>1, <3>2
  <2>3. \A u \in Callers \ {t} : call'[u] = call[u] BY <1>2 DEF HandVendor, TypeInv, TypeOK
  <2> QED BY <1>2, <2>2, <2>3, LessonsStay DEF HandVendor
<1>3. ASSUME HandCommit(t) \/ HandDropped(t) PROVE LessonInv'
  <2>1. call'[t] = Idle /\ \A u \in Callers \ {t} : call'[u] = call[u]
    BY <1>3 DEF HandCommit, HandDropped, End, TypeInv, TypeOK
  <2> QED BY <1>3, <2>1, LessonsStay DEF HandCommit, HandDropped, Idle
<1> QED BY <1>1, <1>2, <1>3 DEF Correct

\* A correction reads the rules for its text.
LEMMA LookLessons ==
  ASSUME TypeInv, LessonInv, NEW t \in Callers, HandLook(t)
  PROVE  LessonInv'
<1>t. call[t] \in Call /\ Fits(call[t]) BY DEF TypeInv, TypeOK, CallsFit
<1>1. PICK d \in Texts : d = TextOf(call[t])
  <2>1. DOMAIN call[t].read # {} BY <1>t DEF HandLook, Fits, HandPcs
  <2> QED BY <1>t, <2>1, TextTypes
<1>2. PICK D : D = {s \in Rules : /\ rule[s].on = "description"
                                  /\ rule[s].value = d
                                  /\ rule[s].action = "set_category"}
  OBVIOUS
<1>3. PICK rules : rules = [r \in D |-> rule[r]] OBVIOUS
<1>4. PICK c : c = [call[t] EXCEPT !.pc = "h_rule", !.rules = rules] OBVIOUS
<1>5. call'[t] = c /\ \A u \in Callers \ {t} : call'[u] = call[u]
  BY <1>1, <1>2, <1>3, <1>4 DEF HandLook, TypeInv, TypeOK
<1>6. c.pc = "h_rule" /\ c.rules = rules /\ c.read = call[t].read /\ c.op = call[t].op
  BY <1>t, <1>4 DEF Call
<1>7. UNCHANGED <<rule, category, lesson>> BY DEF HandLook
<1>8. \A r \in RuleIds : Teaches(rule[r], d) <=> r \in D
  BY <1>2 DEF Teaches, IsLesson, Rules, ExistsRule, NoRule
<1>9. AsRead(c, d)
  <2>1. \A r \in D : rule[r] = rules[r] /\ r \in RuleIds BY <1>2, <1>3 DEF Rules
  <2>2. DOMAIN c.rules = D BY <1>3, <1>6
  <2> QED BY <1>6, <1>8, <2>1, <2>2 DEF AsRead, LessonInv, OneLesson
<1>10. TextOf(c) = d BY <1>1, <1>6 DEF TextOf
<1>11. RulesRead'
  <2>1. ASSUME NEW u \in Callers, NEW b \in Call, NEW e \in Texts, b = call'[u], b.pc = "h_rule", e = TextOf(b)
        PROVE  AsRead(b, e)'
    <3>1. AsRead(b, e)
      <4>1. CASE u = t BY <1>5, <1>9, <1>10, <2>1, <4>1
      <4>2. CASE u # t BY <1>5, <2>1, <4>2 DEF LessonInv, RulesRead
      <4> QED BY <4>1, <4>2
    <3> QED BY <1>7, <3>1 DEF AsRead
  <2> QED BY <1>7, <2>1 DEF RulesRead, TextOf
<1>12. OneCorrection' BY <1>5, <1>6 DEF LessonInv, OneCorrection
<1> QED BY <1>7, <1>11, <1>12 DEF LessonInv, LessonsRank, Rules, ExistsRule, OneLesson, LessonsHeld, Exists

\* A correction writes the rule.
LEMMA TaughtLessons ==
  ASSUME TypeInv, LessonInv, NEW t \in Callers, HandRule(t)
  PROVE  LessonInv'
<1>t. TypeOK /\ call[t] \in Call /\ Fits(call[t]) BY DEF TypeInv, TypeOK, CallsFit
<1>0. PICK c \in Call : c = call[t] BY <1>t
<1>1. PICK d \in Texts : d = TextOf(c)
  <2>1. DOMAIN call[t].read # {} BY <1>t DEF HandRule, Fits, HandPcs
  <2> QED BY <1>0, <2>1, TextTypes
<1>2. c.pc = "h_rule" /\ c.category \in CatIds BY <1>0, <1>t DEF HandRule, Fits
<1>3. AsRead(c, d) BY <1>0, <1>1, <1>2 DEF LessonInv, RulesRead
<1>4. PICK r \in RuleIds : r = Taking(c) BY <1>0 DEF HandRule
<1>5. r \in DOMAIN c.rules \/ (DOMAIN c.rules = {} /\ r = 1 + Max({0} \cup Rules))
  <2>1. DOMAIN c.rules \in SUBSET Nat BY DEF Call, Partial, RuleIds
  <2>2. PICK same : same = {s \in DOMAIN c.rules : c.rules[s].ref = c.category} OBVIOUS
  <2>3. r = IF same # {} THEN Min(same) ELSE IF DOMAIN c.rules # {} THEN Min(DOMAIN c.rules)
            ELSE 1 + Max({0} \cup Rules)
    BY <1>4, <2>2 DEF Taking
  <2> QED BY <2>1, <2>2, <2>3, MinMember
<1>6. PICK new : new = Taught(c, r) OBVIOUS
<1>7. PICK said : said = IF Exists(c.category) THEN c.category ELSE None OBVIOUS
<1>8. /\ rule' = IF r \in DOMAIN c.rules /\ ~ExistsRule(r) THEN rule ELSE [rule EXCEPT ![r] = new]
      /\ lesson' = IF r \in DOMAIN c.rules => c.rules[r] = rule[r] THEN [lesson EXCEPT ![d] = said] ELSE lesson
      /\ category' = category
  BY <1>0, <1>1, <1>4, <1>6, <1>7 DEF HandRule
<1>9. call'[t] = Idle /\ \A u \in Callers \ {t} : call'[u] = call[u] BY <1>t DEF HandRule, End, TypeOK
<1>10. \A u \in Callers : call'[u].pc # "h_rule"
  <2>1. call[t].op = "correct" BY <1>0, <1>2, <1>t DEF Fits, HandPcs
  <2>2. \A u \in Callers \ {t} : call[u].op # "correct" BY <2>1 DEF LessonInv, OneCorrection
  <2>3. \A u \in Callers \ {t} : call[u].pc # "h_rule" BY <2>2 DEF TypeInv, CallsFit, Fits, HandPcs
  <2> QED BY <1>9, <2>3 DEF Idle
<1>11. RulesRead' BY <1>10 DEF RulesRead
<1>12. OneCorrection' BY <1>9 DEF LessonInv, OneCorrection, Idle
<1>13. ASSUME r \in DOMAIN c.rules, ~ExistsRule(r) PROVE LessonInv'
  <2>1. rule[r] # c.rules[r] BY <1>3, <1>13 DEF AsRead, Teaches, IsLesson, ExistsRule, NoRule
  <2>2. rule' = rule /\ lesson' = lesson BY <1>8, <1>13, <2>1
  <2> QED BY <1>8, <1>11, <1>12, <2>2 DEF LessonInv, LessonsRank, Rules, ExistsRule, OneLesson, LessonsHeld, Exists
<1>14. ASSUME r \notin DOMAIN c.rules \/ ExistsRule(r) PROVE LessonInv'
  <2>1. rule' = [rule EXCEPT ![r] = new] BY <1>8, <1>14
  <2>2. rule'[r] = new /\ \A s \in RuleIds \ {r} : rule'[s] = rule[s] BY <1>t, <2>1 DEF TypeOK
  <2>3. CASE r \notin DOMAIN c.rules
    <3>1. DOMAIN c.rules = {} /\ rule[r] = NoRule BY <1>5, <1>t, <2>3, NextRule
    <3>2. new = Lesson(d, c.category) BY <1>1, <1>6, <2>3 DEF Taught
    <3>3. /\ Teaches(new, d) /\ new.priority = 200 /\ new.enabled /\ new.ref = c.category
          /\ \A e : Teaches(new, e) => e = d
      BY <3>2 DEF Teaches, IsLesson, Lesson
    <3>4. \A s \in RuleIds : ~Teaches(rule[s], d) BY <1>3, <3>1 DEF AsRead
    <3>5. LessonsRank' BY <2>2, <3>3 DEF LessonInv, LessonsRank, Rules, ExistsRule, Teaches
    <3>6. OneLesson' BY <2>2, <3>3, <3>4 DEF LessonInv, OneLesson
    <3>7. LessonsHeld'
      <4>1. lesson' = [lesson EXCEPT ![d] = said] BY <1>8, <2>3
      <4>2. ASSUME NEW e \in Texts, lesson'[e] # None
            PROVE  /\ Exists(lesson'[e])
                   /\ \E s \in RuleIds : Teaches(rule'[s], e) /\ rule'[s].enabled /\ rule'[s].ref = lesson'[e]
        <5>1. CASE e = d BY <1>7, <1>t, <2>2, <3>3, <4>1, <4>2, <5>1 DEF TypeOK
        <5>2. CASE e # d
          <6>1. lesson[e] # None /\ lesson'[e] = lesson[e] BY <1>t, <4>1, <4>2, <5>2 DEF TypeOK
          <6>2. PICK s \in RuleIds : Teaches(rule[s], e) /\ rule[s].enabled /\ rule[s].ref = lesson[e]
            BY <6>1 DEF LessonInv, LessonsHeld
          <6>3. s # r BY <3>1, <6>2 DEF Teaches, IsLesson, NoRule
          <6> QED BY <2>2, <6>1, <6>2, <6>3 DEF LessonInv, LessonsHeld
        <5> QED BY <5>1, <5>2
      <4> QED BY <1>8, <4>2 DEF LessonsHeld, Exists
    <3> QED BY <1>11, <1>12, <3>5, <3>6, <3>7 DEF LessonInv
  <2>4. CASE r \in DOMAIN c.rules
    <3>1. rule[r] \in Rule BY <1>14, <1>t, <2>4 DEF ExistsRule, TypeOK
    <3>2. c.rules[r] \in Rule BY <2>4 DEF Call, Partial
    <3>3. /\ new.on = rule[r].on /\ new.value = rule[r].value /\ new.action = rule[r].action
          /\ new.priority = rule[r].priority
          /\ new.ref = IF c.rules[r].ref = c.category THEN rule[r].ref ELSE c.category
          /\ new.enabled = (rule[r].enabled \/ ~c.rules[r].enabled)
      BY <1>6, <2>4, <3>1 DEF Taught, Rule
    <3>4. \A e : Teaches(new, e) <=> Teaches(rule[r], e) BY <3>3 DEF Teaches, IsLesson
    <3>5. LessonsRank' BY <1>14, <2>2, <2>4, <3>3 DEF LessonInv, LessonsRank, Rules, ExistsRule, IsLesson
    <3>6. OneLesson' BY <2>2, <3>4 DEF LessonInv, OneLesson
    <3>7. ASSUME NEW e \in Texts, lesson'[e] # None
          PROVE  /\ Exists(lesson'[e])
                 /\ \E s \in RuleIds : Teaches(rule'[s], e) /\ rule'[s].enabled /\ rule'[s].ref = lesson'[e]
      <4>1. CASE e = d
        <5>1. CASE c.rules[r] = rule[r]
          <6>1. lesson'[d] = said BY <1>8, <1>t, <5>1 DEF TypeOK
          <6>2. new.ref = c.category /\ new.enabled /\ Teaches(new, d)
            BY <1>3, <2>4, <3>2, <3>3, <3>4, <5>1 DEF AsRead, Rule
          <6> QED BY <1>7, <2>2, <3>7, <4>1, <6>1, <6>2
        <5>2. CASE c.rules[r] # rule[r]
          <6>1. lesson[d] = None /\ lesson' = lesson BY <1>3, <1>8, <2>4, <5>2 DEF AsRead
          <6> QED BY <3>7, <4>1, <6>1
        <5> QED BY <5>1, <5>2
      <4>2. CASE e # d
        <5>1. lesson[e] # None /\ lesson'[e] = lesson[e] BY <1>8, <1>t, <3>7, <4>2 DEF TypeOK
        <5>2. PICK s \in RuleIds : Teaches(rule[s], e) /\ rule[s].enabled /\ rule[s].ref = lesson[e]
          BY <5>1 DEF LessonInv, LessonsHeld
        <5>3. s # r BY <1>3, <2>4, <4>2, <5>2 DEF AsRead, Teaches
        <5> QED BY <2>2, <5>1, <5>2, <5>3 DEF LessonInv, LessonsHeld
      <4> QED BY <4>1, <4>2
    <3>8. LessonsHeld' BY <1>8, <3>7 DEF LessonsHeld, Exists
    <3> QED BY <1>11, <1>12, <3>5, <3>6, <3>8 DEF LessonInv
  <2> QED BY <2>3, <2>4
<1> QED BY <1>13, <1>14

\* Rules by hand.
LEMMA RuleLessons ==
  ASSUME TypeInv, LessonInv, RulesRankBelow
  PROVE  /\ \A h \in HandRules : CreateRule(h) => LessonInv'
         /\ \A r \in RuleIds : UpdateRule(r) \/ DeleteRule(r) => LessonInv'
<1>t. TypeOK BY DEF TypeInv
<1>g. ASSUME NEW r \in RuleIds, NEW new, rule' = [rule EXCEPT ![r] = new],
             new = NoRule \/ IF IsLesson(new) THEN new.priority = 200 ELSE new.priority < 200,
             \A d : Teaches(new, d) => Teaches(rule[r], d),
             \A d \in Texts : lesson'[d] # None => lesson'[d] = lesson[d] /\ ~Teaches(rule[r], d),
             rule[r] = NoRule \/ IsLesson(rule[r]) \/ ~IsLesson(new),
             UNCHANGED <<category, call>>
      PROVE  LessonInv'
  <2>1. rule'[r] = new /\ \A s \in RuleIds \ {r} : rule'[s] = rule[s] BY <1>g, <1>t DEF TypeOK
  <2>2. LessonsRank' BY <1>g, <2>1 DEF LessonInv, LessonsRank, Rules, ExistsRule
  <2>3. OneLesson' BY <1>g, <2>1 DEF LessonInv, OneLesson
  <2>4. LessonsHeld'
    <3>1. ASSUME NEW d \in Texts, lesson'[d] # None
          PROVE  /\ Exists(lesson'[d])
                 /\ \E s \in RuleIds : Teaches(rule'[s], d) /\ rule'[s].enabled /\ rule'[s].ref = lesson'[d]
      <4>1. lesson'[d] = lesson[d] /\ ~Teaches(rule[r], d) BY <1>g, <3>1
      <4>2. PICK s \in RuleIds : Teaches(rule[s], d) /\ rule[s].enabled /\ rule[s].ref = lesson[d]
        BY <3>1, <4>1 DEF LessonInv, LessonsHeld
      <4>3. s # r BY <4>1, <4>2
      <4> QED BY <2>1, <3>1, <4>1, <4>2, <4>3 DEF LessonInv, LessonsHeld
    <3> QED BY <1>g, <3>1 DEF LessonsHeld, Exists
  <2>5. RulesRead'
    <3>1. ASSUME NEW t \in Callers, NEW c \in Call, NEW d \in Texts, c = call[t], c.pc = "h_rule", d = TextOf(c)
          PROVE  AsRead(c, d)'
      <4>1. AsRead(c, d) BY <3>1 DEF LessonInv, RulesRead
      <4>2. \A s \in RuleIds : Teaches(rule'[s], d) => s \in DOMAIN c.rules BY <1>g, <2>1, <4>1 DEF AsRead
      <4>3. ASSUME NEW s \in DOMAIN c.rules
            PROVE  (IsLesson(rule'[s]) => Teaches(rule'[s], d)) /\ (rule'[s] = c.rules[s] \/ lesson'[d] = None)
        <5>1. s \in RuleIds BY DEF Call, Partial
        <5>2. CASE s # r BY <1>g, <2>1, <4>1, <5>1, <5>2 DEF AsRead
        <5>3. CASE s = r
          <6>1. IsLesson(rule'[s]) => Teaches(rule'[s], d)
            BY <1>g, <2>1, <4>1, <5>3 DEF AsRead, Teaches
          <6>2. rule[s] # c.rules[s] \/ Teaches(rule[s], d) BY <4>1 DEF AsRead
          <6>3. lesson'[d] = None BY <1>g, <4>1, <5>3, <6>2 DEF AsRead
          <6> QED BY <6>1, <6>3
        <5> QED BY <5>2, <5>3
      <4> QED BY <4>1, <4>2, <4>3 DEF AsRead
    <3> QED BY <1>g, <3>1 DEF RulesRead, TextOf
  <2>6. OneCorrection' BY <1>g DEF LessonInv, OneCorrection
  <2> QED BY <2>2, <2>3, <2>4, <2>5, <2>6 DEF LessonInv
<1>1. ASSUME NEW h \in HandRules, CreateRule(h) PROVE LessonInv'
  <2>1. PICK next \in RuleIds : next = 1 + Max({0} \cup Rules) /\ rule' = [rule EXCEPT ![next] = h]
    BY <1>1 DEF CreateRule
  <2>2. rule[next] = NoRule BY <1>t, <2>1, NextRule
  <2>3. h.priority < 200 /\ ~IsLesson(h) BY DEF RulesRankBelow
  <2>4. lesson' = lesson BY <1>1, <2>3 DEF CreateRule, Forgotten, IsLesson
  <2>5. \A d : ~Teaches(rule[next], d) /\ ~Teaches(h, d) BY <2>2, <2>3 DEF Teaches, IsLesson, NoRule
  <2> QED BY <1>1, <1>g, <2>1, <2>2, <2>3, <2>4, <2>5 DEF CreateRule
<1>2. ASSUME NEW r \in RuleIds, ExistsRule(r), lesson' = Forgotten(rule[r]), NEW d \in Texts, lesson'[d] # None
      PROVE  lesson'[d] = lesson[d] /\ ~Teaches(rule[r], d)
  <2>1. CASE IsLesson(rule[r])
    <3>1. lesson' = [lesson EXCEPT ![rule[r].value] = None] BY <1>2, <2>1 DEF Forgotten, IsLesson
    <3> QED BY <1>2, <1>t, <3>1 DEF Teaches, TypeOK
  <2>2. CASE ~IsLesson(rule[r])
    <3>1. lesson' = lesson BY <1>2, <2>2 DEF Forgotten, IsLesson
    <3> QED BY <2>2, <3>1 DEF Teaches
  <2> QED BY <2>1, <2>2
<1>3. ASSUME NEW r \in RuleIds, UpdateRule(r) PROVE LessonInv'
  <2>1. rule[r] \in Rule /\ ExistsRule(r) BY <1>3, <1>t DEF UpdateRule, ExistsRule, TypeOK
  <2>2. PICK new : new = [rule[r] EXCEPT !.enabled = ~@] OBVIOUS
  <2>3. /\ new.action = rule[r].action /\ new.on = rule[r].on /\ new.value = rule[r].value
        /\ new.priority = rule[r].priority
    BY <2>1, <2>2 DEF Rule
  <2>4. rule' = [rule EXCEPT ![r] = new] BY <1>3, <1>t, <2>2 DEF UpdateRule, TypeOK
  <2>5. IF IsLesson(new) THEN new.priority = 200 ELSE new.priority < 200
    BY <2>1, <2>3 DEF LessonInv, LessonsRank, Rules, IsLesson
  <2>6. \A d : Teaches(new, d) => Teaches(rule[r], d) BY <2>3 DEF Teaches, IsLesson
  <2>7. IsLesson(rule[r]) \/ ~IsLesson(new) BY <2>3 DEF IsLesson
  <2>8. \A d \in Texts : lesson'[d] # None => lesson'[d] = lesson[d] /\ ~Teaches(rule[r], d)
    BY <1>2, <1>3, <2>1 DEF UpdateRule
  <2>9. UNCHANGED <<category, call>> BY <1>3 DEF UpdateRule
  <2> QED BY <1>g, <2>4, <2>5, <2>6, <2>7, <2>8, <2>9
<1>4. ASSUME NEW r \in RuleIds, DeleteRule(r) PROVE LessonInv'
  <2>1. \A d : ~Teaches(NoRule, d) /\ ~IsLesson(NoRule) BY DEF Teaches, IsLesson, NoRule
  <2> QED BY <1>2, <1>4, <1>g, <2>1 DEF DeleteRule
<1> QED BY <1>1, <1>3, <1>4

\* Categories by hand.
LEMMA CategoryLessons ==
  ASSUME TypeInv, LessonInv, CorrectsAndMergesApart
  PROVE  /\ \A n \in Names : CreateCategory(n) => LessonInv'
         /\ \A i \in CatIds : DeleteCategory(i) => LessonInv'
         /\ \A i, j \in CatIds : MergeCategory(i, j) => LessonInv'
<1> USE DEF LessonInv
<1>t. TypeOK BY DEF TypeInv
<1>1. ASSUME NEW n \in Names, CreateCategory(n) PROVE LessonInv'
  <2>1. PICK next \in CatIds : category' = [category EXCEPT ![next] = n] BY <1>1 DEF CreateCategory
  <2>2. \A i : Exists(i) => Exists(i)' BY <1>t, <2>1, TextsAssumption DEF Exists, TypeOK
  <2>3. UNCHANGED <<rule, call, lesson>> BY <1>1 DEF CreateCategory
  <2>4. LessonsHeld' BY <2>2, <2>3 DEF LessonsHeld
  <2>5. RulesRead' BY <2>3, ReadStays
  <2> QED BY <2>3, <2>4, <2>5 DEF LessonsRank, Rules, ExistsRule, OneLesson, OneCorrection
<1>2. ASSUME NEW i \in CatIds, DeleteCategory(i) PROVE LessonInv'
  <2>1. category' = [category EXCEPT ![i] = NoName] /\ UNCHANGED <<rule, call>> BY <1>2 DEF DeleteCategory
  <2>2. \A d \in Texts : lesson'[d] = None \/ (lesson'[d] = lesson[d] /\ lesson[d] # i)
    BY <1>2 DEF DeleteCategory
  <2>3. LessonsHeld' BY <1>t, <2>1, <2>2 DEF LessonsHeld, Exists, TypeOK
  <2>4. RulesRead' BY <2>1, <2>2, ReadStays
  <2> QED BY <2>1, <2>3, <2>4 DEF LessonsRank, Rules, ExistsRule, OneLesson, OneCorrection
<1>3. ASSUME NEW i \in CatIds, NEW j \in CatIds, MergeCategory(i, j) PROVE LessonInv'
  <2>1. \A t \in Callers : call[t].op # "correct"
    <3>1. PICK A \in Apart : {"correct", "merge"} \subseteq A BY DEF CorrectsAndMergesApart
    <3> QED BY <1>3, <3>1 DEF MergeCategory, Quiet
  <2>2. call' = call /\ category' = [category EXCEPT ![i] = NoName] /\ i # j /\ Exists(j)
    BY <1>3 DEF MergeCategory
  <2>3. RulesRead'
    <3>1. \A t \in Callers : call[t].pc # "h_rule" BY <2>1 DEF TypeInv, CallsFit, Fits, HandPcs
    <3> QED BY <2>2, <3>1 DEF RulesRead
  <2>4. ASSUME NEW r \in RuleIds
        PROVE  /\ rule'[r] = NoRule <=> rule[r] = NoRule
               /\ IsLesson(rule'[r]) <=> IsLesson(rule[r])
               /\ \A d : Teaches(rule'[r], d) <=> Teaches(rule[r], d)
               /\ rule'[r].priority = rule[r].priority /\ rule'[r].enabled = rule[r].enabled
               /\ IsLesson(rule[r]) => rule'[r].ref = IF rule[r].ref = i THEN j ELSE rule[r].ref
    <3>1. rule'[r] = Repointed(r, i, j) BY <1>3 DEF MergeCategory
    <3>2. CASE rule[r] \in Rule
      <4>1. /\ rule'[r].on = rule[r].on /\ rule'[r].action = rule[r].action
            /\ rule'[r].priority = rule[r].priority /\ rule'[r].enabled = rule[r].enabled
            /\ rule[r].on # "category" => rule'[r].value = rule[r].value
            /\ rule[r].action = "set_category" => rule'[r].ref = IF rule[r].ref = i THEN j ELSE rule[r].ref
        BY <3>1, <3>2 DEF Repointed, Rule
      <4>2. rule[r] # NoRule /\ rule'[r] # NoRule BY <3>2, <4>1 DEF Rule, NoRule
      <4> QED BY <4>1, <4>2 DEF IsLesson, Teaches
    <3>3. CASE rule[r] = NoRule
      <4>1. Repointed(r, i, j) = [NoRule EXCEPT !.ref = @, !.value = @] BY <3>3 DEF Repointed, NoRule
      <4>2. rule'[r] = NoRule BY <3>1, <4>1, NoRuleStays
      <4> QED BY <3>3, <4>2 DEF IsLesson, Teaches, NoRule
    <3> QED BY <1>t, <3>2, <3>3 DEF TypeOK
  <2>5. LessonsRank' BY <2>4 DEF LessonsRank, Rules, ExistsRule
  <2>6. OneLesson' BY <2>4 DEF OneLesson
  <2>7. LessonsHeld'
    <3>1. ASSUME NEW d \in Texts, lesson'[d] # None
          PROVE  /\ lesson'[d] \in CatIds /\ category'[lesson'[d]] # NoName
                 /\ \E r \in RuleIds : Teaches(rule'[r], d) /\ rule'[r].enabled /\ rule'[r].ref = lesson'[d]
      <4>1. lesson'[d] = IF lesson[d] = i THEN j ELSE lesson[d] BY <1>3 DEF MergeCategory
      <4>2. lesson[d] # None
        <5>1. None \notin CatIds BY BoundsAssumption DEF None, CatIds
        <5> QED BY <3>1, <4>1, <5>1
      <4>3. PICK r \in RuleIds : Teaches(rule[r], d) /\ rule[r].enabled /\ rule[r].ref = lesson[d]
        BY <4>2 DEF LessonsHeld
      <4>4. Teaches(rule'[r], d) /\ rule'[r].enabled /\ rule'[r].ref = lesson'[d]
        BY <2>4, <4>1, <4>3 DEF Teaches
      <4>5. lesson'[d] \in CatIds /\ category'[lesson'[d]] # NoName
        BY <1>t, <2>2, <4>1, <4>2 DEF LessonsHeld, Exists, TypeOK
      <4> QED BY <4>4, <4>5
    <3> QED BY <3>1 DEF LessonsHeld, Exists
  <2>8. OneCorrection' BY <2>2 DEF OneCorrection
  <2> QED BY <2>3, <2>5, <2>6, <2>7, <2>8
<1> QED BY <1>1, <1>2, <1>3

\* Merging vendors leaves the rules for texts as they are.
LEMMA VendorLessons ==
  ASSUME TypeInv, LessonInv, NEW v \in VendorIds, NEW w \in VendorIds, MergeVendor(v, w)
  PROVE  LessonInv'
<1> USE DEF LessonInv
<1>t. TypeOK BY DEF TypeInv
<1>1. UNCHANGED <<category, call, lesson>> BY DEF MergeVendor
<1>2. ASSUME NEW r \in RuleIds
      PROVE  /\ rule'[r] = NoRule <=> rule[r] = NoRule
             /\ rule'[r] = rule[r] \/ (~IsLesson(rule[r]) /\ ~IsLesson(rule'[r]))
             /\ rule'[r].priority = rule[r].priority
  <2>1. rule'[r] = [rule[r] EXCEPT !.ref = IF rule[r].action = "set_vendor" /\ @ = v THEN w ELSE @,
                                   !.value = IF rule[r].on = "vendor" /\ @ = v THEN w ELSE @]
    BY DEF MergeVendor
  <2>2. CASE rule[r] \in Rule
    <3>1. rule'[r].on = rule[r].on /\ rule'[r].action = rule[r].action /\ rule'[r].priority = rule[r].priority
      BY <2>1, <2>2 DEF Rule
    <3>2. rule[r] # NoRule /\ rule'[r] # NoRule BY <2>2, <3>1 DEF Rule, NoRule
    <3>3. IsLesson(rule[r]) => rule'[r] = rule[r]
      <4>1. [rule[r] EXCEPT !.ref = @, !.value = @] = rule[r] BY <2>2 DEF Rule
      <4> QED BY <2>1, <4>1 DEF IsLesson
    <3> QED BY <3>1, <3>2, <3>3 DEF IsLesson
  <2>3. CASE rule[r] = NoRule
    <3>1. rule'[r] = [NoRule EXCEPT !.ref = @, !.value = @] BY <2>1, <2>3 DEF NoRule
    <3>2. rule'[r] = NoRule BY <3>1, NoRuleStays
    <3> QED BY <2>3, <3>2
  <2> QED BY <1>t, <2>2, <2>3 DEF TypeOK
<1>3. LessonsRank' BY <1>2 DEF LessonsRank, Rules, ExistsRule
<1>4. OneLesson' BY <1>2 DEF OneLesson, Teaches
<1>5. LessonsHeld' BY <1>1, <1>2 DEF LessonsHeld, Exists, Teaches
<1>6. RulesRead'
  <2>1. ASSUME NEW t \in Callers, NEW c \in Call, NEW d \in Texts, c = call[t], c.pc = "h_rule", d = TextOf(c)
        PROVE  AsRead(c, d)'
    <3>1. DOMAIN c.rules \subseteq RuleIds BY DEF Call, Partial
    <3>2. AsRead(c, d) BY <2>1 DEF RulesRead
    <3> QED BY <1>1, <1>2, <3>1, <3>2 DEF AsRead, Teaches
  <2> QED BY <1>1, <2>1 DEF RulesRead, TextOf
<1>7. OneCorrection' BY <1>1 DEF OneCorrection
<1> QED BY <1>3, <1>4, <1>5, <1>6, <1>7

\* The rules say what was taught last.
LEMMA RulesSay ==
  ASSUME TypeInv, LessonInv, NEW d \in Texts, NEW x \in Txns, lesson[d] # None, Desc[x] = d
  PROVE  ApplyRules(Snapshot.rules, x, Fresh, FALSE).category = lesson[d]
<1> USE DEF LessonInv
<1>1. PICK r \in RuleIds : Teaches(rule[r], d) /\ rule[r].enabled /\ rule[r].ref = lesson[d]
  BY DEF LessonsHeld
<1>2. PICK rules : rules = [s \in {s \in Rules : rule[s].enabled} |-> rule[s]] OBVIOUS
<1>3. Snapshot.rules = rules BY <1>2 DEF Snapshot
<1>4. DOMAIN rules = {s \in Rules : rule[s].enabled} /\ \A s \in DOMAIN rules : rules[s] = rule[s] /\ rule[s] \in Rule
  BY <1>2 DEF Rules, ExistsRule, TypeInv, TypeOK
<1>5. r \in DOMAIN rules /\ r \in Rules BY <1>1, <1>4 DEF Rules, ExistsRule, Teaches, IsLesson, NoRule
<1>6. Matches(rules[r], x, Fresh) /\ Applies(rules[r], Fresh, FALSE)
  BY <1>1, <1>4, <1>5 DEF Matches, Applies, Teaches, IsLesson, Fresh, None, MANUAL_CONFIDENCE, LessonsHeld
<1>7. ASSUME NEW s \in DOMAIN rules, s # r, Matches(rules[s], x, Fresh)
      PROVE  Before(rules, r, s) /\ ~Before(rules, s, r)
  <2>1. rules[s].on = "description" /\ rules[s].value = d BY <1>7 DEF Matches, Fresh
  <2>2. ~IsLesson(rule[s]) BY <1>1, <1>4, <1>7, <2>1 DEF OneLesson, Teaches, Rules
  <2>3. rule[r].priority = 200 /\ rule[s].priority < 200 /\ rule[s].priority \in Nat
    BY <1>1, <1>4, <1>5, <2>2 DEF LessonsRank, Teaches, Rule
  <2> QED BY <1>4, <1>5, <2>3 DEF Before
<1>8. PICK one : one = FirstToApply(rules, DOMAIN rules, x, Fresh, FALSE) OBVIOUS
<1>9. one = {r} BY <1>1, <1>4, <1>5, <1>6, <1>7, <1>8 DEF FirstToApply
<1>10. PICK now : now = RowAfter(rules, one, Fresh) OBVIOUS
<1>11. now = [Fresh EXCEPT !.category = lesson[d], !.confidence = RULE_CONFIDENCE]
  BY <1>1, <1>4, <1>5, <1>9, <1>10 DEF RowAfter, Applied, Teaches, IsLesson
<1>12. PICK R : R = {s \in DOMAIN rules : \A q \in one : /\ Before(rules, q, s)
                                                        /\ rules[s].action # rules[q].action}
  OBVIOUS
<1>13. \A s \in R : s \in DOMAIN rules /\ rules[s].action = "set_vendor"
  BY <1>1, <1>4, <1>5, <1>9, <1>12 DEF Rule, Teaches, IsLesson
<1>14. ApplyRules(rules, x, Fresh, FALSE) = RowAfter(rules, FirstToApply(rules, R, x, now, FALSE), now)
  BY <1>8, <1>9, <1>10, <1>12 DEF ApplyRules
<1>15. RowAfter(rules, FirstToApply(rules, R, x, now, FALSE), now).category = lesson[d]
  <2>1. now.category = lesson[d] BY <1>11 DEF Fresh
  <2>2. CASE FirstToApply(rules, R, x, now, FALSE) = {} BY <2>1, <2>2 DEF RowAfter
  <2>3. CASE FirstToApply(rules, R, x, now, FALSE) # {}
    <3>1. PICK s : s = CHOOSE q \in FirstToApply(rules, R, x, now, FALSE) : TRUE OBVIOUS
    <3>2. s \in R BY <2>3, <3>1 DEF FirstToApply
    <3>3. Applied(rules[s], now) = [now EXCEPT !.vendor = rules[s].ref] BY <1>13, <3>2 DEF Applied
    <3>4. [now EXCEPT !.vendor = rules[s].ref].category = now.category BY <1>11 DEF Fresh
    <3> QED BY <2>1, <2>3, <3>1, <3>3, <3>4 DEF RowAfter
  <2> QED BY <2>2, <2>3
<1> QED BY <1>3, <1>14, <1>15

\* What the household has taught last for a description is what the rules say, for any
\* number of lessons, merges, deletions and rules turned off and on, if corrections are
\* made one at a time and not during a merge, and the household's own rules rank below
\* them and are about something else (create_rule_from_correction, apply_rules).
THEOREM LessonTheorem ==
  CorrectsAndMergesApart /\ RulesRankBelow => (Spec => []CorrectionSticks)
<1> SUFFICES ASSUME CorrectsAndMergesApart, RulesRankBelow PROVE Spec => []CorrectionSticks OBVIOUS
<1>1. Init => LessonInv
  <2> SUFFICES ASSUME Init PROVE LessonInv OBVIOUS
  <2>1. \A t \in Callers : call[t].pc # "h_rule" /\ call[t].op # "correct" BY DEF Init, Idle
  <2>2. \A r \in RuleIds : rule[r] = NoRule BY DEF Init
  <2>3. \A d : ~Teaches(NoRule, d) BY DEF Teaches, IsLesson, NoRule
  <2>4. LessonsHeld BY DEF Init, LessonsHeld
  <2> QED BY <2>1, <2>2, <2>3, <2>4 DEF LessonInv, LessonsRank, Rules, ExistsRule, OneLesson, RulesRead, OneCorrection
<1>2. TypeInv /\ LessonInv /\ [Next]_vars => LessonInv'
  <2> SUFFICES ASSUME TypeInv, LessonInv, [Next]_vars PROVE LessonInv' OBVIOUS
  <2>1. CASE UNCHANGED vars BY <2>1, LessonsStay DEF vars
  <2>2. ASSUME NEW t \in Callers, Recategorise(t) \/ Suggestions(t) \/ PassCommit(t) \/ PassDropped(t)
        PROVE  LessonInv'
    BY <2>2, PassLessons
  <2>3. ASSUME NEW t \in Callers, Correct(t) PROVE LessonInv'
    BY <2>3, HandLessons, LookLessons, TaughtLessons
  <2>4. CASE ByHand
    <3>1. CASE UNCHANGED <<rule, category, lesson, call>> BY <3>1, LessonsStay
    <3>2. \/ UNCHANGED <<rule, category, lesson, call>>
          \/ \E h \in HandRules : CreateRule(h)
          \/ \E r \in RuleIds : UpdateRule(r) \/ DeleteRule(r)
          \/ \E n \in Names : CreateCategory(n)
          \/ \E i \in CatIds : DeleteCategory(i) \/ \E j \in CatIds : MergeCategory(i, j)
          \/ \E v, w \in VendorIds : MergeVendor(v, w)
      BY <2>4 DEF ByHand, CreateVendor, SetDefault, AddAlias, DeleteVendor, VendorFromTransaction, LinkVendor,
                  CreateManual, DeleteTransaction
    <3> QED BY <3>1, <3>2, RuleLessons, CategoryLessons, VendorLessons
  <2> QED BY <2>1, <2>2, <2>3, <2>4 DEF Next
<1>3. TypeInv /\ LessonInv => CorrectionSticks BY RulesSay DEF CorrectionSticks
<1> QED BY <1>1, <1>2, <1>3, TypesHold, PTL DEF Spec

=============================================================================
