------------------------------ MODULE Categories ------------------------------
(***************************************************************************)
(* Who decides the category of a transaction: rule_service, vendor_service, *)
(* category_service, import_service's recategorise and auto_categorise,     *)
(* ai_service's apply_suggestions, transaction_service and the routes of    *)
(* transactions, rules, vendors and categories.                             *)
(*                                                                          *)
(* A call is a worker thread with a database session of its own.  It works  *)
(* on the rows it has read; a commit writes the columns the call has        *)
(* changed, and those only, over whatever the rows hold by then.  Foreign   *)
(* keys are enforced, and set to NULL when what they refer to is deleted.   *)
(***************************************************************************)
EXTENDS Integers, SequencesExt

CONSTANTS
  Callers,      \* worker threads
  Txns,         \* ids of transactions
  Texts,        \* descriptions, one per merchant signature
  Desc,         \* Desc[x]: the description of transaction x
  Names,        \* names of categories
  Library,      \* the names the category library has, in its order
  Keyword,      \* Keyword[d]: the library category whose keyword is in d, or NoName
  NoName,
  NoText,
  HandRules,    \* the rules the household may write itself
  HandAliases,  \* the aliases it may add itself, without their vendor
  MaxCategory,  \* bound: category ids
  MaxVendor,    \* bound: vendor ids
  MaxRule,      \* bound: rule ids
  MaxEdits,     \* bound: commits
  Apart         \* sets of operations the household never has two of under way at once

CatIds == 1..MaxCategory
VendorIds == 1..MaxVendor
RuleIds == 1..MaxRule

\* No reference (NULL), and no row at all.
None == 0
Gone == -1

\* Confidences, in hundredths.
KEYWORD_CONFIDENCE == 70
RULE_CONFIDENCE == 98
MANUAL_CONFIDENCE == 100
MATCH_CONFIDENCE == [exact |-> 98, regex |-> 95, contains |-> 90, fuzzy |-> 80]
MATCH_PRECEDENCE == [exact |-> 4, regex |-> 3, contains |-> 2, fuzzy |-> 1]
MatchTypes == DOMAIN MATCH_PRECEDENCE

Ops == {"correct", "recategorise", "apply", "merge"}

Rule == [on : {"description", "vendor", "category"},
         value : Texts \cup CatIds \cup VendorIds,
         action : {"set_category", "set_vendor"},
         ref : CatIds \cup VendorIds,
         priority : Nat, enabled : BOOLEAN]

NoRule == [on |-> "none", value |-> NoText, action |-> "none", ref |-> None,
           priority |-> 0, enabled |-> FALSE]

ASSUME TextsAssumption ==
  /\ Desc \in [Txns -> Texts] /\ NoText \notin Texts
  /\ Library \in Seq(Names) /\ NoName \notin Names
  /\ Keyword \in [Texts -> ToSet(Library) \cup {NoName}]
ASSUME BoundsAssumption ==
  /\ {MaxCategory, MaxVendor, MaxRule, MaxEdits} \subseteq Nat \ {0}
  /\ HandRules \subseteq Rule
  /\ HandAliases \subseteq [text : Texts, type : MatchTypes]
  /\ Apart \subseteq SUBSET Ops

VARIABLES
  category,  \* category[i]: the name of category i, or NoName
  vendor,    \* vendor[v]: the text it is named after and its default category
  alias,     \* the vendor_aliases table
  rule,      \* the rules table
  txn,       \* txn[x]: category, confidence and vendor of transaction x
  call,      \* what each caller is doing
  edits,     \* commits so far
  lesson,    \* history: lesson[d] is the category last taught for d, or None
  folded     \* history: the ids that were merged into others and are free since

vars == <<category, vendor, alias, rule, txn, call, edits, lesson, folded>>

NoVendor == [name |-> NoText, default |-> None]

NoRow == [category |-> None, confidence |-> Gone, vendor |-> None]
Fresh == [category |-> None, confidence |-> None, vendor |-> None]

\* read: the rows as read; new: what they are to be; ids outside its domain
\* are not touched.  rules and vendors are the snapshot of a pass.
Idle == [op |-> "none", pc |-> "idle", force |-> FALSE, read |-> <<>>, new |-> <<>>,
         rules |-> <<>>, vendors |-> <<>>, aliases |-> {}, seen |-> {},
         category |-> None, learn |-> FALSE]

Exists(i) == i \in CatIds /\ category[i] # NoName
ExistsVendor(v) == v \in VendorIds /\ vendor[v] # NoVendor
ExistsRule(r) == r \in RuleIds /\ rule[r] # NoRule
Categories == {i \in CatIds : Exists(i)}
Vendors == {v \in VendorIds : ExistsVendor(v)}
Rules == {r \in RuleIds : ExistsRule(r)}
Stored == {x \in Txns : txn[x] # NoRow}

-----------------------------------------------------------------------------
(* Rules.                                                                   *)

\* matches: the conditions on text, vendor and category.  Those on the amount
\* and the account compare with what no call here changes, like a text.
Matches(r, x, row) ==
  \/ r.on = "description" /\ r.value = Desc[x]
  \/ r.on = "vendor" /\ row.vendor # None /\ r.value = row.vendor
  \/ r.on = "category" /\ row.category # None /\ r.value = row.category

\* Mutant: a rule also replaces a choice made by hand.
Applies_Always(r, row, force) ==
  \/ r.action = "set_category" /\ Exists(r.ref)
  \/ r.action = "set_vendor" /\ ExistsVendor(r.ref)

\* _resolve_ref, _apply_set_category: a rule that refers to nothing, or that
\* meets a choice made by hand, does nothing.
Applies(r, row, force) ==
  \/ /\ r.action = "set_category"
     /\ force \/ row.confidence < MANUAL_CONFIDENCE
     /\ Exists(r.ref)
  \/ r.action = "set_vendor" /\ ExistsVendor(r.ref)

\* apply_action.  The other actions set columns that no decision here reads.
Applied(r, row) ==
  IF r.action = "set_category"
  THEN [row EXCEPT !.category = r.ref, !.confidence = RULE_CONFIDENCE]
  ELSE [row EXCEPT !.vendor = r.ref]

\* Rules are tried highest priority first, then lowest id.
Before(rules, r, s) ==
  \/ rules[r].priority > rules[s].priority
  \/ rules[r].priority = rules[s].priority /\ r < s

\* The first of the rules R that is enabled and does something to the row, if any.
FirstToApply(rules, R, x, row, force) ==
  LET apply == {r \in R : rules[r].enabled /\ Matches(rules[r], x, row) /\ Applies(rules[r], row, force)}
  IN {r \in apply : \A s \in apply \ {r} : Before(rules, r, s)}

\* The row once the first of them, if any, is applied.
RowAfter(rules, first, row) ==
  IF first = {} THEN row ELSE Applied(rules[CHOOSE r \in first : TRUE], row)

\* apply_rules: of each of the two kinds of action, the first rule that does something
\* when its turn comes.
ApplyRules(rules, x, start, force) ==
  LET one == FirstToApply(rules, DOMAIN rules, x, start, force)
      row == RowAfter(rules, one, start)
      left == {s \in DOMAIN rules : \A r \in one : /\ Before(rules, r, s)
                                                  /\ rules[s].action # rules[r].action}
  IN IF one = {} THEN start ELSE RowAfter(rules, FirstToApply(rules, left, x, row, force), row)

-----------------------------------------------------------------------------
(* Vendors and keywords.                                                    *)

\* match_vendor: the aliases that match best.  Of several, the longest and then
\* the first the query returns is taken; which, is left open.
BestAliases(aliases, d) ==
  {a \in aliases : /\ a.text = d
                   /\ \A b \in aliases : b.text = d =>
                        MATCH_PRECEDENCE[b.type] <= MATCH_PRECEDENCE[a.type]}

\* normalise_transaction with the alias a: the category is that of the vendor
\* the row is linked to, which a rule may have chosen.
Normalised(a, vendors, row) ==
  LET linked == IF row.vendor = None THEN a.vendor ELSE row.vendor
      default == IF linked \in DOMAIN vendors THEN vendors[linked].default
                 ELSE IF ExistsVendor(linked) THEN vendor[linked].default ELSE None
  IN IF row.category = None /\ default # None
     THEN [category |-> default, confidence |-> MATCH_CONFIDENCE[a.type], vendor |-> linked]
     ELSE [row EXCEPT !.vendor = linked]

\* categorise_text: only what the library has and the household still has.
\* _library_category_map is read afresh: its cache follows every commit.
KeywordCategories(d) == {i \in Categories : Keyword[d] # NoName /\ category[i] = Keyword[d]}

WithKeyword(d, row) ==
  IF row.category # None \/ KeywordCategories(d) = {} THEN row
  ELSE [row EXCEPT !.category = Min(KeywordCategories(d)), !.confidence = KEYWORD_CONFIDENCE]

\* auto_categorise: rules, then the vendor's default, then keywords.  The result
\* is a row and the vendor whose last_seen_at is set, if any.
AutoCategorised(c, x, start) ==
  LET ruled == ApplyRules(c.rules, x, start, c.force)
      best == BestAliases(c.aliases, Desc[x])
  IN IF best = {} THEN {[row |-> WithKeyword(Desc[x], ruled), seen |-> {}]}
     ELSE {[row |-> WithKeyword(Desc[x], Normalised(a, c.vendors, ruled)),
            seen |-> {a.vendor}] : a \in best}

-----------------------------------------------------------------------------
(* What a call begins and ends with.                                        *)

Free(t, op) ==
  /\ call[t] = Idle
  /\ \A A \in Apart : op \in A => \A u \in Callers : call[u].op \notin A

End(t) == call' = [call EXCEPT ![t] = Idle]

Count == edits < MaxEdits /\ edits' = edits + 1

\* The UPDATE of a row: the columns that differ from what was read.
Merged(old, new, now) == [f \in DOMAIN now |-> IF new[f] = old[f] THEN now[f] ELSE new[f]]

Changed(c) == {x \in DOMAIN c.new : c.new[x] # c.read[x]}

Written(c) == [x \in Txns |-> IF x \in Changed(c) THEN Merged(c.read[x], c.new[x], txn[x])
                              ELSE txn[x]]

\* The rows are still there, and what they are to refer to is.
CanWrite(c) ==
  /\ Changed(c) \subseteq Stored
  /\ \A x \in Changed(c) :
       /\ c.new[x].category = c.read[x].category \/ c.new[x].category \in {None} \cup Categories
       /\ c.new[x].vendor = c.read[x].vendor \/ c.new[x].vendor \in {None} \cup Vendors
  /\ c.seen \subseteq Vendors

-----------------------------------------------------------------------------
(* recategorise                                                             *)

Snapshot ==
  [rules |-> [r \in {s \in Rules : rule[s].enabled} |-> rule[r]],
   vendors |-> [v \in {a.vendor : a \in alias} |-> vendor[v]],
   aliases |-> alias]

\* What a single row is categorised with.
Live == [rules |-> Snapshot.rules, vendors |-> Snapshot.vendors, aliases |-> alias, force |-> FALSE]

\* _load_categoriser_context
PassRules(t, force) ==
  /\ Free(t, "recategorise")
  /\ call' = [call EXCEPT ![t] = [Idle EXCEPT
                !.op = "recategorise", !.pc = "p_rows", !.force = force,
                !.rules = Snapshot.rules, !.vendors = Snapshot.vendors,
                !.aliases = Snapshot.aliases]]
  /\ UNCHANGED <<category, vendor, alias, rule, txn, edits, lesson, folded>>

\* All rows the filter selects, or those of them without a category.
PassRows(t) ==
  /\ call[t].pc = "p_rows"
  /\ \E S \in {Stored, {x \in Stored : txn[x].category = None}} :
       call' = [call EXCEPT ![t].pc = "p_apply", ![t].read = [x \in S |-> txn[x]]]
  /\ UNCHANGED <<category, vendor, alias, rule, txn, edits, lesson, folded>>

\* c, with what it makes of each row and of the vendors it has seen.
Decided(c, out) ==
  [c EXCEPT !.pc = "p_commit", !.rules = <<>>, !.vendors = <<>>, !.aliases = {},
            !.new = [x \in DOMAIN c.read |-> out[x].row],
            !.seen = UNION {out[x].seen : x \in DOMAIN c.read}]

\* Row by row, from the snapshot; whether a category exists is looked up now.
PassApply(t) ==
  LET c == call[t]
      Outcomes(x) == AutoCategorised(c, x, c.read[x])
  IN /\ c.pc = "p_apply"
     /\ \E out \in [DOMAIN c.read -> UNION {Outcomes(x) : x \in DOMAIN c.read}] :
          /\ \A x \in DOMAIN c.read : out[x] \in Outcomes(x)
          /\ call' = [call EXCEPT ![t] = Decided(c, out)]
     /\ UNCHANGED <<category, vendor, alias, rule, txn, edits, lesson, folded>>

PassCommit(t) ==
  /\ call[t].pc \in {"p_commit", "a_commit"} /\ CanWrite(call[t])
  /\ Count
  /\ txn' = Written(call[t])
  /\ End(t)
  /\ UNCHANGED <<category, vendor, alias, rule, lesson, folded>>

\* A dry run, a commit that a foreign key or a missing row refuses, a restart.
PassDropped(t) ==
  /\ call[t].pc \in {"p_commit", "a_commit"}
  /\ End(t)
  /\ UNCHANGED <<category, vendor, alias, rule, txn, edits, lesson, folded>>

Recategorise(t) ==
  (\E force \in BOOLEAN : PassRules(t, force)) \/ PassRows(t) \/ PassApply(t)

-----------------------------------------------------------------------------
(* apply_suggestions                                                        *)

\* Rows that are the household's own choice are skipped; the others become one.
Suggested(S, i) ==
  [x \in {y \in S : txn[y].confidence < MANUAL_CONFIDENCE} |->
     [txn[x] EXCEPT !.category = i, !.confidence = MANUAL_CONFIDENCE]]

ApplyRead(t, S, i) ==
  /\ Free(t, "apply")
  /\ S \subseteq Stored /\ Exists(i)
  /\ call' = [call EXCEPT ![t] = [Idle EXCEPT !.op = "apply", !.pc = "a_commit",
                                              !.read = [x \in S |-> txn[x]],
                                              !.new = Suggested(S, i)]]
  /\ UNCHANGED <<category, vendor, alias, rule, txn, edits, lesson, folded>>

Suggestions(t) == \E S \in SUBSET Txns \ {{}}, i \in CatIds : ApplyRead(t, S, i)

-----------------------------------------------------------------------------
(* categorise, categorise_batch, and what a correction teaches.             *)

\* The category i, or none, for the transactions S by hand.
HandLoad(t, S, i, learnVendor, learnRule) ==
  /\ Free(t, "correct")
  /\ S # {} /\ S \subseteq Stored /\ i \in {None} \cup Categories
  /\ learnVendor \/ learnRule => i # None /\ Cardinality(S) = 1
  /\ call' = [call EXCEPT ![t] = [Idle EXCEPT
                !.op = "correct", !.category = i, !.learn = learnRule,
                !.pc = IF learnVendor THEN "h_vendor" ELSE IF learnRule THEN "h_look" ELSE "h_commit",
                !.read = [x \in S |-> txn[x]],
                !.new = [x \in S |-> [txn[x] EXCEPT !.category = i,
                                                    !.confidence = MANUAL_CONFIDENCE]]]]
  /\ UNCHANGED <<category, vendor, alias, rule, txn, edits, lesson, folded>>

TextOf(c) == CHOOSE d \in {Desc[x] : x \in DOMAIN c.read} : TRUE

HandCommit(t) ==
  /\ call[t].pc = "h_commit" /\ CanWrite(call[t])
  /\ Count
  /\ txn' = Written(call[t])
  /\ End(t)
  /\ UNCHANGED <<category, vendor, alias, rule, lesson, folded>>

\* The vendor a correction of d teaches: the one an alias finds, or else the
\* one named after d, or else a new one.
VendorFor(d) ==
  LET best == BestAliases(alias, d)
      named == {v \in Vendors : vendor[v].name = d}
  IN IF best # {} THEN {a.vendor : a \in best}
     ELSE IF named # {} THEN {Min(named)}
     ELSE {1 + Max({0} \cup Vendors)}

\* learn_vendor_category.  Its commit takes the transaction with it.
HandVendor(t) ==
  LET c == call[t]
      d == TextOf(c)
  IN /\ c.pc = "h_vendor" /\ CanWrite(c) /\ Exists(c.category)
     /\ Count
     /\ txn' = Written(c)
     /\ \E v \in VendorFor(d) \cap VendorIds :
          /\ vendor' = [vendor EXCEPT ![v] = IF ExistsVendor(v) THEN [@ EXCEPT !.default = c.category]
                                             ELSE [name |-> d, default |-> c.category]]
          /\ alias' = IF BestAliases(alias, d) # {} THEN alias
                      ELSE alias \cup {[vendor |-> v, text |-> d, type |-> "contains"]}
     /\ call' = [call EXCEPT ![t] = IF c.learn THEN [c EXCEPT !.pc = "h_look", !.new = <<>>]
                                    ELSE Idle]
     /\ UNCHANGED <<category, rule, lesson, folded>>

\* The rules that set a category for this description, in id order.
HandLook(t) ==
  LET c == call[t] IN
  /\ c.pc = "h_look"
  /\ call' = [call EXCEPT ![t].pc = "h_rule",
                ![t].rules = [r \in {s \in Rules : /\ rule[s].on = "description"
                                                   /\ rule[s].value = TextOf(c)
                                                   /\ rule[s].action = "set_category"} |-> rule[r]]]
  /\ UNCHANGED <<category, vendor, alias, rule, txn, edits, lesson, folded>>

Lesson(d, i) ==
  [on |-> "description", value |-> d, action |-> "set_category", ref |-> i,
   priority |-> 200, enabled |-> TRUE]

\* create_rule_from_correction: the rule that is to say it.  One that says the
\* same comes first, then the oldest of the others, then a new one.
Taking(c) ==
  LET same == {r \in DOMAIN c.rules : c.rules[r].ref = c.category}
  IN IF same # {} THEN Min(same)
     ELSE IF DOMAIN c.rules # {} THEN Min(DOMAIN c.rules)
     ELSE 1 + Max({0} \cup Rules)

\* Mutant: a rule that says the same is not enabled again.
Taught_Asleep(c, r) ==
  IF r \notin DOMAIN c.rules THEN Lesson(TextOf(c), c.category)
  ELSE [rule[r] EXCEPT !.ref = c.category]

\* Its columns that differ from what was read are written.
Taught(c, r) ==
  IF r \notin DOMAIN c.rules THEN Lesson(TextOf(c), c.category)
  ELSE [rule[r] EXCEPT !.ref = IF c.rules[r].ref = c.category THEN @ ELSE c.category,
                       !.enabled = @ \/ ~c.rules[r].enabled]

HandRule(t) ==
  LET c == call[t]
      r == Taking(c)
      untouched == r \in DOMAIN c.rules => c.rules[r] = rule[r]
  IN /\ c.pc = "h_rule" /\ CanWrite(c)
     /\ r \in RuleIds
     \* An UPDATE must find its row; a rule that says it already is not updated.
     /\ r \in DOMAIN c.rules /\ ~ExistsRule(r) =>
          c.rules[r].ref = c.category /\ c.rules[r].enabled
     /\ Count
     /\ txn' = Written(c)
     /\ rule' = IF r \in DOMAIN c.rules /\ ~ExistsRule(r) THEN rule
                ELSE [rule EXCEPT ![r] = Taught(c, r)]
     /\ lesson' = IF untouched
                THEN [lesson EXCEPT ![TextOf(c)] = IF Exists(c.category) THEN c.category ELSE None]
                ELSE lesson
     /\ End(t)
     /\ UNCHANGED <<category, vendor, alias, folded>>

\* What the call refers to has gone, or the process was stopped.
HandDropped(t) ==
  /\ call[t].pc \in {"h_vendor", "h_look", "h_rule", "h_commit"}
  /\ End(t)
  /\ UNCHANGED <<category, vendor, alias, rule, txn, edits, lesson, folded>>

Correct(t) ==
  \/ \E S \in SUBSET Txns, i \in {None} \cup CatIds, v \in BOOLEAN, r \in BOOLEAN :
       HandLoad(t, S, i, v, r)
  \/ HandCommit(t) \/ HandVendor(t) \/ HandLook(t) \/ HandRule(t) \/ HandDropped(t)

-----------------------------------------------------------------------------
(* Categories, vendors, rules and transactions by hand: calls that load and *)
(* commit with nothing of theirs in between.                                *)

Quiet(op) == \A A \in Apart : op \in A => \A u \in Callers : call[u].op \notin A

\* The lesson of a text is over once the household changes its rule itself.
Forgotten(r) ==
  IF r.on = "description" /\ r.action = "set_category"
  THEN [lesson EXCEPT ![r.value] = None] ELSE lesson

\* A rule is written from lists of what exists.
CreateRule(h) ==
  LET next == 1 + Max({0} \cup Rules) IN
  /\ Count /\ next \in RuleIds
  /\ h.action = "set_category" => Exists(h.ref)
  /\ h.action = "set_vendor" => ExistsVendor(h.ref)
  /\ h.on = "category" => Exists(h.value)
  /\ h.on = "vendor" => ExistsVendor(h.value)
  /\ rule' = [rule EXCEPT ![next] = h]
  /\ lesson' = Forgotten(h)
  /\ UNCHANGED <<category, vendor, alias, txn, call, folded>>

\* update_rule, by which the household turns a rule off and on.
UpdateRule(r) ==
  /\ Count /\ ExistsRule(r)
  /\ rule' = [rule EXCEPT ![r].enabled = ~@]
  /\ lesson' = Forgotten(rule[r])
  /\ UNCHANGED <<category, vendor, alias, txn, call, folded>>

DeleteRule(r) ==
  /\ Count /\ ExistsRule(r)
  /\ rule' = [rule EXCEPT ![r] = NoRule]
  /\ lesson' = Forgotten(rule[r])
  /\ UNCHANGED <<category, vendor, alias, txn, call, folded>>

\* create_category, and resolve_library_category for a name of the library.
CreateCategory(n) ==
  LET next == 1 + Max({0} \cup Categories) IN
  /\ Count /\ next \in CatIds
  /\ \A i \in Categories : category[i] # n
  /\ category' = [category EXCEPT ![next] = n]
  /\ folded' = folded \ {next}
  /\ UNCHANGED <<vendor, alias, rule, txn, call, lesson>>

\* Every reference that is a foreign key becomes NULL; rules are left as they are.
DeleteCategory(i) ==
  /\ Count /\ Exists(i)
  /\ category' = [category EXCEPT ![i] = NoName]
  /\ txn' = [x \in Txns |-> IF txn[x].category = i THEN [txn[x] EXCEPT !.category = None] ELSE txn[x]]
  /\ vendor' = [v \in VendorIds |->
                  IF vendor[v].default = i THEN [vendor[v] EXCEPT !.default = None] ELSE vendor[v]]
  /\ lesson' = [d \in Texts |-> IF lesson[d] = i THEN None ELSE lesson[d]]
  /\ UNCHANGED <<alias, rule, call, folded>>

\* Mutant: the rules that have the category as their condition keep it.
Repointed_Action(r, i, j) ==
  [rule[r] EXCEPT !.ref = IF rule[r].action = "set_category" /\ @ = i THEN j ELSE @]

\* Rules hold ids as text: those that set the category and those that ask for it.
Repointed(r, i, j) ==
  [rule[r] EXCEPT !.ref = IF rule[r].action = "set_category" /\ @ = i THEN j ELSE @,
                  !.value = IF rule[r].on = "category" /\ @ = i THEN j ELSE @]

MergeCategory(i, j) ==
  /\ Count /\ Quiet("merge")
  /\ i # j /\ Exists(i) /\ Exists(j)
  /\ category' = [category EXCEPT ![i] = NoName]
  /\ txn' = [x \in Txns |-> IF txn[x].category = i THEN [txn[x] EXCEPT !.category = j] ELSE txn[x]]
  /\ vendor' = [v \in VendorIds |->
                  IF vendor[v].default = i THEN [vendor[v] EXCEPT !.default = j] ELSE vendor[v]]
  /\ rule' = [r \in RuleIds |-> Repointed(r, i, j)]
  /\ lesson' = [d \in Texts |-> IF lesson[d] = i THEN j ELSE lesson[d]]
  /\ folded' = folded \cup {i}
  /\ UNCHANGED <<alias, call>>

\* set_default_category, and update_vendor for it.
SetDefault(v, i) ==
  /\ Count /\ ExistsVendor(v) /\ i \in {None} \cup Categories
  /\ vendor' = [vendor EXCEPT ![v].default = i]
  /\ UNCHANGED <<category, alias, rule, txn, call, lesson, folded>>

\* create_vendor, under any name.
CreateVendor(d) ==
  LET next == 1 + Max({0} \cup Vendors) IN
  /\ Count /\ next \in VendorIds
  /\ vendor' = [vendor EXCEPT ![next] = [name |-> d, default |-> None]]
  /\ UNCHANGED <<category, alias, rule, txn, call, lesson, folded>>

AddAlias(v, h) ==
  /\ Count /\ ExistsVendor(v)
  /\ alias' = alias \cup {[vendor |-> v, text |-> h.text, type |-> h.type]}
  /\ UNCHANGED <<category, vendor, rule, txn, call, lesson, folded>>

\* Its aliases go with it.
DeleteVendor(v) ==
  /\ Count /\ ExistsVendor(v)
  /\ vendor' = [vendor EXCEPT ![v] = NoVendor]
  /\ alias' = {a \in alias : a.vendor # v}
  /\ txn' = [x \in Txns |-> IF txn[x].vendor = v THEN [txn[x] EXCEPT !.vendor = None] ELSE txn[x]]
  /\ UNCHANGED <<category, rule, call, lesson, folded>>

\* _move_aliases: one alias of each text that the target does not have yet.
MovedAliases(v, w) ==
  LET new == {a \in alias : a.vendor = v /\ \A o \in alias : o.vendor = w => o.text # a.text}
  IN {S \in SUBSET new : \A a \in new : Cardinality({b \in S : b.text = a.text}) = 1}

\* merge_vendor
MergeVendor(v, w) ==
  /\ Count
  /\ v # w /\ ExistsVendor(v) /\ ExistsVendor(w)
  /\ vendor' = [vendor EXCEPT ![v] = NoVendor,
                              ![w].default = IF @ = None THEN vendor[v].default ELSE @]
  /\ \E S \in MovedAliases(v, w) :
       alias' = {a \in alias : a.vendor # v} \cup {[a EXCEPT !.vendor = w] : a \in S}
  /\ txn' = [x \in Txns |-> IF txn[x].vendor = v THEN [txn[x] EXCEPT !.vendor = w] ELSE txn[x]]
  /\ rule' = [r \in RuleIds |->
               [rule[r] EXCEPT !.ref = IF rule[r].action = "set_vendor" /\ @ = v THEN w ELSE @,
                               !.value = IF rule[r].on = "vendor" /\ @ = v THEN w ELSE @]]
  /\ UNCHANGED <<category, call, lesson, folded>>

\* create_from_transaction: a vendor of that name, with an alias for the text.
VendorFromTransaction(x) ==
  LET named == {v \in Vendors : vendor[v].name = Desc[x]}
      v == IF named # {} THEN Min(named) ELSE 1 + Max({0} \cup Vendors)
  IN /\ Count /\ x \in Stored /\ v \in VendorIds
     /\ vendor' = [vendor EXCEPT ![v] = IF ExistsVendor(v) THEN @
                                        ELSE [name |-> Desc[x], default |-> None]]
     /\ alias' = IF \E a \in alias : a.vendor = v /\ a.text = Desc[x] THEN alias
                 ELSE alias \cup {[vendor |-> v, text |-> Desc[x], type |-> "contains"]}
     /\ txn' = [txn EXCEPT ![x].vendor = v]
     /\ UNCHANGED <<category, rule, call, lesson, folded>>

\* update_transaction and bulk_update with a vendor, or none.
LinkVendor(x, v) ==
  /\ Count /\ x \in Stored /\ v \in {None} \cup Vendors
  /\ txn' = [txn EXCEPT ![x].vendor = v]
  /\ UNCHANGED <<category, vendor, alias, rule, call, lesson, folded>>

\* create_manual: the category it is given, or what the automatic order says.
CreateManual(x, i) ==
  /\ Count /\ txn[x] = NoRow /\ i \in {None} \cup Categories
  /\ IF i # None
     THEN txn' = [txn EXCEPT ![x] = [Fresh EXCEPT !.category = i, !.confidence = MANUAL_CONFIDENCE]]
     ELSE \E out \in AutoCategorised(Live, x, Fresh) :
            txn' = [txn EXCEPT ![x] = out.row]
  /\ UNCHANGED <<category, vendor, alias, rule, call, lesson, folded>>

\* delete_transaction, delete_by_filter and a deletion in bulk, row by row.
DeleteTransaction(x) ==
  /\ Count /\ x \in Stored
  /\ txn' = [txn EXCEPT ![x] = NoRow]
  /\ UNCHANGED <<category, vendor, alias, rule, call, lesson, folded>>

ByHand ==
  \/ \E h \in HandRules : CreateRule(h)
  \/ \E r \in RuleIds : UpdateRule(r) \/ DeleteRule(r)
  \/ \E n \in Names : CreateCategory(n)
  \/ \E i \in CatIds : DeleteCategory(i) \/ \E j \in CatIds : MergeCategory(i, j)
  \/ \E d \in Texts : CreateVendor(d)
  \/ \E v \in VendorIds : \/ \E i \in {None} \cup CatIds : SetDefault(v, i)
                          \/ \E h \in HandAliases : AddAlias(v, h)
                          \/ DeleteVendor(v)
                          \/ \E w \in VendorIds : MergeVendor(v, w)
  \/ \E x \in Txns : \/ VendorFromTransaction(x)
                     \/ \E v \in {None} \cup VendorIds : LinkVendor(x, v)
                     \/ \E i \in {None} \cup CatIds : CreateManual(x, i)
                     \/ DeleteTransaction(x)

-----------------------------------------------------------------------------
(* The whole.                                                               *)

\* import_library has run: the library's categories are the first ids.  The
\* transactions have been imported and nothing was known about them, but for a
\* vendor perhaps.
Init ==
  /\ category = [i \in CatIds |-> IF i \in DOMAIN Library THEN Library[i] ELSE NoName]
  /\ \E known \in {S \in SUBSET Texts : Cardinality(S) <= 1} :
       /\ vendor = [v \in VendorIds |-> IF v \in 1..Cardinality(known)
                                        THEN [name |-> CHOOSE d \in known : TRUE, default |-> None]
                                        ELSE NoVendor]
       /\ alias = {[vendor |-> 1, text |-> d, type |-> "contains"] : d \in known}
  /\ rule = [r \in RuleIds |-> NoRule]
  /\ txn = [x \in Txns |-> Fresh]
  /\ call = [t \in Callers |-> Idle]
  /\ edits = 0
  /\ lesson = [d \in Texts |-> None]
  /\ folded = {}

Next ==
  \/ \E t \in Callers : \/ Recategorise(t) \/ Suggestions(t)
                        \/ PassCommit(t) \/ PassDropped(t)
                        \/ Correct(t)
  \/ ByHand

Spec == Init /\ [][Next]_vars

-----------------------------------------------------------------------------
(* Properties.                                                              *)

Choice ==
  INSTANCE ManualChoice WITH
    Passes <- Callers,
    Categories <- {None} \cup CatIds,
    choice <- [x \in Txns |-> [category |-> txn[x].category,
                               byHand |-> /\ txn[x].confidence = MANUAL_CONFIDENCE
                                          /\ txn[x].category # None]],
    pass <- [t \in Callers |->
               IF call[t].pc \in {"p_apply", "p_commit", "a_commit"} /\ ~call[t].force
               THEN [running |-> TRUE,
                     open |-> {x \in DOMAIN call[t].read :
                                 \/ call[t].read[x].confidence # MANUAL_CONFIDENCE
                                 \/ call[t].read[x].category = None}]
               ELSE [running |-> FALSE, open |-> {}]]

\* A category chosen by hand stays until somebody chooses again: neither a
\* recategorisation that was not told to replace such choices nor the
\* application of AI suggestions writes over it, unless it was made after the
\* pass had read the row (recategorise, apply_suggestions: "never overwrite a
\* manual choice").
HandOnly == Choice!Spec

\* What the household has taught last for a description is what the rules give
\* the next transaction with it, whatever was learned, turned off, merged and
\* deleted before (create_rule_from_correction).
CorrectionSticks ==
  \A d \in Texts, x \in Txns :
    lesson[d] # None /\ Desc[x] = d =>
      ApplyRules(Snapshot.rules, x, Fresh, FALSE).category = lesson[d]

\* Nothing refers to a category that was merged into another one, not even the
\* ids that rules keep as text, whatever was under way during the merge
\* (merge_category).
NothingLeftBehind ==
  \A i \in folded :
    /\ \A r \in Rules : /\ ~(rule[r].action = "set_category" /\ rule[r].ref = i)
                        /\ ~(rule[r].on = "category" /\ rule[r].value = i)
    /\ \A v \in Vendors : vendor[v].default # i
    /\ \A x \in Txns : txn[x].category # i
=============================================================================
