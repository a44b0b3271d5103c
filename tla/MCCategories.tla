----------------------------- MODULE MCCategories -----------------------------
(* Transactions with a description that has a keyword of the library.       *)
EXTENDS Categories, TLC

CONSTANTS t1, t2, x1, coffee, food, fun

MCDesc == [x \in Txns |-> coffee]
MCKeyword == coffee :> food
MCLibrary == <<food, fun>>

\* One rule asks for a category and files the transaction elsewhere, one asks for
\* a vendor, one sets a vendor.
MCHandRules ==
  {[on |-> "category", value |-> 2, action |-> "set_category", ref |-> 1,
    priority |-> 100, enabled |-> TRUE],
   [on |-> "vendor", value |-> 1, action |-> "set_category", ref |-> 2,
    priority |-> 100, enabled |-> TRUE],
   [on |-> "description", value |-> coffee, action |-> "set_vendor", ref |-> 1,
    priority |-> 100, enabled |-> TRUE]}
MCHandAliases == {[text |-> coffee, type |-> "exact"]}

\* Two corrections at once can make two rules for one text; a merge can overtake
\* a correction.
MCApart == {{"correct", "merge"}, {"correct"}, {"recategorise", "apply"}}
MCSymmetry == Permutations(Callers)
=============================================================================
