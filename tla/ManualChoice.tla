----------------------------- MODULE ManualChoice -----------------------------
(***************************************************************************)
(* What the app promises about categories chosen by hand (the order "manual *)
(* > rule > vendor default > keyword"): a pass over the transactions, be it *)
(* a recategorisation or the application of AI suggestions, leaves alone    *)
(* whatever had been chosen by hand when the pass read it.                  *)
(***************************************************************************)
CONSTANTS
  Txns,      \* the transactions
  Passes,    \* whoever may run a pass
  Categories \* the categories, and what stands for none

VARIABLES
  choice,    \* choice[x]: the category of x, and whether it was chosen by hand
  pass       \* pass[p]: whether p is under way, and the transactions it may write

vars == <<choice, pass>>

Choices == [category : Categories, byHand : BOOLEAN]

NoPass == [running |-> FALSE, open |-> {}]

Init ==
  /\ choice \in [Txns -> Choices]
  /\ pass = [p \in Passes |-> NoPass]

\* Anybody but a pass: any choices at all.
ByHand ==
  /\ choice' \in [Txns -> Choices]
  /\ UNCHANGED pass

\* A pass reads some transactions; what was chosen by hand is closed to it.
Begin(p) ==
  /\ ~pass[p].running
  /\ \E S \in SUBSET {x \in Txns : ~choice[x].byHand} :
       pass' = [pass EXCEPT ![p] = [running |-> TRUE, open |-> S]]
  /\ UNCHANGED choice

\* It writes what it decided for those, or nothing, and is over.
Finish(p) ==
  /\ pass[p].running
  /\ pass' = [pass EXCEPT ![p] = NoPass]
  /\ choice' \in [Txns -> Choices]
  /\ \A x \in Txns \ pass[p].open : choice'[x] = choice[x]

Next == ByHand \/ \E p \in Passes : Begin(p) \/ Finish(p)

Spec == Init /\ [][Next]_vars
=============================================================================
