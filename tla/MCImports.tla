------------------------------ MODULE MCImports ------------------------------
(* Imports on a card, its statement and the Curve exports of two months.    *)
EXTENDS Imports, TLC

CONSTANTS t1, t2, bank, curve, jan, feb, photo

Purchase(k, p, d, m, l) ==
  [key |-> k, purchase |-> p, amount |-> 5, day |-> d, marked |-> m, label |-> l]

\* The statement of the card: three Curve purchases, one the bank has not marked
\* and two it has, one of them on no export, and a purchase at the same price made
\* with the card itself.
MCRows ==
  bank :> <<Purchase("b3", "direct", 4, FALSE, NoLabel),
            Purchase("b2", "feb", 3, TRUE, NoLabel),
            Purchase("b1", "jan", 1, FALSE, NoLabel),
            Purchase("b4", "mar", 2, TRUE, NoLabel)>>
  @@ jan :> <<Purchase("c1", "jan", 0, FALSE, curve)>>
  @@ feb :> <<Purchase("c2", "feb", 2, FALSE, curve)>>
  \* A picture of one line of it, read by the AI.
  @@ photo :> <<Purchase("b1", "jan", 1, FALSE, NoLabel)>>

MCBank ==
  bank :> "bank" @@ photo :> "AI-extracted"
  @@ jan :> "curve" @@ feb :> "curve"
MCOwns == curve :> "bank"
MCPhoto == {photo}
\* Calls of two threads on two files, and one after the other with two exports.
MCWorlds ==
  {[files |-> {bank, photo}, labels |-> {}, apart |-> {{"upload"}, {"confirm"}, {"delete"}}, crash |-> TRUE],
   [files |-> {bank, jan, feb}, labels |-> {curve}, apart |-> {{"upload", "confirm", "delete"}}, crash |-> FALSE]}

Symmetry == Permutations(Callers)
=============================================================================
