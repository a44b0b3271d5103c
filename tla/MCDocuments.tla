----------------------------- MODULE MCDocuments -----------------------------
(* Two files, two receipts, two transactions; amounts in pennies. *)
EXTENDS Documents, TLC

CONSTANTS t1, t2, x1, x2, bill, ticket, shop, rail

Reads(total, date, merchant, sure) ==
  [total |-> total, date |-> date, merchant |-> merchant, vat |-> Null, sure |-> sure]

\* OCR is not sure of the bill, and finds no date on it.
MCReadings ==
  bill :> {Reads(900, Null, shop, FALSE)}
  @@ ticket :> {[Reads(500, 0, rail, TRUE) EXCEPT !.vat = 80]}
MCTemplate(amount, date, merchant) ==
  [content |-> Null, amount |-> amount, date |-> date, merchant |-> merchant, vat |-> Null,
   archived |-> FALSE]
MCTemplates == {MCTemplate(-900, 1, shop)}
MCSimilarity == [m \in {shop, rail} |-> [n \in {shop, rail} |-> IF m = n THEN 20 ELSE 0]]
MCKnownTxns == x1 :> MCTemplate(-500, 0, rail) @@ x2 :> NoRow
=============================================================================
