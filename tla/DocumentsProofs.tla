--------------------------- MODULE DocumentsProofs ---------------------------
(***************************************************************************)
(* Proofs about Documents, for every set of threads, files, readings and   *)
(* transactions, both settings, every retention policy and every bound.    *)
(***************************************************************************)
EXTENDS Documents, WellFoundedInduction, TLAPS

Merchants == DOMAIN Similarity \cup {Null}

Row == [content : Contents, created : Nat, date : Nat \cup {Null}, merchant : Merchants,
        total : Int \cup {Null}, vat : Nat \cup {Null}, stored : BOOLEAN, archived : BOOLEAN,
        ocr : {"not_processed", "unread", "processed"}, needsReview : BOOLEAN, byHand : BOOLEAN]

MatchRow == [receipt : Receipts, txn : Txns, status : {"suggested", "auto_confirmed", "confirmed"}]

Call == [op : {"none", "ocr", "ai", "match", "attach"}, r : Receipts \cup {0},
         row : Row \cup {NoRow}, txn : Txns \cup {Null}]

Ids == Receipts \cup Txns

Run == [stage : {"idle", "archive", "purge", "receipts"}, day : Nat, todo : SUBSET Receipts,
        purged : Nat, saved : SUBSET Ids, late : SUBSET Ids]

\* A call is about a receipt, and one that reads a file has its row.
Placed(c) ==
  /\ c.op # "none" => c.r \in Receipts
  /\ c.op \in {"ocr", "ai"} => c.row \in Row

\* The type invariant, of the tables and of what is under way.
TablesOK ==
  /\ receipt \in [Receipts -> Row \cup {NoRow}]
  /\ txn \in [Txns -> Payment \cup {NoRow}]
  /\ matches \in Seq(MatchRow)
  /\ item \in [Receipts \X Reasons -> {"absent", "open", "closed"}]

WorkOK ==
  /\ call \in [Callers -> Call] /\ \A t \in Callers : Placed(call[t])
  /\ sweep \in Run
  /\ day \in Nat /\ edits \in Nat

TypeOK == TablesOK /\ WorkOK

\* The receipts with an original are of different contents, and those whose original was
\* dropped say so.
FileInv ==
  /\ \A r \in Stored : receipt[r].stored <=> ~receipt[r].archived
  /\ \A r, s \in Stored : receipt[r].stored /\ receipt[s].stored
                          /\ receipt[r].content = receipt[s].content => r = s
  /\ FileKept

\* A receipt that is gone while a call is about it is known to be.
CallsShown == \A t \in Callers : call[t].op # "none" => call[t].r \in Stored \cup loose

\* What ReviewShown says of one receipt.
Shown(r) ==
  /\ r \in Stored /\ receipt[r].needsReview => \E reason \in Reasons : item[<<r, reason>>] = "open"
  /\ r \notin Stored => \A reason \in Reasons : item[<<r, reason>>] # "open"

ReviewInv == ReviewShown /\ CallsShown

\* During a purge every row is in its backup or came later.
BackedUp == sweep.stage \in {"purge", "receipts"} => Rows \subseteq sweep.saved \cup sweep.late

DocInv == TypeOK /\ FileInv /\ OneConfirmed /\ ReviewInv /\ BackedUp

\* What a step does at most: it keeps the receipts and their originals, it keeps totals that
\* were typed in, it keeps the transactions and their VAT amounts, and what a receipt's
\* review shows stays so.
SameFiles ==
  \A r \in Receipts :
    /\ receipt'[r] = NoRow <=> receipt[r] = NoRow
    /\ r \in Stored => /\ receipt'[r].content = receipt[r].content
                       /\ receipt'[r].stored = receipt[r].stored
                       /\ receipt'[r].archived = receipt[r].archived
SameTotals == \A r \in Stored : receipt'[r].total = receipt[r].total
SameTxns == \A x \in Txns : txn'[x] = NoRow <=> txn[x] = NoRow
SameVats == \A x \in Present : txn[x].vat # Null => txn'[x].vat = txn[x].vat
StaysShown == \A r \in Receipts : Shown(r) => Shown(r)'

\* What HandKept and PurgeSafe say of one step.
HandStep ==
  /\ \A r \in Stored :
       receipt[r].byHand /\ receipt'[r] # NoRow /\ receipt'[r].total # receipt[r].total
       => \/ edits' # edits
          \/ \E t \in Callers : call[t].r = r /\ (call[t].op = "ai" \/ call[t].row.total = Null)
  /\ \A x \in Present :
       txn'[x] # NoRow /\ txn[x].vat # Null /\ txn'[x].vat # txn[x].vat
       => edits' # edits /\ receipt' = receipt
PurgeStep ==
  /\ sweep.stage \in {"purge", "receipts"} /\ edits' = edits
       => Rows \ Rows' \subseteq sweep.saved \cup sweep.late
  /\ owed' # owed => edits' # edits

StepOK == DocInv' /\ HandStep /\ PurgeStep

-----------------------------------------------------------------------------
(* Rows.                                                                    *)

\* No row is the row that is not there.
LEMMA NoRowApart == NoRow \notin Row /\ NoRow \notin Payment
BY DEF Row, Payment, NoRow

\* What OCR fills in; a total only where there is none.
LEMMA FilledRow ==
  ASSUME NEW row \in Row, NEW g \in Reading
  PROVE  /\ Filled(row, g) \in Row
         /\ Filled(row, g).content = row.content /\ Filled(row, g).stored = row.stored
         /\ Filled(row, g).archived = row.archived
         /\ row.total # Null => Filled(row, g).total = row.total
<1>1. PICK filled : filled = [row EXCEPT !.merchant = IF @ = Null THEN g.merchant ELSE @,
              !.date = IF @ = Null THEN g.date ELSE @,
              !.total = IF @ = Null THEN g.total ELSE @,
              !.vat = IF @ = Null THEN g.vat ELSE @]
  OBVIOUS
<1>2. filled \in Row BY <1>1 DEF Row, Reading, Merchants
<1>3. filled.content = row.content /\ filled.stored = row.stored /\ filled.archived = row.archived
      /\ (row.total # Null => filled.total = row.total)
  BY <1>1 DEF Row
<1> QED BY <1>1, <1>2, <1>3 DEF Filled

\* What a reading makes of a row: the same file, flagged when it needs a review.
LEMMA OcrRows ==
  ASSUME NEW c \in Call, c.row \in Row, NEW out \in OcrResults(c)
  PROVE  /\ out.row \in Row /\ out.match \in BOOLEAN /\ out.flag \in BOOLEAN
         /\ out.row.content = c.row.content /\ out.row.stored = c.row.stored
         /\ out.row.archived = c.row.archived
         /\ out.row.needsReview => out.flag
         /\ c.row.total # Null => out.row.total = c.row.total
<1>1. CASE out = [row |-> Unread(c.row), match |-> FALSE, flag |-> TRUE]
  <2>1. PICK row : row = Unread(c.row) OBVIOUS
  <2>2. row \in Row /\ row.content = c.row.content /\ row.stored = c.row.stored
        /\ row.archived = c.row.archived /\ row.total = c.row.total
    BY <2>1 DEF Unread, Row
  <2> QED BY <1>1, <2>1, <2>2
<1>2. ASSUME NEW g \in Readings[c.row.content],
             out = [row |-> Read(c.row, g), match |-> TRUE, flag |-> Read(c.row, g).needsReview]
      PROVE  /\ out.row \in Row /\ out.match \in BOOLEAN /\ out.flag \in BOOLEAN
             /\ out.row.content = c.row.content /\ out.row.stored = c.row.stored
             /\ out.row.archived = c.row.archived
             /\ out.row.needsReview => out.flag
             /\ c.row.total # Null => out.row.total = c.row.total
  <2>1. c.row.content \in Contents BY DEF Row
  <2>2. g \in Reading BY <1>2, <2>1, DocumentsAssumption
  <2>3. PICK filled : filled = Filled(c.row, g) OBVIOUS
  <2>4. PICK row : row = Read(c.row, g) OBVIOUS
  <2>5. filled \in Row /\ filled.content = c.row.content /\ filled.stored = c.row.stored
        /\ filled.archived = c.row.archived /\ (c.row.total # Null => filled.total = c.row.total)
    BY <2>2, <2>3, FilledRow
  <2>10. PICK unsure \in BOOLEAN : unsure = (filled.total = Null \/ ~g.sure) OBVIOUS
  <2>7. row = [filled EXCEPT !.ocr = "processed", !.needsReview = unsure]
    BY <2>3, <2>4, <2>10 DEF Read
  <2>8. row \in Row /\ row.content = filled.content /\ row.stored = filled.stored
        /\ row.archived = filled.archived /\ row.total = filled.total
    BY <2>5, <2>7 DEF Row
  <2>9. row.needsReview \in BOOLEAN BY <2>8 DEF Row
  <2> QED BY <1>2, <2>4, <2>5, <2>8, <2>9
<1> QED BY <1>1, <1>2 DEF OcrResults

\* A commit writes the columns that have changed and leaves the others.
LEMMA OverRow ==
  ASSUME NEW old \in Row, NEW new \in Row, NEW now \in Row
  PROVE  /\ Over(old, new, now) \in Row
         /\ \A f \in {"content", "stored", "archived", "total", "needsReview", "byHand"} :
              Over(old, new, now)[f] = IF new[f] = old[f] THEN now[f] ELSE new[f]
<1>1. PICK row : row = Over(old, new, now) OBVIOUS
<1>2. DOMAIN now = {"content", "created", "date", "merchant", "total", "vat", "stored", "archived",
                    "ocr", "needsReview", "byHand"}
  BY DEF Row
<1>3. row = [f \in DOMAIN now |-> IF new[f] = old[f] THEN now[f] ELSE new[f]] BY <1>1 DEF Over
<1>4. row \in Row BY <1>2, <1>3 DEF Row
<1>5. \A f \in DOMAIN now : row[f] = IF new[f] = old[f] THEN now[f] ELSE new[f] BY <1>3
<1> QED BY <1>1, <1>2, <1>4, <1>5

\* Fields that are entered: the same file, and a review that is no longer needed once there
\* is a total.
LEMMA EnteredRow ==
  ASSUME NEW row \in Row, NEW f, f.total \in Int \cup {Null}, f.date \in Nat \cup {Null},
         f.merchant \in Merchants, f.vat \in Nat \cup {Null}
  PROVE  /\ Entered(row, f) \in Row
         /\ Entered(row, f).content = row.content /\ Entered(row, f).stored = row.stored
         /\ Entered(row, f).archived = row.archived
         /\ Entered(row, f).byHand = row.byHand
         /\ Entered(row, f).needsReview = IF Entered(row, f).total = Null THEN row.needsReview ELSE FALSE
<1>1. PICK new : new = [row EXCEPT !.merchant = IF f.merchant = Null THEN @ ELSE f.merchant,
                         !.date = IF f.date = Null THEN @ ELSE f.date,
                         !.total = IF f.total = Null THEN @ ELSE f.total,
                         !.vat = IF f.vat = Null THEN @ ELSE f.vat]
  OBVIOUS
<1>2. new \in Row BY <1>1 DEF Row
<1>3. new.content = row.content /\ new.stored = row.stored /\ new.archived = row.archived
      /\ new.byHand = row.byHand /\ new.needsReview = row.needsReview
  BY <1>1 DEF Row
<1>4. Entered(row, f) = IF new.total = Null THEN new ELSE [new EXCEPT !.needsReview = FALSE]
  BY <1>1 DEF Entered
<1> QED BY <1>2, <1>3, <1>4 DEF Row

\* A VAT amount is taken over only where there is none.
LEMMA WithVatRow ==
  ASSUME NEW row \in Row, NEW paid \in Payment
  PROVE  /\ WithVat(row, paid) \in Payment
         /\ paid.vat # Null => WithVat(row, paid) = paid
BY DEF WithVat, Row, Payment

-----------------------------------------------------------------------------
(* The table of matches.                                                    *)

\* Every set of naturals that has a member has a least one.
LEMMA LeastNumber ==
  ASSUME NEW T \in SUBSET Nat, T # {}
  PROVE  \E m \in T : \A k \in T : m <= k
<1>1. PICK R : R = OpToRel(<, Nat) OBVIOUS
<1>2. \A x, y \in Nat : x < y => <<x, y>> \in R
  BY <1>1, Zenon DEF OpToRel
<1>3. IsWellFoundedOn(R, Nat) BY <1>1, NatLessThanWellFounded, Zenon
<1>4. PICK m \in T : \A k \in T : ~(<<k, m>> \in R) BY <1>3, WFMin
<1>5. \A k \in T : ~(k < m) BY <1>2, <1>4
<1> QED BY <1>5

\* The rows of s that are in S, as far as position i, once they are known as far as f.
Kept(s, S, f, i) ==
  IF i = 0 THEN <<>> ELSE IF s[i] \in S THEN Append(f[i - 1], s[i]) ELSE f[i - 1]

\* They are known as far as n.
KeptTo(M, s, S, n) ==
  \E f \in [0..n -> Seq(S \cap M)] : \A i \in 0..n : f[i] = Kept(s, S, f, i)

\* The rows that are kept as far as any position can be told.
LEMMA KeptExists ==
  ASSUME NEW M, NEW s \in Seq(M), NEW S, NEW n \in 0..Len(s)
  PROVE  KeptTo(M, s, S, n)
<1>1. PICK Good : Good = {k \in 0..Len(s) :
        \E f \in [0..k -> Seq(S \cap M)] : \A i \in 0..k : f[i] = Kept(s, S, f, i)}
  OBVIOUS
<1>2. SUFFICES ASSUME n \notin Good PROVE FALSE BY <1>1 DEF KeptTo
<1>3. PICK T : T = (0..Len(s)) \ Good OBVIOUS
<1>9. T \in SUBSET Nat /\ T # {} BY <1>2, <1>3
<1>4. PICK k \in T : \A j \in T : k <= j BY <1>9, LeastNumber
<1>5. k \in 0..Len(s) BY <1>3
<1>6. CASE k = 0
  <2>1. PICK f : f = [i \in 0..0 |-> <<>>] OBVIOUS
  <2>2. f \in [0..0 -> Seq(S \cap M)] /\ \A i \in 0..0 : f[i] = Kept(s, S, f, i)
    BY <2>1 DEF Kept
  <2> QED BY <1>1, <1>3, <1>6, <2>2
<1>7. CASE k # 0
  <2>1. k - 1 \in Good BY <1>3, <1>4, <1>5, <1>7
  <2>2. PICK f \in [0..(k - 1) -> Seq(S \cap M)] : \A i \in 0..(k - 1) : f[i] = Kept(s, S, f, i)
    BY <1>1, <2>1
  <2>3. PICK g : g = [i \in 0..k |-> IF i = k THEN Kept(s, S, f, k) ELSE f[i]] OBVIOUS
  <2>4. k \in 1..Len(s) /\ s[k] \in M BY <1>5, <1>7
  <2>9. \A i \in 0..k : i # k => i \in 0..(k - 1) BY <2>4
  <2>5. Kept(s, S, f, k) \in Seq(S \cap M) BY <2>2, <2>4 DEF Kept
  <2>6. g \in [0..k -> Seq(S \cap M)] BY <2>2, <2>3, <2>5, <2>9
  <2>7. \A i \in 0..k : g[i] = Kept(s, S, g, i)
    <3> SUFFICES ASSUME NEW i \in 0..k PROVE g[i] = Kept(s, S, g, i) OBVIOUS
    <3>1. CASE i = k
      <4>1. k - 1 \in 0..k /\ k - 1 # k BY <2>4
      <4>2. g[k] = Kept(s, S, f, k) /\ g[k - 1] = f[k - 1] BY <2>3, <4>1, <2>4
      <4> QED BY <3>1, <4>2 DEF Kept
    <3>2. CASE i # k
      <4>1. i \in 0..(k - 1) /\ g[i] = f[i] BY <2>3, <2>9, <3>2
      <4>2. i # 0 => i - 1 \in 0..k /\ i - 1 # k BY <2>4, <4>1
      <4>3. i # 0 => g[i - 1] = f[i - 1] BY <2>3, <4>2
      <4>4. f[i] = Kept(s, S, f, i) BY <2>2, <4>1
      <4> QED BY <4>1, <4>3, <4>4 DEF Kept
    <3> QED BY <3>1, <3>2
  <2>8. k \in Good BY <1>1, <1>5, <2>6, <2>7
  <2> QED BY <1>3, <2>8
<1> QED BY <1>6, <1>7

\* Keep keeps nothing else than rows of the table that are in S.
LEMMA KeepRows ==
  ASSUME NEW M, matches \in Seq(M), NEW S
  PROVE  Keep(S) \in Seq(S \cap M)
<1>1. PICK kept : kept = CHOOSE f : f = [i \in 0..Len(matches) |->
        IF i = 0 THEN <<>>
        ELSE IF matches[i] \in S THEN Append(f[i - 1], matches[i]) ELSE f[i - 1]]
  OBVIOUS
<1>2. Keep(S) = kept[Len(matches)] BY <1>1 DEF Keep
<1>3. Len(matches) \in 0..Len(matches) OBVIOUS
<1>4. PICK f \in [0..Len(matches) -> Seq(S \cap M)] :
        \A i \in 0..Len(matches) : f[i] = Kept(matches, S, f, i)
  <2>1. KeptTo(M, matches, S, Len(matches)) BY <1>3, KeptExists
  <2> QED BY <2>1 DEF KeptTo
<1>5. f = [i \in 0..Len(matches) |->
        IF i = 0 THEN <<>>
        ELSE IF matches[i] \in S THEN Append(f[i - 1], matches[i]) ELSE f[i - 1]]
  BY <1>4 DEF Kept
<1>6. kept = [i \in 0..Len(matches) |->
        IF i = 0 THEN <<>>
        ELSE IF matches[i] \in S THEN Append(kept[i - 1], matches[i]) ELSE kept[i - 1]]
  BY <1>1, <1>5
<1>7. \A i \in 0..Len(matches) : kept[i] = Kept(matches, S, kept, i) BY <1>6 DEF Kept
<1>8. PICK T : T = {i \in 0..Len(matches) : kept[i] \notin Seq(S \cap M)} OBVIOUS
<1>9. ASSUME T # {} PROVE FALSE
  <2>8. T \in SUBSET Nat BY <1>8
  <2>1. PICK k \in T : \A j \in T : k <= j BY <1>9, <2>8, LeastNumber
  <2>2. k \in 0..Len(matches) /\ kept[k] \notin Seq(S \cap M) BY <1>8, <2>1
  <2>3. k # 0
    <3>1. ASSUME k = 0 PROVE kept[k] = <<>> BY <1>7, <2>2, <3>1 DEF Kept
    <3>2. <<>> \in Seq(S \cap M) OBVIOUS
    <3> QED BY <2>2, <3>1, <3>2
  <2>4. k - 1 \in 0..Len(matches) /\ k - 1 \notin T BY <2>1, <2>2, <2>3
  <2>5. kept[k - 1] \in Seq(S \cap M) BY <1>8, <2>4
  <2>6. matches[k] \in M BY <2>2, <2>3
  <2>7. kept[k] = Kept(matches, S, kept, k) BY <1>7, <2>2
  <2> QED BY <2>2, <2>3, <2>5, <2>6, <2>7 DEF Kept
<1> QED BY <1>2, <1>3, <1>8, <1>9

\* A table that holds only rows it has held confirms nothing new.
LEMMA FewerMatches ==
  ASSUME TablesOK, OneConfirmed, NEW S \in SUBSET ToSet(matches), matches' = Keep(S)
  PROVE  matches' \in Seq(MatchRow) /\ OneConfirmed'
<1>1. matches \in Seq(MatchRow) BY DEF TablesOK
<1>2. Keep(S) \in Seq(S \cap MatchRow) BY <1>1, KeepRows
<1>3. matches' \in Seq(MatchRow) BY <1>2
<1>4. \A i \in DOMAIN matches' : \E j \in DOMAIN matches : matches'[i] = matches[j]
  <2> SUFFICES ASSUME NEW i \in DOMAIN matches'
               PROVE \E j \in DOMAIN matches : matches'[i] = matches[j]
    OBVIOUS
  <2>1. matches'[i] \in S BY <1>2
  <2> QED BY <2>1 DEF ToSet
<1> QED BY <1>3, <1>4 DEF OneConfirmed

-----------------------------------------------------------------------------
(* Review items.                                                            *)

\* The items it are those there are, but one is opened, or those of r are resolved.
FiledAt(it, r, reason) ==
  /\ it \in [Receipts \X Reasons -> {"absent", "open", "closed"}]
  /\ it[<<r, reason>>] = "open"
  /\ \A s \in Receipts \ {r}, why \in Reasons : it[<<s, why>>] = item[<<s, why>>]

ResolvedAt(it, r, reasons) ==
  /\ it \in [Receipts \X Reasons -> {"absent", "open", "closed"}]
  /\ \A s \in Receipts \ {r}, why \in Reasons : it[<<s, why>>] = item[<<s, why>>]
  /\ \A why \in reasons : it[<<r, why>>] # "open"

\* Filing opens an item.
LEMMA FiledItems ==
  ASSUME TablesOK, NEW r \in Receipts, NEW reason \in Reasons
  PROVE  FiledAt(Filed(item, r, reason), r, reason)
<1>1. item \in [Receipts \X Reasons -> {"absent", "open", "closed"}] BY DEF TablesOK
<1>2. <<r, reason>> \in Receipts \X Reasons OBVIOUS
<1>3. PICK it : it = Filed(item, r, reason) OBVIOUS
<1>4. it \in [Receipts \X Reasons -> {"absent", "open", "closed"}] /\ it[<<r, reason>>] = "open"
      /\ \A k \in Receipts \X Reasons : it[k] = IF k = <<r, reason>> THEN "open" ELSE item[k]
  BY <1>1, <1>2, <1>3 DEF Filed
<1>5. \A s \in Receipts \ {r}, why \in Reasons : it[<<s, why>>] = item[<<s, why>>] BY <1>4
<1> QED BY <1>3, <1>4, <1>5 DEF FiledAt

\* Resolving closes those that are open.
LEMMA ResolvedItems ==
  ASSUME TablesOK, NEW r \in Receipts, NEW reasons \in SUBSET Reasons
  PROVE  ResolvedAt(Resolved(item, r, reasons), r, reasons)
<1>1. item \in [Receipts \X Reasons -> {"absent", "open", "closed"}] BY DEF TablesOK
<1>2. PICK it : it = Resolved(item, r, reasons) OBVIOUS
<1>3. it \in [Receipts \X Reasons -> {"absent", "open", "closed"}]
      /\ \A k \in Receipts \X Reasons :
           it[k] = IF k[1] = r /\ k[2] \in reasons /\ item[k] = "open" THEN "closed" ELSE item[k]
  BY <1>1, <1>2 DEF Resolved
<1>4. \A s \in Receipts \ {r}, why \in Reasons : it[<<s, why>>] = item[<<s, why>>] BY <1>3
<1>5. \A why \in reasons : it[<<r, why>>] # "open" BY <1>3
<1> QED BY <1>2, <1>3, <1>4, <1>5 DEF ResolvedAt

\* A receipt whose row changes only in whether it needs a review, or in what is in it.
LEMMA RowStep ==
  ASSUME TablesOK, NEW r \in Stored, NEW row \in Row, receipt' = [receipt EXCEPT ![r] = row],
         row.content = receipt[r].content, row.stored = receipt[r].stored,
         row.archived = receipt[r].archived
  PROVE  /\ receipt' \in [Receipts -> Row \cup {NoRow}] /\ SameFiles
         /\ \A s \in Receipts \ {r} : receipt'[s] = receipt[s]
         /\ receipt'[r] = row /\ row # NoRow
BY NoRowApart DEF TablesOK, SameFiles, Stored

\* The receipts keep what they show when the one that changes does.
LEMMA OneShown ==
  ASSUME NEW r \in Receipts,
         \A s \in Receipts \ {r} : /\ receipt'[s] = receipt[s]
                                   /\ \A why \in Reasons : item'[<<s, why>>] = item[<<s, why>>],
         Shown(r) => Shown(r)'
  PROVE  StaysShown
<1> SUFFICES ASSUME NEW s \in Receipts, Shown(s), s # r PROVE Shown(s)'
  BY Zenon DEF StaysShown
<1>1. receipt'[s] = receipt[s] /\ \A why \in Reasons : item'[<<s, why>>] = item[<<s, why>>]
  OBVIOUS
<1> QED BY <1>1 DEF Shown, Stored

\* match
LEMMA MatchStep ==
  ASSUME TablesOK, OneConfirmed, NEW r \in Stored, Match(r)
  PROVE  TablesOK' /\ OneConfirmed' /\ SameFiles /\ SameTotals /\ SameTxns /\ SameVats /\ StaysShown
<1>1. PICK row : row = receipt[r] OBVIOUS
<1>2. row \in Row /\ r \in Receipts BY <1>1 DEF TablesOK, Stored
<1>3. PICK S : S = {m \in ToSet(matches) : m.receipt # r \/ m.status \notin {"suggested", "auto_confirmed"}}
  OBVIOUS
<1>4. PICK kept : kept = Keep(S) OBVIOUS
<1>5. PICK top : top = {x \in Candidates(row) : \A y \in Candidates(row) : Score(row, y) <= Score(row, x)}
  OBVIOUS
<1>6. PICK found : found = {x \in top : Score(row, x) >= SUGGEST_MATCH} OBVIOUS
<1>7. found \subseteq Present BY <1>5, <1>6 DEF Candidates
<1>8. kept \in Seq(MatchRow)
  <2>1. matches \in Seq(MatchRow) BY DEF TablesOK
  <2>2. Keep(S) \in Seq(S \cap MatchRow) BY <2>1, KeepRows
  <2> QED BY <1>4, <2>2
<1>9. \A i \in DOMAIN kept : \E j \in DOMAIN matches : kept[i] = matches[j]
  <2> SUFFICES ASSUME NEW i \in DOMAIN kept PROVE \E j \in DOMAIN matches : kept[i] = matches[j]
    OBVIOUS
  <2>1. matches \in Seq(MatchRow) BY DEF TablesOK
  <2>2. Keep(S) \in Seq(S \cap MatchRow) BY <2>1, KeepRows
  <2>3. kept[i] \in S BY <1>4, <2>2
  <2> QED BY <1>3, <2>3 DEF ToSet
<1>10. PICK calm : calm = [row EXCEPT !.needsReview = FALSE] OBVIOUS
<1>11. calm \in Row /\ calm.content = row.content /\ calm.stored = row.stored
       /\ calm.archived = row.archived /\ calm.total = row.total /\ calm.needsReview = FALSE
  BY <1>2, <1>10 DEF Row
<1>12. PICK bad : bad = [row EXCEPT !.needsReview = TRUE] OBVIOUS
<1>13. bad \in Row /\ bad.content = row.content /\ bad.stored = row.stored
       /\ bad.archived = row.archived /\ bad.total = row.total
  BY <1>2, <1>12 DEF Row
<1>14. row # NoRow BY <1>1 DEF Stored
<1>15. CASE found = {} /\ matches' = kept /\ receipt' = [receipt EXCEPT ![r] = bad]
            /\ item' = Filed(item, r, "receipt_unmatched") /\ UNCHANGED txn
  <2>1. /\ receipt' \in [Receipts -> Row \cup {NoRow}] /\ SameFiles
        /\ \A s \in Receipts \ {r} : receipt'[s] = receipt[s]
        /\ receipt'[r] = bad
    BY <1>1, <1>13, <1>15, RowStep
  <2>2. /\ item' \in [Receipts \X Reasons -> {"absent", "open", "closed"}]
        /\ item'[<<r, "receipt_unmatched">>] = "open"
        /\ \A s \in Receipts \ {r}, why \in Reasons : item'[<<s, why>>] = item[<<s, why>>]
    <3>1. PICK reason \in Reasons : reason = "receipt_unmatched" BY DEF Reasons
    <3>2. item' = Filed(item, r, reason) BY <1>15, <3>1
    <3>3. FiledAt(item', r, reason) BY <1>2, <3>2, FiledItems
    <3> QED BY <3>1, <3>3 DEF FiledAt
  <2>3. TablesOK' BY <1>8, <1>15, <2>1, <2>2 DEF TablesOK
  <2>4. OneConfirmed' BY <1>9, <1>15 DEF OneConfirmed
  <2>5. SameTotals BY <1>1, <1>13, <2>1 DEF SameTotals, Stored
  <2>6. SameTxns /\ SameVats BY <1>15 DEF SameTxns, SameVats
  <2>7. Shown(r)' BY <2>1, <2>2, <1>13, NoRowApart DEF Shown, Reasons, Stored
  <2>8. StaysShown BY <1>2, <2>1, <2>2, <2>7, OneShown
  <2> QED BY <2>1, <2>3, <2>4, <2>5, <2>6, <2>8
<1>16. ASSUME NEW x \in found, NEW auto \in BOOLEAN,
              matches' = Append(kept, [receipt |-> r, txn |-> x,
                                       status |-> IF auto THEN "auto_confirmed" ELSE "suggested"]),
              receipt' = IF auto THEN [receipt EXCEPT ![r] = calm] ELSE receipt,
              item' = IF auto THEN Resolved(item, r, Reasons) ELSE item,
              txn' = IF auto THEN [txn EXCEPT ![x] = WithVat(row, @)] ELSE txn
       PROVE  TablesOK' /\ OneConfirmed' /\ SameFiles /\ SameTotals /\ SameTxns /\ SameVats /\ StaysShown
  <2>1. x \in Txns /\ txn[x] \in Payment /\ txn[x] # NoRow BY <1>7, <1>16 DEF Present, TablesOK
  <2>2. PICK m : m = [receipt |-> r, txn |-> x,
                      status |-> IF auto THEN "auto_confirmed" ELSE "suggested"] OBVIOUS
  <2>3. m \in MatchRow /\ m.status # "confirmed" BY <1>2, <2>1, <2>2 DEF MatchRow
  <2>4. matches' \in Seq(MatchRow) BY <1>8, <1>16, <2>2, <2>3
  <2>5. \A i \in DOMAIN matches' : matches'[i].status = "confirmed" =>
          \E j \in DOMAIN matches : matches'[i] = matches[j]
    BY <1>8, <1>9, <1>16, <2>2, <2>3
  <2>6. OneConfirmed' BY <2>5 DEF OneConfirmed
  <2>7. CASE ~auto
    <3>1. receipt' = receipt /\ item' = item /\ txn' = txn BY <1>16, <2>7
    <3>2. TablesOK' BY <2>4, <3>1 DEF TablesOK
    <3>3. SameFiles /\ SameTotals /\ SameTxns /\ SameVats
      BY <3>1 DEF SameFiles, SameTotals, SameTxns, SameVats
    <3>4. StaysShown BY <3>1 DEF StaysShown, Shown, Stored
    <3> QED BY <2>6, <3>2, <3>3, <3>4
  <2>8. CASE auto
    <3>1. receipt' = [receipt EXCEPT ![r] = calm] /\ item' = Resolved(item, r, Reasons)
          /\ txn' = [txn EXCEPT ![x] = WithVat(row, @)]
      BY <1>16, <2>8
    <3>2. /\ receipt' \in [Receipts -> Row \cup {NoRow}] /\ SameFiles
          /\ \A s \in Receipts \ {r} : receipt'[s] = receipt[s]
          /\ receipt'[r] = calm /\ calm # NoRow
      BY <1>1, <1>11, <3>1, RowStep
    <3>3. /\ item' \in [Receipts \X Reasons -> {"absent", "open", "closed"}]
          /\ \A s \in Receipts \ {r}, why \in Reasons : item'[<<s, why>>] = item[<<s, why>>]
      <4>1. Reasons \in SUBSET Reasons OBVIOUS
    <4>2. item' = Resolved(item, r, Reasons) BY <3>1
    <4>3. ResolvedAt(item', r, Reasons) BY <1>2, <4>1, <4>2, ResolvedItems
    <4> QED BY <4>3 DEF ResolvedAt
    <3>4. PICK paid : paid = WithVat(row, txn[x]) OBVIOUS
    <3>5. paid \in Payment /\ (txn[x].vat # Null => paid = txn[x])
      BY <1>2, <2>1, <3>4, WithVatRow
    <3>6. txn' = [txn EXCEPT ![x] = paid] BY <3>1, <3>4
    <3>7. txn \in [Txns -> Payment \cup {NoRow}] BY DEF TablesOK
    <3>8. txn' \in [Txns -> Payment \cup {NoRow}] BY <2>1, <3>5, <3>6, <3>7
    <3>9. SameTxns /\ SameVats
      BY <2>1, <3>5, <3>6, <3>7, NoRowApart DEF SameTxns, SameVats, Present
    <3>10. TablesOK' BY <2>4, <3>2, <3>3, <3>8 DEF TablesOK
    <3>11. SameTotals BY <1>1, <1>11, <3>2 DEF SameTotals, Stored
    <3>12. Shown(r)' BY <1>2, <1>11, <3>2 DEF Shown, Stored
    <3>13. StaysShown BY <1>2, <3>2, <3>3, <3>12, OneShown
    <3> QED BY <2>6, <3>2, <3>9, <3>10, <3>11, <3>13
  <2> QED BY <2>7, <2>8
<1>17. [receipt EXCEPT ![r].needsReview = TRUE] = [receipt EXCEPT ![r] = bad]
       /\ [receipt EXCEPT ![r].needsReview = FALSE] = [receipt EXCEPT ![r] = calm]
  BY <1>1, <1>10, <1>12
<1>18. ASSUME NEW x \in found,
              LET auto == MatchMode = "auto" /\ Score(row, x) >= AUTO_MATCH
              IN /\ matches' = Append(kept, [receipt |-> r, txn |-> x,
                                             status |-> IF auto THEN "auto_confirmed" ELSE "suggested"])
                 /\ receipt' = IF auto THEN [receipt EXCEPT ![r].needsReview = FALSE] ELSE receipt
                 /\ item' = IF auto THEN Resolved(item, r, Reasons) ELSE item
                 /\ txn' = IF auto THEN [txn EXCEPT ![x] = WithVat(row, @)] ELSE txn
       PROVE  TablesOK' /\ OneConfirmed' /\ SameFiles /\ SameTotals /\ SameTxns /\ SameVats /\ StaysShown
  <2>1. PICK auto \in BOOLEAN : auto = (MatchMode = "auto" /\ Score(row, x) >= AUTO_MATCH) OBVIOUS
  <2> QED BY <1>16, <1>17, <1>18, <2>1
<1> QED
  <2>1. \/ \E x \in found :
            LET auto == MatchMode = "auto" /\ Score(row, x) >= AUTO_MATCH
            IN /\ matches' = Append(kept, [receipt |-> r, txn |-> x,
                                           status |-> IF auto THEN "auto_confirmed" ELSE "suggested"])
               /\ receipt' = IF auto THEN [receipt EXCEPT ![r].needsReview = FALSE] ELSE receipt
               /\ item' = IF auto THEN Resolved(item, r, Reasons) ELSE item
               /\ txn' = IF auto THEN [txn EXCEPT ![x] = WithVat(row, @)] ELSE txn
        \/ /\ found = {}
           /\ matches' = kept
           /\ receipt' = [receipt EXCEPT ![r].needsReview = TRUE]
           /\ item' = Filed(item, r, "receipt_unmatched")
           /\ UNCHANGED txn
    BY <1>1, <1>3, <1>4, <1>5, <1>6, Zenon DEF Match
  <2> QED BY <1>15, <1>17, <1>18, <2>1

-----------------------------------------------------------------------------
(* Originals.                                                               *)

\* As long as no receipt loses its original, no other action disturbs the files.
LEMMA FilesStay ==
  ASSUME FileInv, SameFiles, files \subseteq files', torn \subseteq torn', upload' = Null
  PROVE  FileInv'
<1>1. \A r \in Receipts : r \in Stored <=> r \in Stored' BY DEF SameFiles, Stored
<1>2. \A r \in Stored' : r \in Stored /\ receipt'[r].content = receipt[r].content
        /\ receipt'[r].stored = receipt[r].stored /\ receipt'[r].archived = receipt[r].archived
  BY <1>1 DEF SameFiles, Stored
<1>3. \A r \in Stored' : receipt'[r].stored <=> ~receipt'[r].archived BY <1>2 DEF FileInv
<1>4. \A r, s \in Stored' : receipt'[r].stored /\ receipt'[s].stored
                            /\ receipt'[r].content = receipt'[s].content => r = s
  BY <1>2 DEF FileInv
<1>5. FileKept' BY <1>2 DEF FileInv, FileKept, HasFile
<1> QED BY <1>3, <1>4, <1>5 DEF FileInv

\* A receipt that goes, or that drops its original, takes no other receipt's file along.
LEMMA OneFileGoes ==
  ASSUME FileInv, NEW r \in Stored,
         \A s \in Receipts \ {r} : receipt'[s] = receipt[s],
         receipt'[r] = NoRow \/ (~receipt'[r].stored /\ receipt'[r].archived),
         files' = IF receipt[r].stored THEN files \ {receipt[r].content} ELSE files,
         torn' = IF receipt[r].stored THEN torn \ {receipt[r].content} ELSE torn,
         upload' = Null
  PROVE  FileInv'
<1>1. \A s \in Stored' \ {r} : s \in Stored /\ receipt'[s] = receipt[s] BY DEF Stored
<1>2. r \in Stored' => ~receipt'[r].stored /\ receipt'[r].archived BY DEF Stored
<1>3. \A s \in Stored' : receipt'[s].stored <=> ~receipt'[s].archived BY <1>1, <1>2 DEF FileInv
<1>4. \A s, u \in Stored' : receipt'[s].stored /\ receipt'[u].stored
                            /\ receipt'[s].content = receipt'[u].content => s = u
  BY <1>1, <1>2 DEF FileInv
<1>5. ASSUME NEW s \in Stored', receipt'[s].stored
      PROVE  receipt'[s].content \in files' \cup torn'
  <2>1. s # r /\ s \in Stored /\ receipt'[s] = receipt[s] BY <1>1, <1>2, <1>5
  <2>2. receipt[s].content \in files \cup torn BY <1>5, <2>1 DEF FileInv, FileKept, HasFile
  <2>3. receipt[r].stored => receipt[s].content # receipt[r].content
    BY <1>5, <2>1 DEF FileInv
  <2> QED BY <2>1, <2>2, <2>3
<1>6. FileKept' BY <1>5 DEF FileKept, HasFile
<1> QED BY <1>3, <1>4, <1>6 DEF FileInv

-----------------------------------------------------------------------------
(* Confirming and deleting.                                                 *)

\* Max finds the largest, when no member is above n.
LEMMA MaxProperties ==
  ASSUME NEW n \in Nat, NEW T \in SUBSET (0..n), T # {}
  PROVE  Max(T) \in T /\ \A k \in T : k <= Max(T)
<1>1. PICK U : U = {n - k : k \in T} OBVIOUS
<1>2. U \in SUBSET Nat /\ U # {}
  <2>1. \A k \in T : n - k \in Nat OBVIOUS
  <2>2. PICK k \in T : TRUE OBVIOUS
  <2>3. n - k \in U BY <1>1
  <2> QED BY <1>1, <2>1, <2>3
<1>3. PICK m \in U : \A k \in U : m <= k BY <1>2, LeastNumber
<1>4. PICK x \in T : m = n - x BY <1>1
<1>5. \A k \in T : n - k \in U BY <1>1
<1>6. \A k \in T : x >= k BY <1>3, <1>4, <1>5
<1> QED BY <1>6 DEF Max

\* Linking confirms one transaction, and leaves the receipt no other.
LEMMA LinkedRows ==
  ASSUME TablesOK, OneConfirmed, NEW r \in Receipts, NEW x \in Txns, matches' = Linked(r, x)
  PROVE  matches' \in Seq(MatchRow) /\ OneConfirmed'
<1>1. PICK S : S = {m \in ToSet(matches) : m.receipt # r \/ m.txn = x} OBVIOUS
<1>2. PICK mine : mine = Keep(S) OBVIOUS
<1>3. PICK at : at = {i \in DOMAIN mine : mine[i].receipt = r} OBVIOUS
<1>4. mine \in Seq(MatchRow) /\ \A i \in DOMAIN mine : mine[i] \in S
  <2>1. matches \in Seq(MatchRow) BY DEF TablesOK
  <2>2. Keep(S) \in Seq(S \cap MatchRow) BY <2>1, KeepRows
  <2> QED BY <1>2, <2>2
<1>5. \A i \in DOMAIN mine : mine[i].receipt = r => mine[i].txn = x BY <1>1, <1>4
<1>6. \A i \in DOMAIN mine : \E j \in DOMAIN matches : mine[i] = matches[j]
  BY <1>1, <1>4 DEF ToSet
<1>7. PICK new : new = [receipt |-> r, txn |-> x, status |-> "confirmed"] OBVIOUS
<1>8. new \in MatchRow BY <1>7 DEF MatchRow
<1>9. matches' = IF at = {} THEN Append(mine, new) ELSE [mine EXCEPT ![Max(at)].status = "confirmed"]
  BY <1>1, <1>2, <1>3, <1>7 DEF Linked
<1>10. matches' \in Seq(MatchRow)
       /\ \A i \in DOMAIN matches' : \/ matches'[i].receipt = r /\ matches'[i].txn = x
                                     \/ matches'[i].receipt # r /\ \E j \in DOMAIN matches : matches'[i] = matches[j]
  <2>1. CASE at = {}
    <3>1. matches' = Append(mine, new) BY <1>9, <2>1
    <3>2. matches' \in Seq(MatchRow) BY <1>4, <1>8, <3>1
    <3>3. \A i \in DOMAIN matches' : matches'[i] = new \/ (i \in DOMAIN mine /\ matches'[i] = mine[i])
      BY <1>4, <3>1
    <3> QED BY <1>3, <1>6, <1>7, <2>1, <3>2, <3>3
  <2>2. CASE at # {}
    <3>1. PICK top : top = Max(at) OBVIOUS
    <3>2. Len(mine) \in Nat /\ at \in SUBSET (0..Len(mine)) BY <1>3, <1>4
    <3>3. top \in at BY <2>2, <3>1, <3>2, MaxProperties
    <3>4. top \in DOMAIN mine /\ mine[top].receipt = r /\ mine[top].txn = x BY <1>3, <1>5, <3>3
    <3>5. PICK row : row = [mine[top] EXCEPT !.status = "confirmed"] OBVIOUS
    <3>6. mine[top] \in MatchRow BY <1>4, <3>4
    <3>7. row \in MatchRow /\ row.receipt = r /\ row.txn = x BY <3>4, <3>5, <3>6 DEF MatchRow
    <3>8. matches' = [mine EXCEPT ![top] = row] BY <1>9, <2>2, <3>1, <3>5
    <3>9. matches' \in Seq(MatchRow) BY <1>4, <3>4, <3>7, <3>8
    <3>10. \A i \in DOMAIN matches' : matches'[i] = row \/ (i \in DOMAIN mine /\ matches'[i] = mine[i])
      BY <1>4, <3>8
    <3> QED BY <1>5, <1>6, <3>7, <3>9, <3>10
  <2> QED BY <2>1, <2>2
<1> QED BY <1>10 DEF OneConfirmed

\* confirm_match and attach_to_transaction
LEMMA SettleStep ==
  ASSUME TablesOK, OneConfirmed, NEW r \in Stored, NEW x \in Present, NEW drop \in BOOLEAN,
         Settle(r, x, drop)
  PROVE  /\ TablesOK' /\ OneConfirmed' /\ SameTotals /\ SameTxns /\ SameVats /\ StaysShown
         /\ Stored' = Stored
         /\ \A s \in Receipts \ {r} : receipt'[s] = receipt[s]
         /\ drop => ~receipt'[r].stored /\ receipt'[r].archived
         /\ ~drop => SameFiles
         /\ files' = IF drop /\ receipt[r].stored THEN files \ {receipt[r].content} ELSE files
<1>1. receipt[r] \in Row /\ r \in Receipts BY DEF TablesOK, Stored
<1>2. PICK row : row = [receipt[r] EXCEPT !.needsReview = FALSE] OBVIOUS
<1>3. row \in Row /\ row.content = receipt[r].content /\ row.stored = receipt[r].stored
      /\ row.archived = receipt[r].archived /\ row.total = receipt[r].total
      /\ row.needsReview = FALSE
  BY <1>1, <1>2 DEF Row
<1>4. PICK end : end = IF drop THEN Dropped(row) ELSE row OBVIOUS
<1>5. end \in Row /\ end.total = row.total /\ end.needsReview = FALSE
      /\ (drop => ~end.stored /\ end.archived) /\ (~drop => end = row)
  BY <1>3, <1>4 DEF Dropped, Row
<1>6. /\ matches' = Linked(r, x)
      /\ receipt' = [receipt EXCEPT ![r] = end]
      /\ files' = IF drop /\ row.stored THEN files \ {row.content} ELSE files
      /\ item' = Resolved(item, r, Reasons)
      /\ txn' = [txn EXCEPT ![x] = WithVat(row, @)]
  BY <1>2, <1>4 DEF Settle
<1>7. receipt \in [Receipts -> Row \cup {NoRow}] /\ txn \in [Txns -> Payment \cup {NoRow}]
  BY DEF TablesOK
<1>8. receipt' \in [Receipts -> Row \cup {NoRow}] /\ receipt'[r] = end
      /\ \A s \in Receipts \ {r} : receipt'[s] = receipt[s]
  BY <1>1, <1>5, <1>6, <1>7
<1>9. Stored' = Stored BY <1>5, <1>8, NoRowApart DEF Stored
<1>10. x \in Txns /\ txn[x] \in Payment BY <1>7 DEF Present
<1>11. PICK paid : paid = WithVat(row, txn[x]) OBVIOUS
<1>12. paid \in Payment /\ (txn[x].vat # Null => paid = txn[x])
  BY <1>3, <1>10, <1>11, WithVatRow
<1>13. txn' = [txn EXCEPT ![x] = paid] BY <1>6, <1>11
<1>14. txn' \in [Txns -> Payment \cup {NoRow}] /\ SameTxns /\ SameVats
  BY <1>7, <1>10, <1>12, <1>13, NoRowApart DEF SameTxns, SameVats, Present
<1>15. matches' \in Seq(MatchRow) /\ OneConfirmed' BY <1>1, <1>6, <1>10, LinkedRows
<1>16. ResolvedAt(item', r, Reasons)
  <2>1. Reasons \in SUBSET Reasons OBVIOUS
  <2> QED BY <1>1, <1>6, <2>1, ResolvedItems
<1>17. TablesOK' BY <1>8, <1>14, <1>15, <1>16 DEF TablesOK, ResolvedAt
<1>18. SameTotals BY <1>3, <1>5, <1>8 DEF SameTotals, Stored
<1>19. Shown(r)' BY <1>5, <1>8, <1>9, <1>16 DEF Shown, ResolvedAt
<1>20. StaysShown BY <1>1, <1>8, <1>16, <1>19, OneShown DEF ResolvedAt
<1>21. ~drop => SameFiles
  BY <1>3, <1>5, <1>8, <1>9 DEF SameFiles, Stored
<1> QED BY <1>3, <1>5, <1>6, <1>8, <1>9, <1>14, <1>15, <1>17, <1>18, <1>20, <1>21

\* delete
LEMMA GoneStep ==
  ASSUME TypeOK, FileInv, OneConfirmed, ReviewInv, NEW r \in Stored, Gone(r),
         call' = call, upload' = Null
  PROVE  /\ TablesOK' /\ FileInv' /\ OneConfirmed' /\ ReviewInv'
         /\ SameTxns /\ SameVats /\ Stored' = Stored \ {r}
         /\ \A s \in Stored' : receipt'[s] = receipt[s]
<1>1. r \in Receipts /\ receipt \in [Receipts -> Row \cup {NoRow}] BY DEF TypeOK, TablesOK, Stored
<1>2. /\ receipt' = [receipt EXCEPT ![r] = NoRow]
      /\ files' = IF receipt[r].stored THEN files \ {receipt[r].content} ELSE files
      /\ matches' = Without(r)
      /\ item' = Resolved(item, r, Reasons)
      /\ torn' = IF receipt[r].stored THEN torn \ {receipt[r].content} ELSE torn
      /\ loose' = IF \E t \in Callers : call[t].r = r THEN loose \cup {r} ELSE loose
      /\ txn' = txn
  BY DEF Gone
<1>3. receipt' \in [Receipts -> Row \cup {NoRow}] /\ receipt'[r] = NoRow
      /\ \A s \in Receipts \ {r} : receipt'[s] = receipt[s]
  BY <1>1, <1>2
<1>4. Stored' = Stored \ {r} /\ \A s \in Stored' : receipt'[s] = receipt[s]
  BY <1>1, <1>3 DEF Stored
<1>5. FileInv' BY <1>2, <1>3, OneFileGoes
<1>6. matches' \in Seq(MatchRow) /\ OneConfirmed'
  <2>1. PICK S : S = {m \in ToSet(matches) : m.receipt # r} OBVIOUS
  <2>2. matches' = Keep(S) BY <1>2, <2>1 DEF Without
  <2> QED BY <2>1, <2>2, FewerMatches DEF TypeOK
<1>7. ResolvedAt(item', r, Reasons)
  <2>1. Reasons \in SUBSET Reasons OBVIOUS
  <2> QED BY <1>1, <1>2, <2>1, ResolvedItems DEF TypeOK
<1>8. TablesOK' BY <1>2, <1>3, <1>6, <1>7 DEF TypeOK, TablesOK, ResolvedAt
<1>9. Shown(r)' BY <1>4, <1>7 DEF Shown, ResolvedAt
<1>10. StaysShown BY <1>1, <1>3, <1>7, <1>9, OneShown DEF ResolvedAt
<1>11. ReviewShown'
  BY <1>2, <1>10 DEF ReviewInv, ReviewShown, StaysShown, Shown
<1>12. CallsShown' BY <1>2, <1>4 DEF ReviewInv, CallsShown
<1>13. SameTxns /\ SameVats BY <1>2 DEF SameTxns, SameVats
<1> QED BY <1>4, <1>5, <1>6, <1>8, <1>11, <1>12, <1>13 DEF ReviewInv

-----------------------------------------------------------------------------
(* Steps that take nothing away.                                            *)

\* What does not touch the receipts, the transactions and the items leaves them as they are.
LEMMA SameTables ==
  ASSUME receipt' = receipt, txn' = txn, item' = item
  PROVE  SameFiles /\ SameTotals /\ SameTxns /\ SameVats /\ StaysShown
BY DEF SameFiles, SameTotals, SameTxns, SameVats, StaysShown, Shown, Stored

\* Totals and VAT amounts that stay are not changed by anybody.
LEMMA SameHands ==
  ASSUME SameTotals, SameVats
  PROVE  HandStep
BY DEF HandStep, SameTotals, SameVats

\* A step that takes no receipt, no transaction and no file away.
LEMMA QuietStep ==
  ASSUME DocInv, TablesOK', WorkOK', OneConfirmed', SameFiles, SameTxns, HandStep,
         files \subseteq files', torn \subseteq torn', loose \subseteq loose', upload' = Null,
         \A r \in Receipts \ loose' : Shown(r) => Shown(r)',
         CallsShown', sweep' = sweep \/ sweep'.stage \in {"idle", "archive"},
         owed' = owed \/ edits' # edits
  PROVE  StepOK
<1>1. FileInv' BY FilesStay DEF DocInv
<1>2. ReviewShown' BY DEF DocInv, ReviewInv, ReviewShown, Shown
<1>3. Rows' = Rows BY DEF SameFiles, SameTxns, Rows, Stored, Present
<1>4. BackedUp' BY <1>3 DEF DocInv, BackedUp
<1>5. PurgeStep BY <1>3 DEF PurgeStep
<1> QED BY <1>1, <1>2, <1>4, <1>5 DEF StepOK, DocInv, ReviewInv, TypeOK

\* One more edit.
LEMMA Edited ==
  ASSUME TypeOK, Edit
  PROVE  edits' \in Nat /\ edits' # edits
BY DEF TypeOK, WorkOK, Edit

\* A call that begins or goes on is about a receipt that is there.
LEMMA CallStep ==
  ASSUME DocInv, NEW t \in Callers, NEW c \in Call, call' = [call EXCEPT ![t] = c], Placed(c),
         c.op # "none" => c.r \in Stored, Stored' = Stored, loose \subseteq loose'
  PROVE  /\ call' \in [Callers -> Call] /\ \A u \in Callers : Placed(call'[u])
         /\ CallsShown'
<1>1. call \in [Callers -> Call] /\ \A u \in Callers : Placed(call[u])
  BY DEF DocInv, TypeOK, WorkOK
<1>2. call' \in [Callers -> Call] /\ \A u \in Callers : Placed(call'[u]) BY <1>1
<1>3. CallsShown' BY <1>1 DEF DocInv, ReviewInv, CallsShown
<1> QED BY <1>2, <1>3

\* Nobody's call.
LEMMA IdleCall == Idle \in Call /\ Placed(Idle) /\ Idle.op = "none"
BY DEF Idle, Call, Placed

\* SetStatus
LEMMA SetStatusStep ==
  ASSUME DocInv, NEW k \in DOMAIN item, NEW status \in {"open", "closed"}, SetStatus(k, status)
  PROVE  StepOK
<1>1. edits' \in Nat /\ edits' # edits BY Edited DEF SetStatus, DocInv
<1>2. item \in [Receipts \X Reasons -> {"absent", "open", "closed"}] BY DEF DocInv, TypeOK, TablesOK
<1>3. item' = [item EXCEPT ![k] = status] /\ loose' = loose \cup {k[1]} /\ upload' = Null
      /\ UNCHANGED <<receipt, txn, matches, files, call, sweep, day, owed, torn>>
  BY DEF SetStatus
<1>4. item' \in [Receipts \X Reasons -> {"absent", "open", "closed"}] BY <1>2, <1>3
<1>5. TablesOK' /\ WorkOK' BY <1>1, <1>3, <1>4 DEF DocInv, TypeOK, TablesOK, WorkOK
<1>6. OneConfirmed' BY <1>3 DEF DocInv, OneConfirmed
<1>7. SameFiles /\ SameTxns /\ SameTotals /\ SameVats
  BY <1>3 DEF SameFiles, SameTxns, SameTotals, SameVats
<1>8. \A r \in Receipts \ loose' : Shown(r) => Shown(r)'
  <2> SUFFICES ASSUME NEW r \in Receipts \ loose', Shown(r) PROVE Shown(r)' OBVIOUS
  <2>1. \A why \in Reasons : item'[<<r, why>>] = item[<<r, why>>] BY <1>2, <1>3
  <2> QED BY <1>3, <2>1 DEF Shown, Stored
<1>9. CallsShown' BY <1>3 DEF DocInv, ReviewInv, CallsShown, Stored
<1> QED BY <1>1, <1>3, <1>5, <1>6, <1>7, <1>8, <1>9, SameHands, QuietStep

\* A step that leaves the tables as they are and takes no file.
LEMMA TablesStayStep ==
  ASSUME DocInv, WorkOK', UNCHANGED <<receipt, txn, matches, item, loose>>,
         files \subseteq files', torn \subseteq torn', upload' = Null, CallsShown',
         sweep' = sweep \/ sweep'.stage \in {"idle", "archive"}, owed' = owed \/ edits' # edits
  PROVE  StepOK
<1>1. TablesOK' /\ OneConfirmed' BY DEF DocInv, TypeOK, TablesOK, OneConfirmed
<1>2. SameFiles /\ SameTotals /\ SameTxns /\ SameVats /\ StaysShown BY SameTables
<1> QED BY <1>1, <1>2, SameHands, QuietStep DEF StaysShown

\* The calls are as they were.
LEMMA SameCalls ==
  ASSUME DocInv, call' = call, Stored' = Stored, loose \subseteq loose'
  PROVE  CallsShown'
BY DEF DocInv, ReviewInv, CallsShown

\* UploadFails
LEMMA UploadFailsStep ==
  ASSUME DocInv, NEW c \in Contents, UploadFails(c)
  PROVE  StepOK
<1>1. edits' \in Nat /\ edits' # edits BY Edited DEF UploadFails, DocInv
<1>2. /\ UNCHANGED <<receipt, txn, matches, item, call, sweep, day, owed, torn, loose>>
      /\ files \subseteq files' /\ upload' = Null
  BY DEF UploadFails
<1>3. WorkOK' BY <1>1, <1>2 DEF DocInv, TypeOK, WorkOK
<1>4. Stored' = Stored BY <1>2 DEF Stored
<1>5. CallsShown' BY <1>2, <1>4, SameCalls
<1> QED BY <1>2, <1>3, <1>5, TablesStayStep

\* NextDay
LEMMA NextDayStep ==
  ASSUME DocInv, NextDay
  PROVE  StepOK
<1>1. /\ UNCHANGED <<receipt, txn, matches, item, files, call, sweep, owed, torn, loose, edits>>
      /\ day' = day + 1 /\ upload' = Null
  BY DEF NextDay
<1>2. WorkOK' BY <1>1 DEF DocInv, TypeOK, WorkOK
<1>3. Stored' = Stored BY <1>1 DEF Stored
<1>4. CallsShown' BY <1>1, <1>3, SameCalls
<1> QED BY <1>1, <1>2, <1>4, TablesStayStep

\* A run that rests.
LEMMA RestingRun ==
  ASSUME NEW d \in Nat
  PROVE  Resting(d) \in Run /\ Resting(d).stage = "idle"
BY DEF Resting, Run

\* Restart
LEMMA RestartStep ==
  ASSUME DocInv, Restart
  PROVE  StepOK
<1>1. edits' \in Nat /\ edits' # edits BY Edited DEF Restart, DocInv
<1>2. /\ UNCHANGED <<receipt, txn, matches, item, files, day, torn, loose>>
      /\ call' = [t \in Callers |-> Idle] /\ sweep' = Resting(sweep.day) /\ upload' = Null
  BY DEF Restart
<1>3. sweep.day \in Nat BY DEF DocInv, TypeOK, WorkOK, Run
<1>4. sweep' \in Run /\ sweep'.stage = "idle" BY <1>2, <1>3, RestingRun
<1>5. call' \in [Callers -> Call] /\ \A t \in Callers : Placed(call'[t]) /\ call'[t].op = "none"
  BY <1>2, IdleCall
<1>6. WorkOK' BY <1>1, <1>2, <1>4, <1>5 DEF DocInv, TypeOK, WorkOK
<1>7. CallsShown' BY <1>5 DEF CallsShown
<1> QED BY <1>1, <1>2, <1>4, <1>6, <1>7, TablesStayStep

\* OcrStart and AiStart
LEMMA StartStep ==
  ASSUME DocInv, NEW t \in Callers, NEW r \in Stored, OcrStart(t, r) \/ AiStart(t, r)
  PROVE  StepOK
<1>1. edits' \in Nat /\ edits' # edits BY Edited DEF OcrStart, AiStart, DocInv
<1>2. /\ UNCHANGED <<receipt, txn, matches, item, files, sweep, day, owed, torn, loose>>
      /\ upload' = Null
  BY DEF OcrStart, AiStart
<1>3. PICK op \in {"ocr", "ai"} :
        call' = [call EXCEPT ![t] = [op |-> op, r |-> r, row |-> receipt[r], txn |-> Null]]
  <2>1. CASE OcrStart(t, r) BY <2>1 DEF OcrStart
  <2>2. CASE AiStart(t, r) BY <2>2 DEF AiStart
  <2> QED BY <2>1, <2>2
<1>9. PICK c : c = [op |-> op, r |-> r, row |-> receipt[r], txn |-> Null] OBVIOUS
<1>4. receipt[r] \in Row /\ r \in Receipts BY DEF DocInv, TypeOK, TablesOK, Stored
<1>5. c \in Call /\ Placed(c) /\ c.r = r BY <1>4, <1>9 DEF Call, Placed
<1>6. Stored' = Stored BY <1>2 DEF Stored
<1>7. call' \in [Callers -> Call] /\ (\A u \in Callers : Placed(call'[u])) /\ CallsShown'
  BY <1>2, <1>3, <1>5, <1>6, <1>9, CallStep
<1>8. WorkOK' BY <1>1, <1>2, <1>7 DEF DocInv, TypeOK, WorkOK
<1> QED BY <1>2, <1>7, <1>8, TablesStayStep

\* Fails
LEMMA FailsStep ==
  ASSUME DocInv, NEW t \in Callers, Fails(t)
  PROVE  StepOK
<1>1. /\ UNCHANGED <<receipt, txn, matches, item, files, sweep, day, owed, torn, loose, edits>>
      /\ upload' = Null /\ call' = [call EXCEPT ![t] = Idle]
  BY DEF Fails, End
<1>2. Stored' = Stored BY <1>1 DEF Stored
<1>3. call' \in [Callers -> Call] /\ (\A u \in Callers : Placed(call'[u])) /\ CallsShown'
  BY <1>1, <1>2, IdleCall, CallStep
<1>4. WorkOK' BY <1>1, <1>3 DEF DocInv, TypeOK, WorkOK
<1> QED BY <1>1, <1>3, <1>4, TablesStayStep

\* SweepBackup
LEMMA SweepBackupStep ==
  ASSUME DocInv, SweepBackup
  PROVE  StepOK
<1>1. /\ UNCHANGED <<receipt, txn, matches, item, files, call, day, owed, torn, loose, edits>>
      /\ upload' = Null
      /\ sweep' = [sweep EXCEPT !.stage = "purge", !.saved = Rows] \/ sweep' = Resting(sweep.day)
  BY DEF SweepBackup
<1>2. sweep \in Run BY DEF DocInv, TypeOK, WorkOK
<1>3. Stored' = Stored BY <1>1 DEF Stored
<1>4. CallsShown' BY <1>1, <1>3, SameCalls
<1>5. Rows \subseteq Ids BY DEF Rows, Stored, Present, Ids
<1>6. CASE sweep' = Resting(sweep.day)
  <2>1. sweep' \in Run /\ sweep'.stage = "idle" BY <1>2, <1>6, RestingRun DEF Run
  <2>2. WorkOK' BY <1>1, <2>1 DEF DocInv, TypeOK, WorkOK
  <2> QED BY <1>1, <1>4, <2>1, <2>2, TablesStayStep
<1>7. CASE sweep' = [sweep EXCEPT !.stage = "purge", !.saved = Rows]
  <2>1. sweep' \in Run /\ sweep'.saved = Rows BY <1>2, <1>5, <1>7 DEF Run
  <2>2. TypeOK' BY <1>1, <2>1 DEF DocInv, TypeOK, TablesOK, WorkOK
  <2>3. SameFiles /\ SameTotals /\ SameTxns /\ SameVats /\ StaysShown BY <1>1, SameTables
  <2>4. FileInv' BY <1>1, <2>3, FilesStay DEF DocInv
  <2>5. OneConfirmed' BY <1>1 DEF DocInv, OneConfirmed
  <2>6. ReviewShown' BY <1>1 DEF DocInv, ReviewInv, ReviewShown, Stored
  <2>7. Rows' = Rows BY <1>1 DEF Rows, Stored, Present
  <2>8. BackedUp' BY <2>1, <2>7 DEF BackedUp
  <2>9. PurgeStep BY <1>1, <2>7 DEF PurgeStep
  <2> QED BY <1>4, <2>2, <2>3, <2>4, <2>5, <2>6, <2>8, <2>9, SameHands DEF StepOK, DocInv, ReviewInv
<1> QED BY <1>1, <1>6, <1>7

\* SweepAudit
LEMMA SweepAuditStep ==
  ASSUME DocInv, SweepAudit
  PROVE  StepOK
<1>1. /\ UNCHANGED <<receipt, txn, matches, item, files, call, day, owed, torn, loose, edits>>
      /\ upload' = Null /\ sweep' = Resting(sweep.day)
  BY DEF SweepAudit
<1>2. sweep' \in Run /\ sweep'.stage = "idle" BY <1>1, RestingRun DEF DocInv, TypeOK, WorkOK, Run
<1>3. WorkOK' BY <1>1, <1>2 DEF DocInv, TypeOK, WorkOK
<1>4. Stored' = Stored BY <1>1 DEF Stored
<1>5. CallsShown' BY <1>1, <1>4, SameCalls
<1> QED BY <1>1, <1>2, <1>3, <1>5, TablesStayStep

-----------------------------------------------------------------------------
(* Reading, matching, attaching.                                            *)

\* OcrMissing
LEMMA OcrMissingStep ==
  ASSUME DocInv, NEW r \in Stored, OcrMissing(r)
  PROVE  StepOK
<1>1. edits' \in Nat /\ edits' # edits BY Edited DEF OcrMissing, DocInv
<1>2. /\ UNCHANGED <<txn, matches, files, call, sweep, day, owed, torn, loose>> /\ upload' = Null
      /\ receipt' = [receipt EXCEPT ![r].ocr = "unread"]
      /\ item' = Filed(item, r, "low_confidence")
  BY DEF OcrMissing
<1>3. receipt[r] \in Row /\ r \in Receipts BY DEF DocInv, TypeOK, TablesOK, Stored
<1>4. PICK row : row = [receipt[r] EXCEPT !.ocr = "unread"] OBVIOUS
<1>5. row \in Row /\ row.content = receipt[r].content /\ row.stored = receipt[r].stored
      /\ row.archived = receipt[r].archived /\ row.total = receipt[r].total
  BY <1>3, <1>4 DEF Row
<1>6. receipt' = [receipt EXCEPT ![r] = row] BY <1>2, <1>4
<1>7. /\ receipt' \in [Receipts -> Row \cup {NoRow}] /\ SameFiles
      /\ \A s \in Receipts \ {r} : receipt'[s] = receipt[s]
      /\ receipt'[r] = row /\ row # NoRow
  BY <1>5, <1>6, RowStep DEF DocInv, TypeOK
<1>8. PICK why \in Reasons : why = "low_confidence" BY DEF Reasons
<1>9. FiledAt(item', r, why) BY <1>2, <1>3, <1>8, FiledItems DEF DocInv, TypeOK
<1>10. Shown(r)' BY <1>7, <1>9 DEF Shown, FiledAt, Stored
<1>11. StaysShown BY <1>3, <1>7, <1>9, <1>10, OneShown DEF FiledAt
<1>12. TablesOK' /\ WorkOK'
  BY <1>1, <1>2, <1>7, <1>9 DEF DocInv, TypeOK, TablesOK, WorkOK, FiledAt
<1>13. OneConfirmed' BY <1>2 DEF DocInv, OneConfirmed
<1>14. SameTotals /\ SameTxns /\ SameVats
  BY <1>2, <1>5, <1>7 DEF SameTotals, SameTxns, SameVats, Stored
<1>15. Stored' = Stored BY <1>7 DEF SameFiles, Stored
<1>16. CallsShown' BY <1>2, <1>15, SameCalls
<1> QED BY <1>2, <1>7, <1>11, <1>12, <1>13, <1>14, <1>16, SameHands, QuietStep DEF StaysShown

\* OcrDone
LEMMA OcrDoneStep ==
  ASSUME DocInv, NEW t \in Callers, OcrDone(t)
  PROVE  StepOK
<1>1. PICK c : c = call[t] OBVIOUS
<1>2. c \in Call /\ Placed(c) BY <1>1 DEF DocInv, TypeOK, WorkOK
<1>3. c.op = "ocr" /\ UNCHANGED <<txn, matches, files, sweep, day, owed, torn, loose, edits>>
      /\ upload' = Null
  BY <1>1 DEF OcrDone
<1>4. c.row \in Row /\ c.r \in Receipts BY <1>2, <1>3 DEF Placed
<1>5. PICK out \in OcrResults(c) :
        LET now == IF c.r \in Stored THEN Over(c.row, out.row, receipt[c.r]) ELSE NoRow
            lands == c.r \in Stored \/ out.row = c.row
        IN /\ receipt' = [receipt EXCEPT ![c.r] = now]
           /\ item' = IF lands /\ out.flag THEN Filed(item, c.r, "low_confidence") ELSE item
           /\ call' = [call EXCEPT ![t] =
                IF c.r \in Stored /\ c.txn # Null THEN [@ EXCEPT !.op = "attach"]
                ELSE IF c.r \in Stored /\ out.match /\ now.total # Null THEN [@ EXCEPT !.op = "match"]
                ELSE Idle]
  BY <1>1, Zenon DEF OcrDone
<1>15. PICK now : now = IF c.r \in Stored THEN Over(c.row, out.row, receipt[c.r]) ELSE NoRow OBVIOUS
<1>16. receipt' = [receipt EXCEPT ![c.r] = now] BY <1>5, <1>15
<1>17. \/ item' = item
       \/ item' = Filed(item, c.r, "low_confidence")
  BY <1>5
<1>18. c.r \in Stored /\ out.flag => item' = Filed(item, c.r, "low_confidence") BY <1>5
<1>6. /\ out.row \in Row /\ out.row.content = c.row.content /\ out.row.stored = c.row.stored
      /\ out.row.archived = c.row.archived /\ (out.row.needsReview => out.flag)
      /\ c.row.total # Null => out.row.total = c.row.total
  BY <1>2, <1>4, OcrRows
<1>7. PICK why \in Reasons : why = "low_confidence" BY DEF Reasons
<1>8. item' = item \/ FiledAt(item', c.r, why)
  BY <1>4, <1>7, <1>17, FiledItems DEF DocInv, TypeOK
<1>9. item' \in [Receipts \X Reasons -> {"absent", "open", "closed"}]
      /\ \A s \in Receipts \ {c.r}, w \in Reasons : item'[<<s, w>>] = item[<<s, w>>]
  BY <1>8 DEF FiledAt, DocInv, TypeOK, TablesOK
<1>10. PICK next : next = IF c.r \in Stored /\ c.txn # Null THEN [c EXCEPT !.op = "attach"]
                          ELSE IF c.r \in Stored /\ out.match /\ now.total # Null THEN [c EXCEPT !.op = "match"]
                          ELSE Idle
  OBVIOUS
<1>11. call' = [call EXCEPT ![t] = next] BY <1>1, <1>5, <1>10, <1>15
<1>12. next \in Call /\ Placed(next) /\ (next.op # "none" => c.r \in Stored /\ next.r = c.r)
  <2>1. \A op \in {"attach", "match"} : [c EXCEPT !.op = op] \in Call /\ Placed([c EXCEPT !.op = op])
                                        /\ [c EXCEPT !.op = op].r = c.r
    BY <1>2, <1>4 DEF Call, Placed
  <2> QED BY <1>10, <2>1, IdleCall
<1>13. CASE c.r \notin Stored
  <2>1. receipt[c.r] = NoRow BY <1>4, <1>13 DEF Stored
  <2>2. receipt' = receipt BY <1>13, <1>15, <1>16, <2>1 DEF DocInv, TypeOK, TablesOK
  <2>3. Stored' = Stored BY <2>2 DEF Stored
  <2>4. call' \in [Callers -> Call] /\ (\A u \in Callers : Placed(call'[u])) /\ CallsShown'
    BY <1>3, <1>11, <1>12, <1>13, <2>3, CallStep
  <2>5. c.r \in loose BY <1>1, <1>3, <1>13 DEF DocInv, ReviewInv, CallsShown
  <2>6. \A r \in Receipts \ loose' : Shown(r) => Shown(r)'
    <3> SUFFICES ASSUME NEW r \in Receipts \ loose', Shown(r) PROVE Shown(r)' OBVIOUS
    <3>1. r \in Receipts \ {c.r} BY <1>3, <2>5
    <3>2. \A w \in Reasons : item'[<<r, w>>] = item[<<r, w>>] BY <1>9, <3>1
    <3> QED BY <2>2, <2>3, <3>2 DEF Shown
  <2>7. TablesOK' /\ WorkOK'
    BY <1>3, <1>9, <2>2, <2>4 DEF DocInv, TypeOK, TablesOK, WorkOK
  <2>8. OneConfirmed' BY <1>3 DEF DocInv, OneConfirmed
  <2>9. SameFiles /\ SameTotals /\ SameTxns /\ SameVats
    BY <1>3, <2>2 DEF SameFiles, SameTotals, SameTxns, SameVats
  <2> QED BY <1>3, <2>4, <2>6, <2>7, <2>8, <2>9, SameHands, QuietStep
<1>14. CASE c.r \in Stored
  <2>1. c.r \in Stored /\ receipt[c.r] \in Row
    BY <1>14 DEF DocInv, TypeOK, TablesOK, Stored
  <2>2. now \in Row /\ \A f \in {"content", "stored", "archived", "total", "needsReview", "byHand"} :
          now[f] = IF out.row[f] = c.row[f] THEN receipt[c.r][f] ELSE out.row[f]
    BY <1>4, <1>6, <1>15, <2>1, OverRow
  <2>3. now.content = receipt[c.r].content /\ now.stored = receipt[c.r].stored
        /\ now.archived = receipt[c.r].archived
    BY <1>6, <2>2
  <2>4. /\ receipt' \in [Receipts -> Row \cup {NoRow}] /\ SameFiles
        /\ \A s \in Receipts \ {c.r} : receipt'[s] = receipt[s]
        /\ receipt'[c.r] = now /\ now # NoRow
    BY <1>16, <2>1, <2>2, <2>3, RowStep DEF DocInv, TypeOK
  <2>5. Stored' = Stored BY <2>4 DEF SameFiles, Stored
  <2>6. call' \in [Callers -> Call] /\ (\A u \in Callers : Placed(call'[u])) /\ CallsShown'
    BY <1>3, <1>11, <1>12, <2>1, <2>5, CallStep
  <2>7. Shown(c.r) => Shown(c.r)'
    <3>1. CASE item' = item
      <4>1. out.flag => FiledAt(item', c.r, why)
        BY <1>4, <1>7, <1>14, <1>18, FiledItems DEF DocInv, TypeOK
      <4>2. now.needsReview => receipt[c.r].needsReview \/ out.row.needsReview BY <2>2
      <4>3. out.row.needsReview => item[<<c.r, why>>] = "open"
        BY <1>6, <3>1, <4>1 DEF FiledAt
      <4> QED BY <1>7, <2>1, <2>4, <2>5, <3>1, <4>2, <4>3 DEF Shown
    <3>2. CASE FiledAt(item', c.r, why)
      BY <1>7, <2>1, <2>5, <3>2 DEF Shown, FiledAt
    <3> QED BY <1>8, <3>1, <3>2
  <2>8. StaysShown BY <1>4, <1>9, <2>4, <2>7, OneShown
  <2>9. TablesOK' /\ WorkOK'
    BY <1>3, <1>9, <2>4, <2>6 DEF DocInv, TypeOK, TablesOK, WorkOK
  <2>10. OneConfirmed' BY <1>3 DEF DocInv, OneConfirmed
  <2>11. SameTxns /\ SameVats BY <1>3 DEF SameTxns, SameVats
  <2>12. HandStep
    <3>1. ASSUME NEW r \in Stored, receipt'[r].total # receipt[r].total
          PROVE  r = c.r /\ c.row.total = Null
      <4>1. r = c.r BY <2>4, <3>1 DEF Stored
      <4>2. out.row.total # c.row.total BY <2>2, <2>4, <3>1, <4>1
      <4> QED BY <1>6, <4>1, <4>2
    <3>2. \A r \in Stored : receipt'[r].total # receipt[r].total =>
            call[t].r = r /\ call[t].row.total = Null
      BY <1>1, <3>1
    <3> QED BY <2>11, <3>2 DEF HandStep, SameVats
  <2> QED BY <1>3, <2>4, <2>6, <2>8, <2>9, <2>10, <2>11, <2>12, QuietStep DEF StaysShown
<1> QED BY <1>13, <1>14

\* A row that is entered, with the review it needs no longer once it has a total.
LEMMA ClearedStep ==
  ASSUME DocInv, NEW r \in Stored, NEW new \in Row,
         new.content = receipt[r].content, new.stored = receipt[r].stored,
         new.archived = receipt[r].archived,
         new.needsReview = IF new.total = Null THEN receipt[r].needsReview ELSE FALSE,
         receipt' = [receipt EXCEPT ![r] = new], item' = Cleared(r, new)
  PROVE  /\ receipt' \in [Receipts -> Row \cup {NoRow}]
         /\ item' \in [Receipts \X Reasons -> {"absent", "open", "closed"}]
         /\ SameFiles /\ StaysShown /\ Stored' = Stored
         /\ \A s \in Receipts \ {r} : receipt'[s] = receipt[s]
<1>1. TablesOK /\ r \in Receipts /\ receipt[r] \in Row BY DEF DocInv, TypeOK, TablesOK, Stored
<1>2. /\ receipt' \in [Receipts -> Row \cup {NoRow}] /\ SameFiles
      /\ \A s \in Receipts \ {r} : receipt'[s] = receipt[s]
      /\ receipt'[r] = new /\ new # NoRow
  BY <1>1, RowStep
<1>3. Stored' = Stored BY <1>2 DEF SameFiles, Stored
<1>4. {"low_confidence"} \in SUBSET Reasons BY DEF Reasons
<1>5. CASE new.total = Null
  <2>1. item' = item BY <1>5 DEF Cleared
  <2>2. Shown(r) => Shown(r)' BY <1>2, <1>3, <1>5, <2>1 DEF Shown
  <2>3. StaysShown BY <1>1, <1>2, <2>1, <2>2, OneShown
  <2> QED BY <1>1, <1>2, <1>3, <2>1, <2>3 DEF TablesOK
<1>6. CASE new.total # Null
  <2>1. PICK reasons \in SUBSET Reasons : reasons = {"low_confidence"} BY <1>4
  <2>2. item' = Resolved(item, r, reasons) BY <1>6, <2>1 DEF Cleared
  <2>3. ResolvedAt(item', r, reasons) BY <1>1, <2>2, ResolvedItems
  <2>4. Shown(r)' BY <1>2, <1>3, <1>6 DEF Shown
  <2>5. StaysShown BY <1>1, <1>2, <2>3, <2>4, OneShown DEF ResolvedAt
  <2> QED BY <1>2, <1>3, <2>3, <2>5 DEF ResolvedAt
<1> QED BY <1>5, <1>6

\* AiDone
LEMMA AiDoneStep ==
  ASSUME DocInv, NEW t \in Callers, AiDone(t)
  PROVE  StepOK
<1>1. PICK c : c = call[t] OBVIOUS
<1>2. c \in Call /\ Placed(c) BY <1>1 DEF DocInv, TypeOK, WorkOK
<1>3. c.op = "ai" /\ c.r \in Stored /\ upload' = Null
      /\ UNCHANGED <<txn, matches, files, sweep, day, owed, torn, loose, edits>>
  BY <1>1 DEF AiDone
<1>4. c.row \in Row /\ receipt[c.r] \in Row
  BY <1>2, <1>3 DEF Placed, DocInv, TypeOK, TablesOK, Stored
<1>5. PICK g \in Readings[c.row.content] :
        LET new == [Entered(receipt[c.r], [g EXCEPT !.vat = Null]) EXCEPT !.byHand = @ /\ g.total = Null]
        IN /\ receipt' = [receipt EXCEPT ![c.r] = new]
           /\ item' = Cleared(c.r, new)
           /\ call' = [call EXCEPT ![t] = IF new.total = Null THEN Idle ELSE [@ EXCEPT !.op = "match"]]
  BY <1>1, Zenon DEF AiDone
<1>6. g \in Reading
  <2>1. c.row.content \in Contents BY <1>4 DEF Row
  <2> QED BY <1>5, <2>1, DocumentsAssumption
<1>7. PICK f : f = [g EXCEPT !.vat = Null] OBVIOUS
<1>8. f.total \in Int \cup {Null} /\ f.date \in Nat \cup {Null} /\ f.merchant \in Merchants
      /\ f.vat \in Nat \cup {Null}
  BY <1>6, <1>7 DEF Reading, Merchants
<1>9. PICK entered : entered = Entered(receipt[c.r], f) OBVIOUS
<1>10. /\ entered \in Row
       /\ entered.content = receipt[c.r].content /\ entered.stored = receipt[c.r].stored
       /\ entered.archived = receipt[c.r].archived
       /\ entered.needsReview = IF entered.total = Null THEN receipt[c.r].needsReview ELSE FALSE
  BY <1>4, <1>8, <1>9, EnteredRow
<1>11. PICK new : new = [entered EXCEPT !.byHand = @ /\ g.total = Null] OBVIOUS
<1>12. /\ new \in Row
       /\ new.content = receipt[c.r].content /\ new.stored = receipt[c.r].stored
       /\ new.archived = receipt[c.r].archived
       /\ new.needsReview = IF new.total = Null THEN receipt[c.r].needsReview ELSE FALSE
  BY <1>10, <1>11 DEF Row
<1>13. /\ receipt' = [receipt EXCEPT ![c.r] = new]
       /\ item' = Cleared(c.r, new)
       /\ call' = [call EXCEPT ![t] = IF new.total = Null THEN Idle ELSE [@ EXCEPT !.op = "match"]]
  BY <1>5, <1>7, <1>9, <1>11
<1>14. PICK r \in Stored : r = c.r BY <1>3
<1>15. /\ receipt' \in [Receipts -> Row \cup {NoRow}]
       /\ item' \in [Receipts \X Reasons -> {"absent", "open", "closed"}]
       /\ SameFiles /\ StaysShown /\ Stored' = Stored
       /\ \A s \in Receipts \ {r} : receipt'[s] = receipt[s]
  <2>1. receipt' = [receipt EXCEPT ![r] = new] /\ item' = Cleared(r, new) BY <1>13, <1>14
  <2> QED BY <1>12, <1>14, <2>1, ClearedStep
<1>16. PICK next : next = IF new.total = Null THEN Idle ELSE [c EXCEPT !.op = "match"] OBVIOUS
<1>17. next \in Call /\ Placed(next) /\ (next.op # "none" => next.r = c.r)
  <2>1. [c EXCEPT !.op = "match"] \in Call /\ Placed([c EXCEPT !.op = "match"])
        /\ [c EXCEPT !.op = "match"].r = c.r
    BY <1>2, <1>3 DEF Call, Placed, Stored
  <2> QED BY <1>16, <2>1, IdleCall
<1>18. call' = [call EXCEPT ![t] = next] BY <1>1, <1>13, <1>16
<1>19. call' \in [Callers -> Call] /\ (\A u \in Callers : Placed(call'[u])) /\ CallsShown'
  BY <1>3, <1>15, <1>17, <1>18, CallStep
<1>20. TablesOK' /\ WorkOK' BY <1>3, <1>15, <1>19 DEF DocInv, TypeOK, TablesOK, WorkOK
<1>21. OneConfirmed' BY <1>3 DEF DocInv, OneConfirmed
<1>22. SameTxns /\ SameVats BY <1>3 DEF SameTxns, SameVats
<1>23. HandStep
  <2>1. \A s \in Stored : receipt'[s].total # receipt[s].total => s = r BY <1>15 DEF Stored
  <2>2. call[t].r = r /\ call[t].op = "ai" BY <1>1, <1>3, <1>14
  <2> QED BY <1>22, <2>1, <2>2 DEF HandStep, SameVats
<1> QED BY <1>3, <1>15, <1>19, <1>20, <1>21, <1>22, <1>23, QuietStep DEF StaysShown

\* SetFields
LEMMA SetFieldsStep ==
  ASSUME DocInv, NEW r \in Stored, NEW total \in Typed, NEW vat \in Typed \cup {Null},
         SetFields(r, Entry(total, vat))
  PROVE  StepOK
<1>1. edits' \in Nat /\ edits' # edits BY Edited DEF SetFields, DocInv
<1>2. PICK f : f = Entry(total, vat) OBVIOUS
<1>3. f.total \in Int \cup {Null} /\ f.date \in Nat \cup {Null} /\ f.merchant \in Merchants
      /\ f.vat \in Nat \cup {Null}
  BY <1>2, DocumentsAssumption DEF Entry, Merchants
<1>4. UNCHANGED <<txn, matches, files, call, sweep, day, owed, torn, loose>> /\ upload' = Null
  BY DEF SetFields
<1>5. receipt[r] \in Row BY DEF DocInv, TypeOK, TablesOK, Stored
<1>6. PICK entered : entered = Entered(receipt[r], f) OBVIOUS
<1>7. /\ entered \in Row
      /\ entered.content = receipt[r].content /\ entered.stored = receipt[r].stored
      /\ entered.archived = receipt[r].archived
      /\ entered.needsReview = IF entered.total = Null THEN receipt[r].needsReview ELSE FALSE
  BY <1>3, <1>5, <1>6, EnteredRow
<1>8. PICK new : new = [entered EXCEPT !.byHand = @ \/ f.total # Null] OBVIOUS
<1>9. /\ new \in Row
      /\ new.content = receipt[r].content /\ new.stored = receipt[r].stored
      /\ new.archived = receipt[r].archived
      /\ new.needsReview = IF new.total = Null THEN receipt[r].needsReview ELSE FALSE
  BY <1>7, <1>8 DEF Row
<1>10. receipt' = [receipt EXCEPT ![r] = new] /\ item' = Cleared(r, new)
  BY <1>2, <1>6, <1>8 DEF SetFields
<1>11. /\ receipt' \in [Receipts -> Row \cup {NoRow}]
       /\ item' \in [Receipts \X Reasons -> {"absent", "open", "closed"}]
       /\ SameFiles /\ StaysShown /\ Stored' = Stored
  BY <1>9, <1>10, ClearedStep
<1>12. TablesOK' /\ WorkOK' BY <1>1, <1>4, <1>11 DEF DocInv, TypeOK, TablesOK, WorkOK
<1>13. OneConfirmed' BY <1>4 DEF DocInv, OneConfirmed
<1>14. SameTxns /\ SameVats BY <1>4 DEF SameTxns, SameVats
<1>15. HandStep BY <1>1, <1>14 DEF HandStep, SameVats
<1>16. CallsShown' BY <1>4, <1>11, SameCalls
<1> QED BY <1>1, <1>4, <1>11, <1>12, <1>13, <1>14, <1>15, <1>16, QuietStep DEF StaysShown

\* MatchAfter
LEMMA MatchAfterStep ==
  ASSUME DocInv, NEW t \in Callers, MatchAfter(t)
  PROVE  StepOK
<1>1. PICK r \in Stored : r = call[t].r BY DEF MatchAfter
<1>2. Match(r) /\ call' = [call EXCEPT ![t] = Idle] /\ upload' = Null
      /\ UNCHANGED <<files, sweep, day, owed, torn, loose, edits>>
  BY <1>1 DEF MatchAfter, End
<1>3. TablesOK' /\ OneConfirmed' /\ SameFiles /\ SameTotals /\ SameTxns /\ SameVats /\ StaysShown
  BY <1>2, MatchStep DEF DocInv, TypeOK
<1>4. Stored' = Stored BY <1>3 DEF SameFiles, Stored
<1>5. call' \in [Callers -> Call] /\ (\A u \in Callers : Placed(call'[u])) /\ CallsShown'
  BY <1>2, <1>4, IdleCall, CallStep
<1>6. WorkOK' BY <1>2, <1>5 DEF DocInv, TypeOK, WorkOK
<1> QED BY <1>2, <1>3, <1>5, <1>6, SameHands, QuietStep DEF StaysShown

\* MatchReceipt
LEMMA MatchReceiptStep ==
  ASSUME DocInv, NEW r \in Stored, MatchReceipt(r)
  PROVE  StepOK
<1>1. edits' \in Nat /\ edits' # edits BY Edited DEF MatchReceipt, DocInv
<1>2. Match(r) /\ upload' = Null /\ UNCHANGED <<files, call, sweep, day, owed, torn, loose>>
  BY DEF MatchReceipt
<1>3. TablesOK' /\ OneConfirmed' /\ SameFiles /\ SameTotals /\ SameTxns /\ SameVats /\ StaysShown
  BY <1>2, MatchStep DEF DocInv, TypeOK
<1>4. Stored' = Stored BY <1>3 DEF SameFiles, Stored
<1>5. CallsShown' BY <1>2, <1>4, SameCalls
<1>6. WorkOK' BY <1>1, <1>2 DEF DocInv, TypeOK, WorkOK
<1> QED BY <1>1, <1>2, <1>3, <1>5, <1>6, SameHands, QuietStep DEF StaysShown

\* Attach
LEMMA AttachStep ==
  ASSUME DocInv, NEW t \in Callers, Attach(t)
  PROVE  StepOK
<1>1. PICK r \in Stored, x \in Present : r = call[t].r /\ x = call[t].txn BY DEF Attach
<1>2. Settle(r, x, FALSE) /\ call' = [call EXCEPT ![t] = Idle] /\ upload' = Null
      /\ UNCHANGED <<sweep, day, owed, torn, loose, edits>>
  BY <1>1 DEF Attach, End
<1>3. /\ TablesOK' /\ OneConfirmed' /\ SameTotals /\ SameTxns /\ SameVats /\ StaysShown
      /\ Stored' = Stored /\ SameFiles
      /\ files' = files
  BY <1>2, SettleStep DEF DocInv, TypeOK
<1>4. call' \in [Callers -> Call] /\ (\A u \in Callers : Placed(call'[u])) /\ CallsShown'
  BY <1>2, <1>3, IdleCall, CallStep
<1>5. WorkOK' BY <1>2, <1>4 DEF DocInv, TypeOK, WorkOK
<1> QED BY <1>2, <1>3, <1>4, <1>5, SameHands, QuietStep DEF StaysShown

-----------------------------------------------------------------------------
(* Confirming, deleting, and what fails between a file and its commit.      *)

\* The same receipts and the same transactions.
LEMMA SameRows ==
  ASSUME DocInv, Stored' = Stored, SameTxns, sweep' = sweep, owed' = owed
  PROVE  BackedUp' /\ PurgeStep
<1>1. Rows' = Rows BY DEF SameTxns, Rows, Present
<1> QED BY <1>1 DEF DocInv, BackedUp, PurgeStep

\* ConfirmMatch
LEMMA ConfirmMatchStep ==
  ASSUME DocInv, NEW r \in Stored, NEW x \in Present, ConfirmMatch(r, x)
  PROVE  StepOK
<1>1. edits' \in Nat /\ edits' # edits BY Edited DEF ConfirmMatch, DocInv
<1>2. /\ Settle(r, x, DeleteAfter) /\ upload' = Null
      /\ torn' = IF DeleteAfter /\ receipt[r].stored THEN torn \ {receipt[r].content} ELSE torn
      /\ UNCHANGED <<call, sweep, day, owed, loose>>
  BY DEF ConfirmMatch
<1>3. DeleteAfter \in BOOLEAN BY DocumentsAssumption
<1>4. /\ TablesOK' /\ OneConfirmed' /\ SameTotals /\ SameTxns /\ SameVats /\ StaysShown
      /\ Stored' = Stored
      /\ \A s \in Receipts \ {r} : receipt'[s] = receipt[s]
      /\ DeleteAfter => ~receipt'[r].stored /\ receipt'[r].archived
      /\ ~DeleteAfter => SameFiles
      /\ files' = IF DeleteAfter /\ receipt[r].stored THEN files \ {receipt[r].content} ELSE files
  BY <1>2, <1>3, SettleStep DEF DocInv, TypeOK
<1>5. FileInv'
  <2>1. CASE DeleteAfter
    <3>1. FileInv /\ files' = (IF receipt[r].stored THEN files \ {receipt[r].content} ELSE files)
          /\ torn' = (IF receipt[r].stored THEN torn \ {receipt[r].content} ELSE torn)
      BY <1>2, <1>4, <2>1 DEF DocInv
    <3> QED BY <1>2, <1>4, <2>1, <3>1, OneFileGoes
  <2>2. CASE ~DeleteAfter BY <1>2, <1>4, <2>2, FilesStay DEF DocInv
  <2> QED BY <1>3, <2>1, <2>2
<1>6. ReviewShown' BY <1>2, <1>4 DEF DocInv, ReviewInv, ReviewShown, StaysShown, Shown
<1>7. CallsShown' BY <1>2, <1>4, SameCalls
<1>8. WorkOK' BY <1>1, <1>2 DEF DocInv, TypeOK, WorkOK
<1>9. BackedUp' /\ PurgeStep BY <1>2, <1>4, SameRows
<1>10. HandStep BY <1>4, SameHands
<1> QED BY <1>4, <1>5, <1>6, <1>7, <1>8, <1>9, <1>10 DEF StepOK, DocInv, TypeOK, ReviewInv

\* Rows that go break nothing else.
LEMMA FewerRows ==
  ASSUME DocInv, NEW r \in Stored, Gone(r), call' = call, upload' = Null
  PROVE  Rows' \subseteq Rows /\ HandStep
<1>1. SameTxns /\ SameVats /\ Stored' = Stored \ {r} /\ \A s \in Stored' : receipt'[s] = receipt[s]
  BY GoneStep DEF DocInv
<1>2. Rows' \subseteq Rows BY <1>1 DEF SameTxns, Rows, Present
<1>3. \A s \in Stored : receipt'[s] # NoRow => receipt'[s] = receipt[s] BY <1>1 DEF Stored
<1> QED BY <1>1, <1>2, <1>3 DEF HandStep, SameVats

\* Delete
LEMMA DeleteStep ==
  ASSUME DocInv, NEW r \in Stored, Delete(r)
  PROVE  StepOK
<1>1. edits' \in Nat /\ edits' # edits BY Edited DEF Delete, DocInv
<1>2. Gone(r) /\ upload' = Null /\ UNCHANGED <<call, sweep, day, owed>> BY DEF Delete
<1>3. TablesOK' /\ FileInv' /\ OneConfirmed' /\ ReviewInv' BY <1>2, GoneStep DEF DocInv
<1>4. Rows' \subseteq Rows /\ HandStep BY <1>2, FewerRows
<1>5. WorkOK' BY <1>1, <1>2 DEF DocInv, TypeOK, WorkOK
<1>6. BackedUp' BY <1>2, <1>4 DEF DocInv, BackedUp
<1>7. PurgeStep BY <1>1, <1>2 DEF PurgeStep
<1> QED BY <1>3, <1>4, <1>5, <1>6, <1>7 DEF StepOK, DocInv, TypeOK

\* A file that goes without its commit is known to be gone.
LEMMA TornFile ==
  ASSUME DocInv, NEW c, UNCHANGED <<receipt, txn, matches, item, call, loose>>,
         files' = files \ {c}, torn' = torn \cup {c}, upload' = Null
  PROVE  /\ TablesOK' /\ FileInv' /\ OneConfirmed' /\ ReviewInv' /\ HandStep
         /\ Stored' = Stored /\ SameTxns
<1>1. Stored' = Stored BY DEF Stored
<1>2. TablesOK' /\ OneConfirmed' BY DEF DocInv, TypeOK, TablesOK, OneConfirmed
<1>3. FileInv' BY <1>1 DEF DocInv, FileInv, FileKept, HasFile
<1>4. ReviewInv' BY <1>1 DEF DocInv, ReviewInv, ReviewShown, CallsShown
<1>5. HandStep /\ SameTxns BY SameTables, SameHands
<1> QED BY <1>1, <1>2, <1>3, <1>4, <1>5

\* CutShort
LEMMA CutShortStep ==
  ASSUME DocInv, NEW r \in Stored, CutShort(r)
  PROVE  StepOK
<1>1. edits' \in Nat /\ edits' # edits BY Edited DEF CutShort, DocInv
<1>2. /\ UNCHANGED <<receipt, txn, matches, item, call, sweep, day, owed, loose>>
      /\ files' = files \ {receipt[r].content} /\ torn' = torn \cup {receipt[r].content}
      /\ upload' = Null
  BY DEF CutShort
<1>3. /\ TablesOK' /\ FileInv' /\ OneConfirmed' /\ ReviewInv' /\ HandStep
      /\ Stored' = Stored /\ SameTxns
  BY <1>2, TornFile
<1>4. WorkOK' BY <1>1, <1>2 DEF DocInv, TypeOK, WorkOK
<1>5. BackedUp' /\ PurgeStep BY <1>2, <1>3, SameRows
<1> QED BY <1>3, <1>4, <1>5 DEF StepOK, DocInv, TypeOK

\* SweepCutShort
LEMMA SweepCutShortStep ==
  ASSUME DocInv, NEW r \in Receipts, SweepCutShort(r)
  PROVE  StepOK
<1>1. edits' \in Nat /\ edits' # edits BY Edited DEF SweepCutShort, DocInv
<1>2. /\ UNCHANGED <<receipt, txn, matches, item, call, day, loose>>
      /\ files' = IF receipt[r].stored THEN files \ {receipt[r].content} ELSE files
      /\ torn' = IF receipt[r].stored THEN torn \cup {receipt[r].content} ELSE torn
      /\ sweep' = Resting(sweep.day) /\ upload' = Null
  BY DEF SweepCutShort
<1>3. sweep' \in Run /\ sweep'.stage = "idle" BY <1>2, RestingRun DEF DocInv, TypeOK, WorkOK, Run
<1>4. WorkOK' BY <1>1, <1>2, <1>3 DEF DocInv, TypeOK, WorkOK
<1>5. CASE receipt[r].stored
  <2>1. files' = files \ {receipt[r].content} /\ torn' = torn \cup {receipt[r].content}
    BY <1>2, <1>5
  <2>2. TablesOK' /\ FileInv' /\ OneConfirmed' /\ ReviewInv' /\ HandStep BY <1>2, <2>1, TornFile
  <2>3. BackedUp' BY <1>3 DEF BackedUp
  <2>4. PurgeStep BY <1>1 DEF PurgeStep
  <2> QED BY <1>4, <2>2, <2>3, <2>4 DEF StepOK, DocInv, TypeOK
<1>6. CASE ~receipt[r].stored
  <2>1. files' = files /\ torn' = torn BY <1>2, <1>6
  <2>2. Stored' = Stored BY <1>2 DEF Stored
  <2>3. CallsShown' BY <1>2, <2>2, SameCalls
  <2> QED BY <1>1, <1>2, <1>3, <1>4, <2>1, <2>3, TablesStayStep
<1> QED BY <1>5, <1>6

-----------------------------------------------------------------------------
(* Rows that come.                                                          *)

\* A row that comes during a purge is known to be later than its backup.
LEMMA LaterStep ==
  ASSUME DocInv, NEW id \in Ids, Later(id), Rows' = Rows \cup {id}
  PROVE  /\ sweep' \in Run /\ BackedUp'
         /\ owed' = owed => PurgeStep
<1>1. sweep \in Run BY DEF DocInv, TypeOK, WorkOK
<1>2. CASE sweep.stage \in {"purge", "receipts"}
  <2>1. PICK late : late = sweep.late \cup {id} OBVIOUS
  <2>2. sweep' = [sweep EXCEPT !.late = late] BY <1>2, <2>1 DEF Later
  <2>3. late \in SUBSET Ids BY <1>1, <2>1 DEF Run
  <2>4. sweep' \in Run /\ sweep'.saved = sweep.saved /\ sweep'.late = late
    BY <1>1, <2>2, <2>3 DEF Run
  <2>5. Rows \subseteq sweep.saved \cup sweep.late BY <1>2 DEF DocInv, BackedUp
  <2> QED BY <2>1, <2>4, <2>5 DEF BackedUp, PurgeStep
<1>3. CASE sweep.stage \notin {"purge", "receipts"}
  <2>1. sweep' = sweep BY <1>3 DEF Later
  <2> QED BY <1>1, <1>3, <2>1 DEF BackedUp, PurgeStep
<1> QED BY <1>2, <1>3

\* A new transaction: AddTransaction, and the first commit of CreateTransaction.
LEMMA NewTxn ==
  ASSUME DocInv, NEW x \in Txns \ Present, NEW paid \in Payment, txn' = [txn EXCEPT ![x] = paid],
         UNCHANGED <<receipt, matches, item, files, torn, loose>>, upload' = Null
  PROVE  /\ TablesOK' /\ FileInv' /\ OneConfirmed' /\ ReviewShown' /\ HandStep
         /\ Stored' = Stored /\ Rows' = Rows \cup {x}
<1>1. txn \in [Txns -> Payment \cup {NoRow}] /\ txn[x] = NoRow
  BY DEF DocInv, TypeOK, TablesOK, Present
<1>2. txn' \in [Txns -> Payment \cup {NoRow}] /\ txn'[x] = paid /\ paid # NoRow
      /\ \A y \in Txns \ {x} : txn'[y] = txn[y]
  BY <1>1, NoRowApart
<1>3. TablesOK' /\ OneConfirmed' BY <1>2 DEF DocInv, TypeOK, TablesOK, OneConfirmed
<1>4. SameFiles /\ SameTotals BY DEF SameFiles, SameTotals
<1>5. FileInv' BY <1>4, FilesStay DEF DocInv
<1>6. Stored' = Stored BY DEF Stored
<1>7. ReviewShown' BY <1>6 DEF DocInv, ReviewInv, ReviewShown
<1>8. SameVats BY <1>1, <1>2 DEF SameVats, Present
<1>9. Present' = Present \cup {x} BY <1>1, <1>2 DEF Present
<1> QED BY <1>3, <1>4, <1>5, <1>6, <1>7, <1>8, <1>9, SameHands DEF Rows

\* AddTransaction
LEMMA AddTransactionStep ==
  ASSUME DocInv, NEW x \in Txns, NEW tpl \in TxnTemplates, AddTransaction(x, tpl)
  PROVE  StepOK
<1>1. edits' \in Nat /\ edits' # edits BY Edited DEF AddTransaction, DocInv
<1>2. /\ x \notin Present /\ txn' = [txn EXCEPT ![x] = tpl] /\ Later(x) /\ upload' = Null
      /\ UNCHANGED <<receipt, matches, item, files, call, day, owed, torn, loose>>
  BY DEF AddTransaction
<1>3. tpl \in Payment /\ x \in Ids BY DocumentsAssumption DEF Ids
<1>4. /\ TablesOK' /\ FileInv' /\ OneConfirmed' /\ ReviewShown' /\ HandStep
      /\ Stored' = Stored /\ Rows' = Rows \cup {x}
  BY <1>2, <1>3, NewTxn
<1>5. sweep' \in Run /\ BackedUp' /\ PurgeStep BY <1>2, <1>3, <1>4, LaterStep
<1>6. WorkOK' BY <1>1, <1>2, <1>5 DEF DocInv, TypeOK, WorkOK
<1>7. CallsShown' BY <1>2, <1>4, SameCalls
<1> QED BY <1>4, <1>5, <1>6, <1>7 DEF StepOK, DocInv, TypeOK, ReviewInv

\* CreateTransaction
LEMMA CreateTransactionStep ==
  ASSUME DocInv, NEW t \in Callers, NEW r \in Stored, NEW x \in Txns, CreateTransaction(t, r, x)
  PROVE  StepOK
<1>1. edits' \in Nat /\ edits' # edits BY Edited DEF CreateTransaction, DocInv
<1>2. PICK row : row = receipt[r] OBVIOUS
<1>3. row \in Row /\ r \in Receipts BY <1>2 DEF DocInv, TypeOK, TablesOK, Stored
<1>4. PICK new : new = [content |-> r, amount |-> -Magnitude(row.total),
                        date |-> IF row.date = Null THEN day ELSE row.date,
                        merchant |-> row.merchant, vat |-> Null, archived |-> FALSE]
  OBVIOUS
<1>5. PICK c : c = [op |-> "attach", r |-> r, row |-> NoRow, txn |-> x] OBVIOUS
<1>6. /\ x \notin Present /\ row.total # Null /\ txn' = [txn EXCEPT ![x] = new] /\ Later(x)
      /\ call' = [call EXCEPT ![t] = c] /\ upload' = Null
      /\ UNCHANGED <<receipt, matches, item, files, day, owed, torn, loose>>
  BY <1>2, <1>4, <1>5 DEF CreateTransaction
<1>7. new \in Payment
  <2>1. row.total \in Int /\ row.date \in Nat \cup {Null} /\ row.merchant \in Merchants /\ day \in Nat
    BY <1>3, <1>6 DEF Row, DocInv, TypeOK, WorkOK
  <2>2. -Magnitude(row.total) \in Int BY <2>1 DEF Magnitude
  <2>3. PICK amount \in Int : amount = -Magnitude(row.total) BY <2>2
  <2>4. new = [content |-> r, amount |-> amount,
               date |-> IF row.date = Null THEN day ELSE row.date,
               merchant |-> row.merchant, vat |-> Null, archived |-> FALSE]
    BY <1>4, <2>3
  <2> QED BY <1>3, <2>1, <2>4 DEF Payment, Merchants
<1>8. /\ TablesOK' /\ FileInv' /\ OneConfirmed' /\ ReviewShown' /\ HandStep
      /\ Stored' = Stored /\ Rows' = Rows \cup {x}
  BY <1>6, <1>7, NewTxn
<1>9. x \in Ids BY DEF Ids
<1>10. sweep' \in Run /\ BackedUp' /\ PurgeStep BY <1>6, <1>8, <1>9, LaterStep
<1>11. c \in Call /\ Placed(c) /\ c.r = r BY <1>3, <1>5 DEF Call, Placed
<1>12. call' \in [Callers -> Call] /\ (\A u \in Callers : Placed(call'[u])) /\ CallsShown'
  BY <1>6, <1>8, <1>11, CallStep
<1>13. WorkOK' BY <1>1, <1>6, <1>10, <1>12 DEF DocInv, TypeOK, WorkOK
<1> QED BY <1>8, <1>10, <1>12, <1>13 DEF StepOK, DocInv, TypeOK, ReviewInv

\* SetVat
LEMMA SetVatStep ==
  ASSUME DocInv, NEW x \in Txns, NEW v \in Typed, SetVat(x, v)
  PROVE  StepOK
<1>1. edits' \in Nat /\ edits' # edits BY Edited DEF SetVat, DocInv
<1>2. /\ x \in Present /\ txn' = [txn EXCEPT ![x].vat = v] /\ upload' = Null
      /\ UNCHANGED <<receipt, matches, item, files, call, sweep, day, owed, torn, loose>>
  BY DEF SetVat
<1>3. txn \in [Txns -> Payment \cup {NoRow}] /\ txn[x] \in Payment /\ v \in Nat
  BY <1>2, DocumentsAssumption DEF DocInv, TypeOK, TablesOK, Present
<1>4. PICK paid : paid = [txn[x] EXCEPT !.vat = v] OBVIOUS
<1>5. paid \in Payment BY <1>3, <1>4 DEF Payment
<1>6. txn' = [txn EXCEPT ![x] = paid] BY <1>2, <1>4
<1>7. txn' \in [Txns -> Payment \cup {NoRow}] /\ SameTxns
  BY <1>2, <1>3, <1>5, <1>6, NoRowApart DEF SameTxns, Present
<1>8. TablesOK' /\ OneConfirmed' BY <1>2, <1>7 DEF DocInv, TypeOK, TablesOK, OneConfirmed
<1>9. WorkOK' BY <1>1, <1>2 DEF DocInv, TypeOK, WorkOK
<1>10. Stored' = Stored /\ SameFiles BY <1>2 DEF Stored, SameFiles
<1>11. HandStep BY <1>1, <1>2 DEF HandStep
<1>12. CallsShown' BY <1>2, <1>10, SameCalls
<1>13. \A r \in Receipts \ loose' : Shown(r) => Shown(r)' BY <1>2, <1>10 DEF Shown
<1> QED BY <1>1, <1>2, <1>7, <1>8, <1>9, <1>10, <1>11, <1>12, <1>13, QuietStep

\* Transactions that go take their matches along.
LEMMA FewerTxns ==
  ASSUME DocInv, NEW X \in SUBSET Txns,
         txn' = [x \in Txns |-> IF x \in X THEN NoRow ELSE txn[x]],
         matches' = WithoutTxns(X), UNCHANGED <<receipt, item, files, torn, loose>>, upload' = Null
  PROVE  /\ TablesOK' /\ FileInv' /\ OneConfirmed' /\ ReviewShown' /\ HandStep
         /\ Stored' = Stored /\ Rows' \subseteq Rows
<1>1. txn \in [Txns -> Payment \cup {NoRow}] /\ TablesOK BY DEF DocInv, TypeOK, TablesOK
<1>2. txn' \in [Txns -> Payment \cup {NoRow}] /\ \A x \in Txns : txn'[x] \in {txn[x], NoRow}
  BY <1>1
<1>3. matches' \in Seq(MatchRow) /\ OneConfirmed'
  <2>1. PICK S : S = {m \in ToSet(matches) : m.txn \notin X} OBVIOUS
  <2>2. matches' = Keep(S) BY <2>1 DEF WithoutTxns
  <2> QED BY <1>1, <2>1, <2>2, FewerMatches DEF DocInv
<1>4. TablesOK' BY <1>1, <1>2, <1>3 DEF TablesOK
<1>5. SameFiles /\ SameTotals /\ Stored' = Stored BY DEF SameFiles, SameTotals, Stored
<1>6. FileInv' BY <1>5, FilesStay DEF DocInv
<1>7. ReviewShown' BY <1>5 DEF DocInv, ReviewInv, ReviewShown
<1>8. \A x \in Txns : txn'[x] # NoRow => txn'[x] = txn[x] BY <1>2
<1>9. HandStep BY <1>8 DEF HandStep, Present
<1>10. Rows' \subseteq Rows BY <1>5, <1>8 DEF Rows, Present
<1> QED BY <1>3, <1>4, <1>5, <1>6, <1>7, <1>9, <1>10

\* DeleteTransaction
LEMMA DeleteTransactionStep ==
  ASSUME DocInv, NEW x \in Txns, DeleteTransaction(x)
  PROVE  StepOK
<1>1. edits' \in Nat /\ edits' # edits BY Edited DEF DeleteTransaction, DocInv
<1>2. /\ txn' = [txn EXCEPT ![x] = NoRow] /\ matches' = WithoutTxns({x}) /\ upload' = Null
      /\ UNCHANGED <<receipt, item, files, call, sweep, day, owed, torn, loose>>
  BY DEF DeleteTransaction
<1>3. PICK X \in SUBSET Txns : X = {x} OBVIOUS
<1>4. txn' = [y \in Txns |-> IF y \in X THEN NoRow ELSE txn[y]]
  BY <1>2, <1>3 DEF DocInv, TypeOK, TablesOK
<1>5. /\ TablesOK' /\ FileInv' /\ OneConfirmed' /\ ReviewShown' /\ HandStep
      /\ Stored' = Stored /\ Rows' \subseteq Rows
  BY <1>2, <1>3, <1>4, FewerTxns
<1>6. CallsShown' BY <1>2, <1>5, SameCalls
<1>7. WorkOK' BY <1>1, <1>2 DEF DocInv, TypeOK, WorkOK
<1>8. BackedUp' BY <1>2, <1>5 DEF DocInv, BackedUp
<1>9. PurgeStep BY <1>1, <1>2 DEF PurgeStep
<1> QED BY <1>5, <1>6, <1>7, <1>8, <1>9 DEF StepOK, DocInv, TypeOK, ReviewInv

\* The id of a new receipt is one no receipt has.
LEMMA NewIdIsFree ==
  ASSUME NEW r, r = IF Stored = {} THEN 1 ELSE Max(Stored) + 1
  PROVE  r \notin Stored
<1>1. CASE Stored = {} BY <1>1
<1>2. CASE Stored # {}
  <2>1. MaxReceipt \in Nat /\ Stored \in SUBSET (0..MaxReceipt)
    BY DocumentsAssumption DEF Stored, Receipts
  <2>2. PICK m : m = Max(Stored) OBVIOUS
  <2>3. m \in Stored /\ \A k \in Stored : k <= m BY <1>2, <2>1, <2>2, MaxProperties
  <2>4. m + 1 \notin Stored BY <2>1, <2>3
  <2> QED BY <1>2, <2>2, <2>4
<1> QED BY <1>1, <1>2

\* Upload of a file there is no receipt of
LEMMA NewUpload ==
  ASSUME DocInv, NEW t \in Callers, NEW c \in Contents, NEW x \in Txns \cup {Null}, Upload(t, c, x),
         Same(c) = {}
  PROVE  StepOK
<1>1. edits' \in Nat /\ edits' # edits BY Edited DEF Upload, DocInv
<1>2. PICK new : new = NewReceipt(c) OBVIOUS
<1>3. PICK r \in Receipts :
        /\ r = IF Stored = {} THEN 1 ELSE Max(Stored) + 1
        /\ receipt' = [receipt EXCEPT ![r] = new]
        /\ files' = files \cup {c} /\ torn' = torn \ {c} /\ loose' = loose \ {r}
        /\ call' = [call EXCEPT ![t] = [op |-> "ocr", r |-> r, row |-> new, txn |-> x]]
        /\ Later(r) /\ upload' = c
        /\ UNCHANGED <<txn, matches, item, day, owed>>
  BY <1>2, Zenon DEF Upload
<1>4. r \notin Stored BY <1>3, NewIdIsFree
<1>5. day \in Nat BY DEF DocInv, TypeOK, WorkOK
<1>6. new \in Row /\ new.content = c /\ new.stored /\ ~new.archived /\ ~new.needsReview
  BY <1>2, <1>5 DEF NewReceipt, Row, Merchants
<1>7. receipt \in [Receipts -> Row \cup {NoRow}] BY DEF DocInv, TypeOK, TablesOK
<1>8. receipt' \in [Receipts -> Row \cup {NoRow}] /\ receipt'[r] = new /\ new # NoRow
      /\ \A s \in Receipts \ {r} : receipt'[s] = receipt[s]
  BY <1>3, <1>6, <1>7, NoRowApart
<1>9. Stored' = Stored \cup {r} /\ \A s \in Stored : s # r /\ receipt'[s] = receipt[s]
  BY <1>4, <1>8 DEF Stored
<1>10. \A s \in Stored : receipt[s].stored => receipt[s].content # c
  BY DEF Same, DocInv, FileInv
<1>11. FileInv'
  <2>1. \A s \in Stored' : receipt'[s].stored <=> ~receipt'[s].archived
    BY <1>6, <1>8, <1>9 DEF DocInv, FileInv
  <2>2. \A s, u \in Stored' : receipt'[s].stored /\ receipt'[u].stored
                              /\ receipt'[s].content = receipt'[u].content => s = u
    BY <1>6, <1>8, <1>9, <1>10 DEF DocInv, FileInv
  <2>3. \A s \in Stored' : receipt'[s].stored => receipt'[s].content \in files' \cup torn'
    <3>1. ASSUME NEW s \in Stored, receipt[s].stored PROVE receipt[s].content \in files' \cup torn'
      BY <1>3, <1>10, <3>1 DEF DocInv, FileInv, FileKept, HasFile
    <3> QED BY <1>3, <1>6, <1>8, <1>9, <3>1
  <2>4. r \in Stored' /\ receipt'[r].content = upload' /\ receipt'[r].stored /\ upload' \in files'
    BY <1>3, <1>6, <1>8, <1>9
  <2>5. FileKept' BY <2>3, <2>4 DEF FileKept, HasFile
  <2> QED BY <2>1, <2>2, <2>5 DEF FileInv
<1>12. TablesOK' /\ OneConfirmed' BY <1>3, <1>8 DEF DocInv, TypeOK, TablesOK, OneConfirmed
<1>13. ReviewShown'
  <2> SUFFICES ASSUME NEW s \in Receipts \ loose' PROVE Shown(s)' BY DEF ReviewShown, Shown
  <2>1. CASE s = r BY <1>6, <1>8, <1>9, <2>1 DEF Shown
  <2>2. CASE s # r
    <3>1. s \in Receipts \ loose BY <1>3, <2>2
    <3>2. Shown(s) BY <3>1 DEF DocInv, ReviewInv, ReviewShown, Shown
    <3> QED BY <1>3, <1>8, <1>9, <2>2, <3>2 DEF Shown
  <2> QED BY <2>1, <2>2
<1>14. PICK next : next = [op |-> "ocr", r |-> r, row |-> new, txn |-> x] OBVIOUS
<1>15. next \in Call /\ Placed(next) /\ next.r = r BY <1>6, <1>14 DEF Call, Placed
<1>16. call \in [Callers -> Call] /\ \A u \in Callers : Placed(call[u])
  BY DEF DocInv, TypeOK, WorkOK
<1>17. call' \in [Callers -> Call] /\ (\A u \in Callers : Placed(call'[u])) /\ call'[t] = next
       /\ \A u \in Callers \ {t} : call'[u] = call[u]
  BY <1>3, <1>14, <1>15, <1>16
<1>18. CallsShown'
  BY <1>3, <1>9, <1>15, <1>17 DEF DocInv, ReviewInv, CallsShown
<1>19. Rows' = Rows \cup {r} BY <1>3, <1>9 DEF Rows, Present
<1>20. r \in Ids BY DEF Ids
<1>21. sweep' \in Run /\ BackedUp' /\ PurgeStep BY <1>3, <1>19, <1>20, LaterStep
<1>22. WorkOK' BY <1>1, <1>3, <1>17, <1>21 DEF DocInv, TypeOK, WorkOK
<1>23. HandStep BY <1>1, <1>3, <1>9 DEF HandStep
<1> QED BY <1>11, <1>12, <1>13, <1>18, <1>21, <1>22, <1>23 DEF StepOK, DocInv, TypeOK, ReviewInv

\* Upload of a file there is a receipt of, with its original
LEMMA SameUpload ==
  ASSUME DocInv, NEW t \in Callers, NEW c \in Contents, NEW x \in Txns \cup {Null}, Upload(t, c, x),
         Same(c) # {}
  PROVE  StepOK
<1>1. edits' \in Nat /\ edits' # edits BY Edited DEF Upload, DocInv
<1>2. PICK found : found = CHOOSE s \in Same(c) : \A s2 \in Same(c) : s <= s2 OBVIOUS
<1>3. /\ call' = IF x = Null THEN call
                 ELSE [call EXCEPT ![t] = [op |-> "attach", r |-> found, row |-> NoRow, txn |-> x]]
      /\ UNCHANGED <<receipt, files, sweep, torn, loose, txn, matches, item, day, owed>>
      /\ upload' = c
  BY <1>2 DEF Upload
<1>4. found \in Same(c)
  <2>1. Same(c) \in SUBSET Nat BY DEF Same, Stored, Receipts
  <2>2. \E s \in Same(c) : \A s2 \in Same(c) : s <= s2 BY <2>1, LeastNumber
  <2> QED BY <1>2, <2>2
<1>5. found \in Stored /\ receipt[found].content = c /\ receipt[found].stored
  BY <1>4 DEF Same, DocInv, FileInv
<1>6. Stored' = Stored BY <1>3 DEF Stored
<1>7. call' \in [Callers -> Call] /\ (\A u \in Callers : Placed(call'[u])) /\ CallsShown'
  <2>1. CASE x = Null BY <1>3, <1>6, <2>1, SameCalls DEF DocInv, TypeOK, WorkOK
  <2>2. CASE x # Null
    <3>1. PICK next : next = [op |-> "attach", r |-> found, row |-> NoRow, txn |-> x] OBVIOUS
    <3>2. found \in Receipts BY <1>5 DEF Stored
    <3>3. next \in Call /\ Placed(next) /\ next.r = found BY <3>1, <3>2 DEF Call, Placed
    <3> QED BY <1>3, <1>5, <1>6, <2>2, <3>1, <3>3, CallStep
  <2> QED BY <2>1, <2>2
<1>8. TablesOK' /\ OneConfirmed' BY <1>3 DEF DocInv, TypeOK, TablesOK, OneConfirmed
<1>9. WorkOK' BY <1>1, <1>3, <1>7 DEF DocInv, TypeOK, WorkOK
<1>10. FileInv' BY <1>3, <1>5, <1>6 DEF DocInv, FileInv, FileKept, HasFile
<1>11. ReviewShown' BY <1>3, <1>6 DEF DocInv, ReviewInv, ReviewShown
<1>12. HandStep BY <1>1, <1>3 DEF HandStep
<1>13. SameTxns BY <1>3 DEF SameTxns
<1>14. BackedUp' /\ PurgeStep BY <1>3, <1>6, <1>13, SameRows
<1> QED BY <1>7, <1>8, <1>9, <1>10, <1>11, <1>12, <1>14 DEF StepOK, DocInv, TypeOK, ReviewInv

-----------------------------------------------------------------------------
(* Retention.                                                               *)

\* SweepStart
LEMMA SweepStartStep ==
  ASSUME DocInv, SweepStart
  PROVE  StepOK
<1>1. /\ txn' = [x \in Txns |-> IF x \in DueTxns(ArchiveAfter) THEN [txn[x] EXCEPT !.archived = TRUE] ELSE txn[x]]
      /\ sweep' = [Resting(day) EXCEPT !.stage = "archive", !.todo = {r \in Stored : ~receipt[r].archived}]
      /\ UNCHANGED <<receipt, matches, item, files, call, day, owed, torn, loose, edits>>
      /\ upload' = Null
  BY DEF SweepStart
<1>2. txn \in [Txns -> Payment \cup {NoRow}] /\ day \in Nat BY DEF DocInv, TypeOK, TablesOK, WorkOK
<1>3. \A paid \in Payment : [paid EXCEPT !.archived = TRUE] \in Payment
                            /\ [paid EXCEPT !.archived = TRUE].vat = paid.vat
  BY DEF Payment
<1>4. DueTxns(ArchiveAfter) \subseteq Present BY DEF DueTxns
<1>5. \A x \in Present : txn[x] \in Payment BY <1>2 DEF Present
<1>6. \A x \in Txns : /\ txn'[x] \in Payment \cup {NoRow}
                      /\ txn'[x] = NoRow <=> txn[x] = NoRow
                      /\ x \in Present => txn'[x].vat = txn[x].vat
  BY <1>1, <1>2, <1>3, <1>4, <1>5, NoRowApart DEF Present
<1>7. txn' \in [Txns -> Payment \cup {NoRow}] BY <1>1, <1>6
<1>8. SameTxns /\ SameVats BY <1>6 DEF SameTxns, SameVats, Present
<1>9. PICK todo \in SUBSET Receipts : todo = {r \in Stored : ~receipt[r].archived} BY DEF Stored
<1>10. sweep' = [stage |-> "archive", day |-> day, todo |-> todo, purged |-> 0, saved |-> {}, late |-> {}]
  BY <1>1, <1>9 DEF Resting
<1>11. sweep' \in Run /\ sweep'.stage = "archive" BY <1>2, <1>10 DEF Run
<1>12. TablesOK' /\ WorkOK' BY <1>1, <1>7, <1>11 DEF DocInv, TypeOK, TablesOK, WorkOK
<1>13. OneConfirmed' BY <1>1 DEF DocInv, OneConfirmed
<1>14. SameFiles /\ SameTotals /\ Stored' = Stored BY <1>1 DEF SameFiles, SameTotals, Stored
<1>15. CallsShown' BY <1>1, <1>14, SameCalls
<1>16. \A r \in Receipts \ loose' : Shown(r) => Shown(r)' BY <1>1, <1>14 DEF Shown
<1> QED BY <1>1, <1>8, <1>11, <1>12, <1>13, <1>14, <1>15, <1>16, SameHands, QuietStep

\* SweepArchive
LEMMA SweepArchiveStep ==
  ASSUME DocInv, NEW r \in Receipts, SweepArchive(r)
  PROVE  StepOK
<1>1. PICK due \in BOOLEAN : due = (r \in Stored /\ Due(r, ArchiveAfter)) OBVIOUS
<1>2. /\ sweep' = [sweep EXCEPT !.todo = IF r \in Stored THEN @ \ {r} ELSE {}]
      /\ receipt' = IF due THEN [receipt EXCEPT ![r] = Dropped(@)] ELSE receipt
      /\ files' = IF due /\ receipt[r].stored THEN files \ {receipt[r].content} ELSE files
      /\ torn' = IF due /\ receipt[r].stored THEN torn \ {receipt[r].content} ELSE torn
      /\ UNCHANGED <<txn, matches, item, call, day, owed, loose, edits>>
      /\ upload' = Null /\ sweep.stage = "archive"
  BY <1>1 DEF SweepArchive
<1>3. sweep' \in Run /\ sweep'.stage = "archive"
  <2>1. sweep \in Run BY DEF DocInv, TypeOK, WorkOK
  <2> QED BY <1>2, <2>1 DEF Run
<1>4. WorkOK' BY <1>2, <1>3 DEF DocInv, TypeOK, WorkOK
<1>5. CASE ~due
  <2>1. receipt' = receipt /\ files' = files /\ torn' = torn BY <1>2, <1>5
  <2>2. Stored' = Stored BY <2>1 DEF Stored
  <2>3. CallsShown' BY <1>2, <2>2, SameCalls
  <2> QED BY <1>2, <1>3, <1>4, <2>1, <2>3, TablesStayStep
<1>6. CASE due
  <2>1. r \in Stored /\ receipt[r] \in Row BY <1>1, <1>6 DEF DocInv, TypeOK, TablesOK, Stored
  <2>2. PICK row : row = Dropped(receipt[r]) OBVIOUS
  <2>3. row \in Row /\ ~row.stored /\ row.archived /\ row.total = receipt[r].total
        /\ row.needsReview = receipt[r].needsReview
    BY <2>1, <2>2 DEF Dropped, Row
  <2>4. receipt' = [receipt EXCEPT ![r] = row]
        /\ files' = (IF receipt[r].stored THEN files \ {receipt[r].content} ELSE files)
        /\ torn' = (IF receipt[r].stored THEN torn \ {receipt[r].content} ELSE torn)
    BY <1>2, <1>6, <2>2
  <2>5. receipt' \in [Receipts -> Row \cup {NoRow}] /\ receipt'[r] = row /\ row # NoRow
        /\ \A s \in Receipts \ {r} : receipt'[s] = receipt[s]
    BY <2>1, <2>3, <2>4, NoRowApart DEF DocInv, TypeOK, TablesOK
  <2>6. Stored' = Stored BY <2>1, <2>5 DEF Stored
  <2>7. FileInv' BY <1>2, <2>1, <2>3, <2>4, <2>5, OneFileGoes DEF DocInv
  <2>8. TablesOK' /\ OneConfirmed' BY <1>2, <2>5 DEF DocInv, TypeOK, TablesOK, OneConfirmed
  <2>9. Shown(r) => Shown(r)' BY <1>2, <2>1, <2>3, <2>5, <2>6 DEF Shown
  <2>10. StaysShown BY <1>2, <2>5, <2>9, OneShown
  <2>11. ReviewShown' BY <1>2, <2>10 DEF DocInv, ReviewInv, ReviewShown, StaysShown, Shown
  <2>12. CallsShown' BY <1>2, <2>6, SameCalls
  <2>13. SameTotals BY <2>3, <2>5 DEF SameTotals, Stored
  <2>14. SameTxns /\ SameVats BY <1>2 DEF SameTxns, SameVats
  <2>15. BackedUp' BY <1>3 DEF BackedUp
  <2>16. PurgeStep BY <1>2 DEF PurgeStep
  <2> QED BY <1>4, <2>7, <2>8, <2>11, <2>12, <2>13, <2>14, <2>15, <2>16, SameHands
          DEF StepOK, DocInv, TypeOK, ReviewInv
<1> QED BY <1>5, <1>6

\* SweepPurgeTransactions
LEMMA SweepPurgeTransactionsStep ==
  ASSUME DocInv, SweepPurgeTransactions
  PROVE  StepOK
<1>1. PICK X \in SUBSET Txns : X = DueTxns(PurgeAfter) BY DEF DueTxns, Present
<1>2. /\ sweep.stage = "purge" /\ upload' = Null
      /\ txn' = [x \in Txns |-> IF x \in X THEN NoRow ELSE txn[x]]
      /\ matches' = WithoutTxns(X)
      /\ sweep' = [sweep EXCEPT !.stage = "receipts", !.todo = Stored]
      /\ UNCHANGED <<receipt, item, files, call, day, owed, torn, loose, edits>>
  BY <1>1 DEF SweepPurgeTransactions
<1>3. /\ TablesOK' /\ FileInv' /\ OneConfirmed' /\ ReviewShown' /\ HandStep
      /\ Stored' = Stored /\ Rows' \subseteq Rows
  BY <1>2, FewerTxns
<1>4. sweep' \in Run /\ sweep'.saved = sweep.saved /\ sweep'.late = sweep.late
  <2>1. sweep \in Run BY DEF DocInv, TypeOK, WorkOK
  <2>2. PICK todo \in SUBSET Receipts : todo = Stored BY DEF Stored
  <2> QED BY <1>2, <2>1, <2>2 DEF Run
<1>5. WorkOK' BY <1>2, <1>4 DEF DocInv, TypeOK, WorkOK
<1>6. CallsShown' BY <1>2, <1>3, SameCalls
<1>7. Rows \subseteq sweep.saved \cup sweep.late BY <1>2 DEF DocInv, BackedUp
<1>8. BackedUp' BY <1>3, <1>4, <1>7 DEF BackedUp
<1>9. PurgeStep BY <1>2, <1>7 DEF PurgeStep
<1> QED BY <1>3, <1>5, <1>6, <1>8, <1>9 DEF StepOK, DocInv, TypeOK, ReviewInv

\* SweepPurgeReceipt
LEMMA SweepPurgeReceiptStep ==
  ASSUME DocInv, NEW r \in Receipts, SweepPurgeReceipt(r)
  PROVE  StepOK
<1>1. sweep.stage = "receipts" /\ r \in Stored /\ upload' = Null /\ UNCHANGED <<call, day, owed, edits>>
  BY DEF SweepPurgeReceipt
<1>2. sweep \in Run BY DEF DocInv, TypeOK, WorkOK
<1>3. Rows \subseteq sweep.saved \cup sweep.late BY <1>1 DEF DocInv, BackedUp
<1>4. PurgeStep BY <1>1, <1>3 DEF PurgeStep
<1>5. CASE Due(r, PurgeAfter)
  <2>1. Gone(r) /\ sweep' = [sweep EXCEPT !.todo = @ \ {r}, !.purged = @ + 1]
    BY <1>5 DEF SweepPurgeReceipt
  <2>2. sweep' \in Run /\ sweep'.saved = sweep.saved /\ sweep'.late = sweep.late
    <3>3. sweep.todo \in SUBSET Receipts /\ sweep.purged \in Nat BY <1>2 DEF Run
    <3>1. PICK todo \in SUBSET Receipts : todo = sweep.todo \ {r} BY <3>3
    <3>4. PICK purged \in Nat : purged = sweep.purged + 1 BY <3>3
    <3>2. sweep' = [sweep EXCEPT !.todo = todo, !.purged = purged] BY <2>1, <3>1, <3>4
    <3> QED BY <1>2, <3>2 DEF Run
  <2>3. TablesOK' /\ FileInv' /\ OneConfirmed' /\ ReviewInv' BY <1>1, <2>1, GoneStep DEF DocInv
  <2>4. Rows' \subseteq Rows /\ HandStep BY <1>1, <2>1, FewerRows
  <2>5. WorkOK' BY <1>1, <2>2 DEF DocInv, TypeOK, WorkOK
  <2>6. BackedUp' BY <1>3, <2>2, <2>4 DEF BackedUp
  <2> QED BY <1>4, <2>3, <2>4, <2>5, <2>6 DEF StepOK, DocInv, TypeOK
<1>6. CASE ~Due(r, PurgeAfter)
  <2>1. /\ sweep' = [sweep EXCEPT !.todo = @ \ {r}]
        /\ UNCHANGED <<receipt, files, matches, item, torn, loose, txn>>
    BY <1>6 DEF SweepPurgeReceipt
  <2>2. sweep' \in Run /\ sweep'.saved = sweep.saved /\ sweep'.late = sweep.late
    BY <1>2, <2>1 DEF Run
  <2>3. SameFiles /\ SameTotals /\ SameTxns /\ SameVats /\ StaysShown BY <2>1, SameTables
  <2>4. FileInv' BY <1>1, <2>1, <2>3, FilesStay DEF DocInv
  <2>5. Stored' = Stored BY <2>1 DEF Stored
  <2>6. TablesOK' /\ OneConfirmed' /\ ReviewShown'
    BY <2>1, <2>5 DEF DocInv, TypeOK, TablesOK, OneConfirmed, ReviewInv, ReviewShown
  <2>7. CallsShown' BY <1>1, <2>1, <2>5, SameCalls
  <2>8. WorkOK' BY <1>1, <2>2 DEF DocInv, TypeOK, WorkOK
  <2>9. Rows' = Rows BY <2>1, <2>5 DEF Rows, Present
  <2>10. BackedUp' BY <1>3, <2>2, <2>9 DEF BackedUp
  <2> QED BY <1>4, <2>3, <2>4, <2>6, <2>7, <2>8, <2>10, SameHands
          DEF StepOK, DocInv, TypeOK, ReviewInv
<1> QED BY <1>5, <1>6

-----------------------------------------------------------------------------
(* The whole.                                                               *)

\* Nothing is stored and nothing runs.
LEMMA InitDocInv == Init => DocInv
<1> SUFFICES ASSUME Init PROVE DocInv OBVIOUS
<1>1. Stored = {} BY DEF Init, Stored
<1>2. sweep \in Run /\ sweep.stage = "idle" BY RestingRun DEF Init
<1>3. call \in [Callers -> Call] /\ \A t \in Callers : Placed(call[t]) /\ call[t].op = "none"
  BY IdleCall DEF Init
<1>4. TypeOK
  <2>1. receipt \in [Receipts -> Row \cup {NoRow}] /\ txn \in [Txns -> Payment \cup {NoRow}]
    BY DocumentsAssumption DEF Init
  <2>2. matches \in Seq(MatchRow) /\ item \in [Receipts \X Reasons -> {"absent", "open", "closed"}]
    BY DEF Init
  <2>3. day \in Nat /\ edits \in Nat BY DEF Init
  <2> QED BY <1>2, <1>3, <2>1, <2>2, <2>3 DEF TypeOK, TablesOK, WorkOK
<1>5. FileInv
  <2>1. upload = Null BY DEF Init
  <2> QED BY <1>1, <2>1 DEF FileInv, FileKept
<1>6. OneConfirmed BY DEF Init, OneConfirmed
<1>7. ReviewInv
  <2>1. \A r \in Receipts, why \in Reasons : item[<<r, why>>] = "absent" BY DEF Init
  <2> QED BY <1>1, <1>3, <2>1 DEF ReviewInv, ReviewShown, CallsShown
<1>8. BackedUp BY <1>2 DEF BackedUp
<1> QED BY <1>4, <1>5, <1>6, <1>7, <1>8 DEF DocInv

\* A step in which nothing happens.
LEMMA Stutter ==
  ASSUME DocInv, UNCHANGED vars
  PROVE  StepOK
<1>1. UNCHANGED <<receipt, txn, matches, item, files, call, sweep, day, owed, torn, loose, upload, edits>>
  BY DEF vars
<1>2. Stored' = Stored BY <1>1 DEF Stored
<1>3. TypeOK' BY <1>1 DEF DocInv, TypeOK, TablesOK, WorkOK
<1>4. FileInv' BY <1>1, <1>2 DEF DocInv, FileInv, FileKept, HasFile
<1>5. OneConfirmed' BY <1>1 DEF DocInv, OneConfirmed
<1>6. ReviewInv' BY <1>1, <1>2 DEF DocInv, ReviewInv, ReviewShown, CallsShown
<1>7. SameTxns /\ HandStep BY <1>1, SameTables, SameHands
<1>8. BackedUp' /\ PurgeStep BY <1>1, <1>2, <1>7, SameRows
<1> QED BY <1>3, <1>4, <1>5, <1>6, <1>7, <1>8 DEF StepOK, DocInv

\* Every step keeps the invariant and does what HandKept and PurgeSafe say.
LEMMA NextStep ==
  ASSUME DocInv, [Next]_vars
  PROVE  StepOK
<1>1. ASSUME NEW t \in Callers, Long(t) PROVE StepOK
  <2>1. ASSUME NEW c \in Contents, NEW x \in Txns \cup {Null}, Upload(t, c, x) PROVE StepOK
    BY <2>1, NewUpload, SameUpload
  <2>2. ASSUME NEW r \in Stored, OcrStart(t, r) \/ AiStart(t, r) PROVE StepOK BY <2>2, StartStep
  <2>3. ASSUME NEW r \in Stored, NEW x \in Txns, CreateTransaction(t, r, x) PROVE StepOK
    BY <2>3, CreateTransactionStep
  <2>4. CASE OcrDone(t) BY <2>4, OcrDoneStep
  <2>5. CASE AiDone(t) BY <2>5, AiDoneStep
  <2>6. CASE MatchAfter(t) BY <2>6, MatchAfterStep
  <2>7. CASE Attach(t) BY <2>7, AttachStep
  <2>8. CASE Fails(t) BY <2>8, FailsStep
  <2> QED BY <1>1, <2>1, <2>2, <2>3, <2>4, <2>5, <2>6, <2>7, <2>8 DEF Long
<1>2. ASSUME NEW r \in Stored, Short(r) PROVE StepOK
  <2>1. CASE OcrMissing(r) BY <2>1, OcrMissingStep
  <2>2. ASSUME NEW total \in Typed, NEW vat \in Typed \cup {Null}, SetFields(r, Entry(total, vat))
        PROVE StepOK
    BY <2>2, SetFieldsStep
  <2>3. CASE MatchReceipt(r) BY <2>3, MatchReceiptStep
  <2>4. ASSUME NEW x \in Present, ConfirmMatch(r, x) PROVE StepOK BY <2>4, ConfirmMatchStep
  <2>5. CASE Delete(r) BY <2>5, DeleteStep
  <2>6. CASE CutShort(r) BY <2>6, CutShortStep
  <2> QED BY <1>2, <2>1, <2>2, <2>3, <2>4, <2>5, <2>6 DEF Short
<1>3. ASSUME NEW c \in Contents, UploadFails(c) PROVE StepOK BY <1>3, UploadFailsStep
<1>4. ASSUME NEW x \in Txns, NEW tpl \in TxnTemplates, AddTransaction(x, tpl) PROVE StepOK
  BY <1>4, AddTransactionStep
<1>5. ASSUME NEW x \in Txns, DeleteTransaction(x) PROVE StepOK BY <1>5, DeleteTransactionStep
<1>6. ASSUME NEW x \in Txns, NEW v \in Typed, SetVat(x, v) PROVE StepOK BY <1>6, SetVatStep
<1>7. ASSUME NEW k \in DOMAIN item, NEW s \in {"open", "closed"}, SetStatus(k, s) PROVE StepOK
  BY <1>7, SetStatusStep
<1>8. CASE Sweep
  <2>1. CASE SweepStart BY <2>1, SweepStartStep
  <2>2. CASE SweepBackup BY <2>2, SweepBackupStep
  <2>3. CASE SweepPurgeTransactions BY <2>3, SweepPurgeTransactionsStep
  <2>4. CASE SweepAudit BY <2>4, SweepAuditStep
  <2>5. ASSUME NEW r \in Receipts, SweepArchive(r) PROVE StepOK BY <2>5, SweepArchiveStep
  <2>6. ASSUME NEW r \in Receipts, SweepPurgeReceipt(r) PROVE StepOK BY <2>6, SweepPurgeReceiptStep
  <2>7. ASSUME NEW r \in Receipts, SweepCutShort(r) PROVE StepOK BY <2>7, SweepCutShortStep
  <2> QED BY <1>8, <2>1, <2>2, <2>3, <2>4, <2>5, <2>6, <2>7 DEF Sweep
<1>9. CASE NextDay BY <1>9, NextDayStep
<1>10. CASE Restart BY <1>10, RestartStep
<1>11. CASE UNCHANGED vars BY <1>11, Stutter
<1> QED BY <1>1, <1>2, <1>3, <1>4, <1>5, <1>6, <1>7, <1>8, <1>9, <1>10, <1>11 DEF Next

\* The inductive invariant: types, one original of each content, one confirmed transaction,
\* reviews shown also for what is gone under a call, and a backup of all that is purged.
THEOREM DocumentsInvariant == Spec => []DocInv
<1>1. DocInv /\ [Next]_vars => DocInv' BY NextStep DEF StepOK
<1> QED BY <1>1, InitDocInv, PTL DEF Spec

\* A receipt that says it has its original has it, and an upload leaves one that does:
\* confirming, archiving, purging and deleting take no other receipt's file.
THEOREM FileTheorem == Spec => []FileKept
<1>1. DocInv => FileKept BY DEF DocInv, FileInv
<1> QED BY <1>1, DocumentsInvariant, PTL

\* A receipt that needs a review has an open item, and an open item its receipt.
THEOREM ReviewTheorem == Spec => []ReviewShown
<1>1. DocInv => ReviewShown BY DEF DocInv, ReviewInv
<1> QED BY <1>1, DocumentsInvariant, PTL

\* The confirmed matches of a receipt are of one transaction.
THEOREM MatchTheorem == Spec => []OneConfirmed
<1>1. DocInv => OneConfirmed BY DEF DocInv
<1> QED BY <1>1, DocumentsInvariant, PTL

\* What was typed in is changed by hand, by the AI extraction, or by an OCR that has begun
\* before; a VAT amount of a transaction only by hand.
THEOREM HandTheorem == Spec => HandKept
<1>1. DocInv /\ [Next]_vars => DocInv' BY NextStep DEF StepOK
<1>2. DocInv /\ [Next]_vars =>
        [/\ \A r \in Stored :
             receipt[r].byHand /\ receipt'[r] # NoRow /\ receipt'[r].total # receipt[r].total
             => \/ edits' # edits
                \/ \E t \in Callers : call[t].r = r /\ (call[t].op = "ai" \/ call[t].row.total = Null)
         /\ \A x \in Present :
             txn'[x] # NoRow /\ txn[x].vat # Null /\ txn'[x].vat # txn[x].vat
             => edits' # edits /\ receipt' = receipt]_vars
  <2>1. DocInv /\ [Next]_vars => HandStep BY NextStep DEF StepOK
  <2> QED BY <2>1 DEF HandStep
<1> QED BY <1>1, <1>2, InitDocInv, PTL DEF Spec, HandKept

\* What a purge takes was in its backup or came later, and what it took is audited.
THEOREM PurgeTheorem == Spec => PurgeSafe
<1>1. DocInv /\ [Next]_vars => DocInv' BY NextStep DEF StepOK
<1>2. DocInv /\ [Next]_vars =>
        [/\ sweep.stage \in {"purge", "receipts"} /\ edits' = edits
              => Rows \ Rows' \subseteq sweep.saved \cup sweep.late
         /\ owed' # owed => edits' # edits]_vars
  <2>1. DocInv /\ [Next]_vars => PurgeStep BY NextStep DEF StepOK
  <2> QED BY <2>1 DEF PurgeStep
<1> QED BY <1>1, <1>2, InitDocInv, PTL DEF Spec, PurgeSafe

=============================================================================
