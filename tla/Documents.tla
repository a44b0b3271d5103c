------------------------------ MODULE Documents ------------------------------
(***************************************************************************)
(* Receipts from their upload to their purge: receipt_service, the review  *)
(* items of receipts (review_service), the AI extraction of routes_receipts*)
(* and the sweep of retention_service over receipts and transactions.      *)
(*                                                                         *)
(* OCR and the AI extraction take seconds: each reads the receipt, and     *)
(* commits later the columns it has changed over what the row holds by     *)
(* then.  The uploads run on the event loop, one at a time; the short calls*)
(* are steps of their own.  A file is unlinked before the commit that says *)
(* so, which may fail.                                                     *)
(***************************************************************************)
EXTENDS Integers, SequencesExt

CONSTANTS
  Callers,       \* threads
  MaxReceipt,    \* bound: receipts.id
  Txns,          \* transactions.id
  Contents,      \* files that are uploaded
  Readings,      \* Readings[c]: what OCR or a model may read on c
  TxnTemplates,  \* transactions as they are imported
  KnownTxns,     \* those there are at first
  Typed,         \* totals and VAT amounts typed in
  Similarity,    \* Similarity[m][n] in 0..20: round(20 * _vendor_similarity)
  Null,          \* NULL in a column
  MatchMode,     \* the setting receipt_match_mode: "suggest" or "auto"
  DeleteAfter,   \* the setting receipt_delete_after_processing
  ArchiveAfter, PurgeAfter,  \* the retention policy, in days
  MaxDay,        \* bound: days that pass
  MaxEdits       \* bound: what is uploaded, typed, clicked, or fails

AUTO_MATCH == 90
SUGGEST_MATCH == 70
DATE_WINDOW_DAYS == 10
Reasons == {"low_confidence", "receipt_unmatched"}

Receipts == 1..MaxReceipt
NoRow == [content |-> Null]
Payment == [content : Receipts \cup {Null}, amount : Int, date : Int, merchant : DOMAIN Similarity \cup {Null},
            vat : Nat \cup {Null}, archived : BOOLEAN]
Reading == [total : Int \cup {Null}, date : Nat \cup {Null}, merchant : DOMAIN Similarity \cup {Null},
            vat : Nat \cup {Null}, sure : BOOLEAN]

ASSUME DocumentsAssumption ==
  /\ MaxReceipt \in Nat /\ MaxDay \in Nat /\ MaxEdits \in Nat
  /\ ArchiveAfter \in Nat /\ PurgeAfter \in Nat /\ ArchiveAfter <= PurgeAfter
  /\ Null \notin Int /\ Typed \subseteq Nat
  /\ \A c \in Contents : Readings[c] \subseteq Reading
  /\ KnownTxns \in [Txns -> Payment \cup {NoRow}] /\ TxnTemplates \subseteq Payment
  /\ MatchMode \in {"suggest", "auto"} /\ DeleteAfter \in BOOLEAN

VARIABLES
  receipt,  \* receipt[r]: row r, or NoRow
  txn,      \* txn[x]: the transaction, or NoRow
  matches,  \* the transaction_receipt_matches table
  item,     \* item[<<r, reason>>]: "absent", "open" or "closed" (resolved, ignored)
  files,    \* the contents there is a file of in the receipts directory
  call,     \* what each caller is doing
  sweep,    \* the retention run
  day,
  owed,     \* history: receipts purged whose audit row is not written and will not be
  torn,     \* history: contents whose file went with a commit that failed
  loose,    \* history: receipts whose items were moved by hand, or that went under a call
  upload,   \* history: the content of an upload, in the step it ends with
  edits

vars == <<receipt, txn, matches, item, files, call, sweep, day, owed, torn, loose, upload, edits>>

Idle == [op |-> "none", r |-> 0, row |-> NoRow, txn |-> Null]
Resting(d) == [stage |-> "idle", day |-> d, todo |-> {}, purged |-> 0, saved |-> {}, late |-> {}]

Stored == {r \in Receipts : receipt[r] # NoRow}
Present == {x \in Txns : txn[x] # NoRow}
HasFile(r) == receipt[r].stored /\ receipt[r].content \in files

Magnitude(n) == IF n < 0 THEN -n ELSE n
Larger(a, b) == IF a >= b THEN a ELSE b

Edit == edits < MaxEdits /\ edits' = edits + 1
End(t) == call' = [call EXCEPT ![t] = Idle]

\* A row stored while a purge is under way is not in its backup.
Later(id) == sweep' = IF sweep.stage \in {"purge", "receipts"}
                      THEN [sweep EXCEPT !.late = @ \cup {id}] ELSE sweep

-----------------------------------------------------------------------------
(* Review items.                                                            *)

\* add, and resolve_for: the caller commits.
Filed(it, r, reason) == [it EXCEPT ![<<r, reason>>] = "open"]
Resolved(it, r, reasons) ==
  [k \in DOMAIN it |-> IF k[1] = r /\ k[2] \in reasons /\ it[k] = "open" THEN "closed" ELSE it[k]]

\* set_status and bulk_resolve: any status can be set by hand.
SetStatus(k, status) ==
  /\ Edit /\ item[k] \notin {"absent", status}
  /\ item' = [item EXCEPT ![k] = status]
  /\ loose' = loose \cup {k[1]}
  /\ upload' = Null
  /\ UNCHANGED <<receipt, txn, matches, files, call, sweep, day, owed, torn>>

-----------------------------------------------------------------------------
(* Fields.                                                                  *)

NewReceipt(c) ==
  [content |-> c, created |-> day, date |-> Null, merchant |-> Null, total |-> Null, vat |-> Null,
   stored |-> TRUE, archived |-> FALSE, ocr |-> "not_processed", needsReview |-> FALSE,
   byHand |-> FALSE]

\* Mutant: what was read replaces what is there.
Filled_Clobbers(row, g) ==
  [row EXCEPT !.merchant = g.merchant, !.date = g.date, !.total = g.total, !.vat = g.vat]

\* _apply_extracted_fields: what is there is not clobbered.
Filled(row, g) ==
  [row EXCEPT !.merchant = IF @ = Null THEN g.merchant ELSE @,
              !.date = IF @ = Null THEN g.date ELSE @,
              !.total = IF @ = Null THEN g.total ELSE @,
              !.vat = IF @ = Null THEN g.vat ELSE @]

\* run_ocr with what came of it: nothing could read the file or the engine failed
\* ("skipped" and "failed", here "unread"), or a reading (_finalise_ocr_confidence).
Unread(row) == [row EXCEPT !.ocr = "unread", !.needsReview = TRUE]
Read(row, g) ==
  LET filled == Filled(row, g)
  IN [filled EXCEPT !.ocr = "processed", !.needsReview = filled.total = Null \/ ~g.sure]

\* The columns that changed since old was read, over the row as it is now.
Over(old, new, now) == [f \in DOMAIN now |-> IF new[f] = old[f] THEN now[f] ELSE new[f]]

-----------------------------------------------------------------------------
(* Matching.                                                                *)

\* score_match
Score(row, x) ==
  LET r == Magnitude(row.total) t == Magnitude(txn[x].amount)
      apart == Magnitude(r - t)
      days == Magnitude(row.date - txn[x].date)
      amount == IF row.total = Null THEN 0 ELSE IF apart = 0 THEN 50
                ELSE IF apart <= Larger(50, t \div 100) THEN 35 ELSE 0
      proximity == IF row.date = Null THEN 0 ELSE IF days = 0 THEN 20
                   ELSE IF days <= 1 THEN 16 ELSE IF days <= 3 THEN 12 ELSE IF days <= 7 THEN 6 ELSE 0
      vendor == IF Null \in {row.merchant, txn[x].merchant} THEN 0
                ELSE Similarity[row.merchant][txn[x].merchant]
  IN amount + proximity + vendor

\* _candidates
Candidates(row) ==
  {x \in Present : /\ ~txn[x].archived
                   /\ row.date # Null => Magnitude(row.date - txn[x].date) <= DATE_WINDOW_DAYS}

\* _propagate_vat: a VAT amount that is there stays.
WithVat(row, paid) == IF row.vat # Null /\ paid.vat = Null THEN [paid EXCEPT !.vat = row.vat] ELSE paid

\* The rows of matches that are in S, in the order of their ids.
Keep(S) ==
  LET kept[i \in 0..Len(matches)] ==
        IF i = 0 THEN <<>>
        ELSE IF matches[i] \in S THEN Append(kept[i - 1], matches[i]) ELSE kept[i - 1]
  IN kept[Len(matches)]

\* match: the suggestions of before are dropped, and the best is recorded.
Match(r) ==
  LET row == receipt[r]
      kept == Keep({m \in ToSet(matches) : m.receipt # r \/ m.status \notin {"suggested", "auto_confirmed"}})
      top == {x \in Candidates(row) : \A y \in Candidates(row) : Score(row, y) <= Score(row, x)}
      found == {x \in top : Score(row, x) >= SUGGEST_MATCH}
      auto(x) == MatchMode = "auto" /\ Score(row, x) >= AUTO_MATCH
  IN \/ \E x \in found :
          /\ matches' = Append(kept, [receipt |-> r, txn |-> x,
                                      status |-> IF auto(x) THEN "auto_confirmed" ELSE "suggested"])
          /\ receipt' = IF auto(x) THEN [receipt EXCEPT ![r].needsReview = FALSE] ELSE receipt
          /\ item' = IF auto(x) THEN Resolved(item, r, Reasons) ELSE item
          /\ txn' = IF auto(x) THEN [txn EXCEPT ![x] = WithVat(row, @)] ELSE txn
     \/ /\ found = {}
        /\ matches' = kept
        /\ receipt' = [receipt EXCEPT ![r].needsReview = TRUE]
        /\ item' = Filed(item, r, "receipt_unmatched")
        /\ UNCHANGED txn

\* Mutant: matches that were confirmed before are kept.
Linked_Both(r, x) ==
  LET mine == Keep({m \in ToSet(matches) : m.receipt # r \/ m.txn = x \/ m.status = "confirmed"})
      at == {i \in DOMAIN mine : mine[i].receipt = r /\ mine[i].txn = x}
  IN IF at = {} THEN Append(mine, [receipt |-> r, txn |-> x, status |-> "confirmed"])
     ELSE [mine EXCEPT ![Max(at)].status = "confirmed"]

\* confirm_match and attach_to_transaction: the receipt's other matches are dropped.
Linked(r, x) ==
  LET mine == Keep({m \in ToSet(matches) : m.receipt # r \/ m.txn = x})
      at == {i \in DOMAIN mine : mine[i].receipt = r}
  IN IF at = {} THEN Append(mine, [receipt |-> r, txn |-> x, status |-> "confirmed"])
     ELSE [mine EXCEPT ![Max(at)].status = "confirmed"]

\* drop_original: the row stays.
Dropped(row) == [row EXCEPT !.stored = FALSE, !.archived = TRUE]

Settle(r, x, drop) ==
  LET row == [receipt[r] EXCEPT !.needsReview = FALSE]
  IN /\ matches' = Linked(r, x)
     /\ receipt' = [receipt EXCEPT ![r] = IF drop THEN Dropped(row) ELSE row]
     /\ files' = IF drop /\ row.stored THEN files \ {row.content} ELSE files
     /\ item' = Resolved(item, r, Reasons)
     /\ txn' = [txn EXCEPT ![x] = WithVat(row, @)]

-----------------------------------------------------------------------------
(* Uploads and long calls.                                                  *)

\* Mutant: a receipt whose original was dropped is found as well.
Same_Archived(c) == {r \in Stored : receipt[r].content = c}

\* store_upload: what is there already, with its original.
Same(c) == {r \in Stored : receipt[r].content = c /\ ~receipt[r].archived}

\* upload_receipt and import_document, or, with x, attach_transaction_receipt: a new
\* receipt is read by OCR, and one attached is linked afterwards.
Upload(t, c, x) ==
  LET r == IF Stored = {} THEN 1 ELSE Max(Stored) + 1
      found == CHOOSE s \in Same(c) : \A s2 \in Same(c) : s <= s2
      attach(s) == [op |-> "attach", r |-> s, row |-> NoRow, txn |-> x]
  IN /\ Edit /\ call[t] = Idle /\ x \in Present \cup {Null}
     /\ IF Same(c) = {}
        THEN /\ r \in Receipts
             /\ receipt' = [receipt EXCEPT ![r] = NewReceipt(c)]
             /\ files' = files \cup {c}
             /\ torn' = torn \ {c}
             /\ loose' = loose \ {r}
             /\ call' = [call EXCEPT ![t] = [op |-> "ocr", r |-> r, row |-> NewReceipt(c), txn |-> x]]
             /\ Later(r)
        ELSE /\ call' = IF x = Null THEN call ELSE [call EXCEPT ![t] = attach(found)]
             /\ UNCHANGED <<receipt, files, sweep, torn, loose>>
     /\ upload' = c
     /\ UNCHANGED <<txn, matches, item, day, owed>>

\* The file is written and the row is not.
UploadFails(c) ==
  /\ Edit /\ Same(c) = {}
  /\ files' = files \cup {c}
  /\ upload' = Null
  /\ UNCHANGED <<receipt, txn, matches, item, call, sweep, day, owed, torn, loose>>

\* rerun_ocr, and the AI extraction: with the file at hand.
OcrStart(t, r) ==
  /\ call[t] = Idle /\ Edit /\ HasFile(r)
  /\ call' = [call EXCEPT ![t] = [op |-> "ocr", r |-> r, row |-> receipt[r], txn |-> Null]]
  /\ upload' = Null
  /\ UNCHANGED <<receipt, txn, matches, item, files, sweep, day, owed, torn, loose>>

AiStart(t, r) ==
  /\ call[t] = Idle /\ Edit /\ HasFile(r)
  /\ call' = [call EXCEPT ![t] = [op |-> "ai", r |-> r, row |-> receipt[r], txn |-> Null]]
  /\ upload' = Null
  /\ UNCHANGED <<receipt, txn, matches, item, files, sweep, day, owed, torn, loose>>

\* run_ocr without a file.
OcrMissing(r) ==
  /\ Edit /\ ~HasFile(r)
  /\ receipt' = [receipt EXCEPT ![r].ocr = "unread"]
  /\ item' = Filed(item, r, "low_confidence")
  /\ upload' = Null
  /\ UNCHANGED <<txn, matches, files, call, sweep, day, owed, torn, loose>>

\* Mutant: what nothing could read is not filed.
OcrResults_Silent(c) ==
  {[row |-> Unread(c.row), match |-> FALSE, flag |-> FALSE]}
  \cup {[row |-> Read(c.row, g), match |-> TRUE, flag |-> Read(c.row, g).needsReview] :
          g \in Readings[c.row.content]}

\* What comes of OCR; only after a reading is the receipt matched.
OcrResults(c) ==
  {[row |-> Unread(c.row), match |-> FALSE, flag |-> TRUE]}
  \cup {[row |-> Read(c.row, g), match |-> TRUE, flag |-> Read(c.row, g).needsReview] :
          g \in Readings[c.row.content]}

\* The commit of run_ocr.  When the receipt is gone it fails, unless no column of the
\* row has changed.
OcrDone(t) ==
  LET c == call[t]
      here == c.r \in Stored
  IN /\ c.op = "ocr"
     /\ \E out \in OcrResults(c) :
          LET now == IF here THEN Over(c.row, out.row, receipt[c.r]) ELSE NoRow
              lands == here \/ out.row = c.row
          IN /\ receipt' = [receipt EXCEPT ![c.r] = now]
             /\ item' = IF lands /\ out.flag THEN Filed(item, c.r, "low_confidence") ELSE item
             /\ call' = [call EXCEPT ![t] =
                  IF here /\ c.txn # Null THEN [@ EXCEPT !.op = "attach"]
                  ELSE IF here /\ out.match /\ now.total # Null THEN [@ EXCEPT !.op = "match"]
                  ELSE Idle]
     /\ upload' = Null
     /\ UNCHANGED <<txn, matches, files, sweep, day, owed, torn, loose, edits>>

\* set_fields with what is known in f.
Entered(row, f) ==
  LET new == [row EXCEPT !.merchant = IF f.merchant = Null THEN @ ELSE f.merchant,
                         !.date = IF f.date = Null THEN @ ELSE f.date,
                         !.total = IF f.total = Null THEN @ ELSE f.total,
                         !.vat = IF f.vat = Null THEN @ ELSE f.vat]
  IN IF new.total = Null THEN new ELSE [new EXCEPT !.needsReview = FALSE]

Cleared(r, row) == IF row.total = Null THEN item ELSE Resolved(item, r, {"low_confidence"})

\* ai_extract_receipt: the model's fields replace what is there.
AiDone(t) ==
  LET c == call[t] IN
  /\ c.op = "ai" /\ c.r \in Stored
  /\ \E g \in Readings[c.row.content] :
       LET new == [Entered(receipt[c.r], [g EXCEPT !.vat = Null]) EXCEPT !.byHand = @ /\ g.total = Null]
       IN /\ receipt' = [receipt EXCEPT ![c.r] = new]
          /\ item' = Cleared(c.r, new)
          /\ call' = [call EXCEPT ![t] = IF new.total = Null THEN Idle ELSE [@ EXCEPT !.op = "match"]]
  /\ upload' = Null
  /\ UNCHANGED <<txn, matches, files, sweep, day, owed, torn, loose, edits>>

MatchAfter(t) ==
  /\ call[t].op = "match" /\ call[t].r \in Stored
  /\ Match(call[t].r)
  /\ End(t)
  /\ upload' = Null
  /\ UNCHANGED <<files, sweep, day, owed, torn, loose, edits>>

\* attach_to_transaction: the original is kept.
Attach(t) ==
  /\ call[t].op = "attach" /\ call[t].r \in Stored /\ call[t].txn \in Present
  /\ Settle(call[t].r, call[t].txn, FALSE)
  /\ End(t)
  /\ upload' = Null
  /\ UNCHANGED <<sweep, day, owed, torn, loose, edits>>

\* The network, the engine or the write lock; or the row is gone.
Fails(t) ==
  /\ call[t] # Idle
  /\ End(t)
  /\ upload' = Null
  /\ UNCHANGED <<receipt, txn, matches, item, files, sweep, day, owed, torn, loose, edits>>

\* create_transaction_from_receipt commits the transaction before it attaches it.
CreateTransaction(t, r, x) ==
  LET row == receipt[r] IN
  /\ Edit /\ call[t] = Idle /\ x \notin Present /\ row.total # Null
  /\ LET new == [content |-> r, amount |-> -Magnitude(row.total),
                 date |-> IF row.date = Null THEN day ELSE row.date,
                 merchant |-> row.merchant, vat |-> Null, archived |-> FALSE]
     IN txn' = [txn EXCEPT ![x] = new] /\ Later(x)
  /\ call' = [call EXCEPT ![t] = [op |-> "attach", r |-> r, row |-> NoRow, txn |-> x]]
  /\ upload' = Null
  /\ UNCHANGED <<receipt, matches, item, files, day, owed, torn, loose>>

-----------------------------------------------------------------------------
(* Short calls.                                                             *)

\* update_receipt
SetFields(r, f) ==
  /\ Edit
  /\ LET new == [Entered(receipt[r], f) EXCEPT !.byHand = @ \/ f.total # Null]
     IN receipt' = [receipt EXCEPT ![r] = new] /\ item' = Cleared(r, new)
  /\ upload' = Null
  /\ UNCHANGED <<txn, matches, files, call, sweep, day, owed, torn, loose>>

\* match_receipt
MatchReceipt(r) ==
  /\ Edit /\ receipt[r].total # Null
  /\ Match(r)
  /\ upload' = Null
  /\ UNCHANGED <<files, call, sweep, day, owed, torn, loose>>

ConfirmMatch(r, x) ==
  /\ Edit
  /\ Settle(r, x, DeleteAfter)
  /\ torn' = IF DeleteAfter /\ receipt[r].stored THEN torn \ {receipt[r].content} ELSE torn
  /\ upload' = Null
  /\ UNCHANGED <<call, sweep, day, owed, loose>>

\* delete: the row, its file, its matches, and its open items.
Without(r) == Keep({m \in ToSet(matches) : m.receipt # r})

Gone(r) ==
  /\ receipt' = [receipt EXCEPT ![r] = NoRow]
  /\ files' = IF receipt[r].stored THEN files \ {receipt[r].content} ELSE files
  /\ matches' = Without(r)
  /\ item' = Resolved(item, r, Reasons)
  /\ torn' = IF receipt[r].stored THEN torn \ {receipt[r].content} ELSE torn
  /\ loose' = IF \E t \in Callers : call[t].r = r THEN loose \cup {r} ELSE loose
  /\ UNCHANGED txn

Delete(r) ==
  /\ Edit /\ Gone(r)
  /\ upload' = Null
  /\ UNCHANGED <<call, sweep, day, owed>>

\* delete, confirm_match or drop_original whose commit fails after the unlink.
CutShort(r) ==
  /\ Edit /\ receipt[r].stored
  /\ files' = files \ {receipt[r].content}
  /\ torn' = torn \cup {receipt[r].content}
  /\ upload' = Null
  /\ UNCHANGED <<receipt, txn, matches, item, call, sweep, day, owed, loose>>

\* Transactions are imported, get a VAT amount by hand, and are deleted: their
\* matches go with them.
AddTransaction(x, tpl) ==
  /\ Edit /\ x \notin Present
  /\ txn' = [txn EXCEPT ![x] = tpl] /\ Later(x)
  /\ upload' = Null
  /\ UNCHANGED <<receipt, matches, item, files, call, day, owed, torn, loose>>

SetVat(x, v) ==
  /\ Edit /\ x \in Present
  /\ txn' = [txn EXCEPT ![x].vat = v]
  /\ upload' = Null
  /\ UNCHANGED <<receipt, matches, item, files, call, sweep, day, owed, torn, loose>>

WithoutTxns(X) == Keep({m \in ToSet(matches) : m.txn \notin X})

DeleteTransaction(x) ==
  /\ Edit /\ x \in Present
  /\ txn' = [txn EXCEPT ![x] = NoRow]
  /\ matches' = WithoutTxns({x})
  /\ upload' = Null
  /\ UNCHANGED <<receipt, item, files, call, sweep, day, owed, torn, loose>>

-----------------------------------------------------------------------------
(* Retention.                                                               *)

Age(r) == day - (IF receipt[r].date = Null THEN receipt[r].created ELSE receipt[r].date)
Due(r, days) == Age(r) > days
DueTxns(days) == {x \in Present : day - txn[x].date > days}

Rows == Stored \cup Present

\* The receipts a stage goes through are those it has found when it starts.  (Bound: one
\* run a day.)
SweepStart ==
  /\ sweep.stage = "idle" /\ sweep.day < day
  /\ txn' = [x \in Txns |-> IF x \in DueTxns(ArchiveAfter) THEN [txn[x] EXCEPT !.archived = TRUE] ELSE txn[x]]
  /\ sweep' = [Resting(day) EXCEPT !.stage = "archive", !.todo = {r \in Stored : ~receipt[r].archived}]
  /\ upload' = Null
  /\ UNCHANGED <<receipt, matches, item, files, call, day, owed, torn, loose, edits>>

\* drop_original for the next receipt; one that is gone ends the stage.
SweepArchive(r) ==
  /\ sweep.stage = "archive" /\ r \in sweep.todo
  /\ LET due == r \in Stored /\ Due(r, ArchiveAfter)
         drops == due /\ receipt[r].stored
     IN /\ sweep' = [sweep EXCEPT !.todo = IF r \in Stored THEN @ \ {r} ELSE {}]
        /\ receipt' = IF due THEN [receipt EXCEPT ![r] = Dropped(@)] ELSE receipt
        /\ files' = IF drops THEN files \ {receipt[r].content} ELSE files
        /\ torn' = IF drops THEN torn \ {receipt[r].content} ELSE torn
  /\ upload' = Null
  /\ UNCHANGED <<txn, matches, item, call, day, owed, loose, edits>>

\* Mutant: the purge goes on when the backup has failed.
SweepBackup_Unsaved ==
  /\ sweep.stage = "archive" /\ sweep.todo = {}
  /\ \E saved \in {Rows, {}} :
       sweep' = IF (\E r \in Stored : Due(r, PurgeAfter)) \/ DueTxns(PurgeAfter) # {}
                THEN [sweep EXCEPT !.stage = "purge", !.saved = saved] ELSE Resting(sweep.day)
  /\ upload' = Null
  /\ UNCHANGED <<receipt, txn, matches, item, files, call, day, owed, torn, loose, edits>>

\* _run_purge_stage: when there is something to purge, a backup first, or nothing.
SweepBackup ==
  /\ sweep.stage = "archive" /\ sweep.todo = {}
  /\ \/ /\ (\E r \in Stored : Due(r, PurgeAfter)) \/ DueTxns(PurgeAfter) # {}
        /\ sweep' = [sweep EXCEPT !.stage = "purge", !.saved = Rows]
     \/ sweep' = Resting(sweep.day)
  /\ upload' = Null
  /\ UNCHANGED <<receipt, txn, matches, item, files, call, day, owed, torn, loose, edits>>

\* _purge_dml: the deletion and its audit row in one commit.
SweepPurgeTransactions ==
  /\ sweep.stage = "purge"
  /\ txn' = [x \in Txns |-> IF x \in DueTxns(PurgeAfter) THEN NoRow ELSE txn[x]]
  /\ matches' = WithoutTxns(DueTxns(PurgeAfter))
  /\ sweep' = [sweep EXCEPT !.stage = "receipts", !.todo = Stored]
  /\ upload' = Null
  /\ UNCHANGED <<receipt, item, files, call, day, owed, torn, loose, edits>>

\* _purge_receipts: delete for the next receipt that is due.
SweepPurgeReceipt(r) ==
  /\ sweep.stage = "receipts" /\ r \in sweep.todo /\ r \in Stored
  /\ IF Due(r, PurgeAfter)
     THEN Gone(r) /\ sweep' = [sweep EXCEPT !.todo = @ \ {r}, !.purged = @ + 1]
     ELSE /\ sweep' = [sweep EXCEPT !.todo = @ \ {r}]
          /\ UNCHANGED <<receipt, files, matches, item, torn, loose, txn>>
  /\ upload' = Null
  /\ UNCHANGED <<call, day, owed, edits>>

\* Mutant: only a loop that came to its end is audited.
SweepAudit_Complete ==
  /\ sweep.stage = "receipts" /\ (sweep.todo = {} \/ \E r \in sweep.todo : r \notin Stored)
  /\ owed' = IF sweep.todo = {} THEN owed ELSE owed + sweep.purged
  /\ sweep' = Resting(sweep.day)
  /\ upload' = Null
  /\ UNCHANGED <<receipt, txn, matches, item, files, call, day, torn, loose, edits>>

\* What was purged is audited, also when a receipt that is gone ends the loop.
SweepAudit ==
  /\ sweep.stage = "receipts" /\ (sweep.todo = {} \/ \E r \in sweep.todo : r \notin Stored)
  /\ sweep' = Resting(sweep.day)
  /\ upload' = Null
  /\ UNCHANGED <<receipt, txn, matches, item, files, call, day, owed, torn, loose, edits>>

\* A commit of the loop fails: its file is gone, and the session does not take the
\* audit row before it is rolled back.
SweepCutShort(r) ==
  /\ sweep.stage = "receipts" /\ r \in sweep.todo /\ r \in Stored
  /\ Edit /\ Due(r, PurgeAfter)
  /\ files' = IF receipt[r].stored THEN files \ {receipt[r].content} ELSE files
  /\ torn' = IF receipt[r].stored THEN torn \cup {receipt[r].content} ELSE torn
  /\ owed' = owed + sweep.purged
  /\ sweep' = Resting(sweep.day)
  /\ upload' = Null
  /\ UNCHANGED <<receipt, txn, matches, item, call, day, loose>>

NextDay ==
  /\ day < MaxDay /\ day' = day + 1
  /\ upload' = Null
  /\ UNCHANGED <<receipt, txn, matches, item, files, call, sweep, owed, torn, loose, edits>>

Restart ==
  /\ Edit /\ (sweep.stage # "idle" \/ \E t \in Callers : call[t] # Idle)
  /\ call' = [t \in Callers |-> Idle] /\ sweep' = Resting(sweep.day)
  /\ owed' = owed + sweep.purged
  /\ upload' = Null
  /\ UNCHANGED <<receipt, txn, matches, item, files, day, torn, loose>>

-----------------------------------------------------------------------------

Init ==
  /\ receipt = [r \in Receipts |-> NoRow]
  /\ txn = KnownTxns
  /\ matches = <<>>
  /\ item = [k \in Receipts \X Reasons |-> "absent"]
  /\ files = {}
  /\ call = [t \in Callers |-> Idle]
  /\ sweep = Resting(0)
  /\ day = 0 /\ owed = 0 /\ torn = {} /\ loose = {} /\ upload = Null /\ edits = 0

\* What may be typed in: a total, a VAT amount, or nothing new.
Entry(total, vat) == [total |-> total, date |-> Null, merchant |-> Null, vat |-> vat]

Long(t) ==
  \/ \E c \in Contents, x \in Txns \cup {Null} : Upload(t, c, x)
  \/ \E r \in Stored : OcrStart(t, r) \/ AiStart(t, r)
  \/ \E r \in Stored, x \in Txns : CreateTransaction(t, r, x)
  \/ OcrDone(t) \/ AiDone(t) \/ MatchAfter(t) \/ Attach(t) \/ Fails(t)

Short(r) ==
  \/ OcrMissing(r)
  \/ \E total \in Typed, vat \in Typed \cup {Null} : SetFields(r, Entry(total, vat))
  \/ MatchReceipt(r)
  \/ \E x \in Present : ConfirmMatch(r, x)
  \/ Delete(r) \/ CutShort(r)

Sweep ==
  \/ SweepStart \/ SweepBackup \/ SweepPurgeTransactions \/ SweepAudit
  \/ \E r \in Receipts : SweepArchive(r) \/ SweepPurgeReceipt(r) \/ SweepCutShort(r)

Next ==
  \/ \E t \in Callers : Long(t)
  \/ \E r \in Stored : Short(r)
  \/ \E c \in Contents : UploadFails(c)
  \/ \E x \in Txns, tpl \in TxnTemplates : AddTransaction(x, tpl)
  \/ \E x \in Txns : DeleteTransaction(x) \/ (\E v \in Typed : SetVat(x, v))
  \/ \E k \in DOMAIN item, s \in {"open", "closed"} : SetStatus(k, s)
  \/ Sweep \/ NextDay \/ Restart

Spec == Init /\ [][Next]_vars

-----------------------------------------------------------------------------

\* A receipt that says it has its original has it: what confirming, retention and
\* deletion take from disk is of no other receipt, and an upload "is how a user restores
\* the file" (store_upload).  A commit that fails after the unlink is the exception.
FileKept ==
  /\ \A r \in Stored : receipt[r].stored => HasFile(r) \/ receipt[r].content \in torn
  /\ upload # Null =>
       upload \in torn \/ \E r \in Stored : receipt[r].content = upload /\ HasFile(r)

\* _apply_extracted_fields "Fill receipt fields from OCR output without clobbering manual
\* values", _propagate_vat "without clobbering a VAT amount the user already set": a total
\* typed in is changed by hand, by the AI extraction, or by an OCR that began before it
\* was typed in; and a VAT amount of a transaction only by hand.
HandKept ==
  [][/\ \A r \in Stored :
          receipt[r].byHand /\ receipt'[r] # NoRow /\ receipt'[r].total # receipt[r].total
          => \/ edits' # edits
             \/ \E t \in Callers : call[t].r = r /\ (call[t].op = "ai" \/ call[t].row.total = Null)
     /\ \A x \in Present :
          txn'[x] # NoRow /\ txn[x].vat # Null /\ txn'[x].vat # txn[x].vat
          => edits' # edits /\ receipt' = receipt]_vars

\* The review queue is the safety net: a receipt that needs a review has an open item,
\* and an open item has its receipt.  (Statuses can be set by hand, and a receipt can be
\* deleted while it is being read.)
ReviewShown ==
  \A r \in Receipts \ loose :
    /\ r \in Stored /\ receipt[r].needsReview => \E reason \in Reasons : item[<<r, reason>>] = "open"
    /\ r \notin Stored => \A reason \in Reasons : item[<<r, reason>>] # "open"

\* "Confirm a receipt-transaction match (one-to-one)": the confirmed matches of a receipt
\* are of one transaction.
OneConfirmed ==
  \A i, j \in DOMAIN matches :
    /\ matches[i].receipt = matches[j].receipt
    /\ matches[i].status = "confirmed" /\ matches[j].status = "confirmed"
    => matches[i].txn = matches[j].txn

\* What a purge takes was in the backup taken before it, or came later; and what it took
\* of receipts is audited, unless a commit failed or the program stopped.
PurgeSafe ==
  [][/\ sweep.stage \in {"purge", "receipts"} /\ edits' = edits
          => Rows \ Rows' \subseteq sweep.saved \cup sweep.late
     /\ owed' # owed => edits' # edits]_vars
=============================================================================
