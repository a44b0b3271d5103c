------------------------------- MODULE Imports -------------------------------
(***************************************************************************)
(* Statement imports: services/import_service.py (upload, confirm, delete), *)
(* services/curve_link_service.py (funding-card links and the matching of   *)
(* a purchase across two accounts) and household_service's                  *)
(* get_or_create_account.                                                   *)
(*                                                                          *)
(* An upload stages a pending statement and keeps the file under            *)
(* uploads/<id>; a confirm reads the file again, drops the rows the account *)
(* already has (by hash) and those another account already has (by amount   *)
(* and date, over the links), and stores the rest.  Each call is a worker   *)
(* thread with a database session of its own.  A SELECT outside a           *)
(* transaction sees what is committed at that moment; the first write of a  *)
(* call takes SQLite's only writer lock and keeps it until the commit.      *)
(***************************************************************************)
EXTENDS Integers, SequencesExt

CONSTANTS
  Callers,      \* worker threads
  Files,        \* the statement files the household has
  AiFiles,      \* those of Files that are images, read by the AI: rows kept in the notes
  Rows,         \* Rows[f]: the rows a parser finds in f, in file order
  Bank,         \* Bank[f]: the institution the parser of f stands for
  Labels,       \* the funding-card labels in Curve exports
  NoLabel,
  Owns,         \* Owns[l]: the institution whose card l really is
  NoFile,
  DATE_WINDOW_DAYS,
  MaxId,        \* bound: statement ids
  MaxAccounts,  \* bound: accounts
  Worlds        \* what a run starts from: the files and labels there are, sets of operations
                \* the household never has two of under way at once, and whether the process
                \* may stop at any point, to be started again

Ops == {"upload", "confirm", "delete"}
Ids == 1..MaxId
RowsOf(fs) == UNION {{Rows[f][i] : i \in DOMAIN Rows[f]} : f \in fs}
Row == RowsOf(Files)

ASSUME FilesAssumption == AiFiles \subseteq Files /\ NoFile \notin Files
ASSUME RowsAssumption ==
  /\ \A f \in Files : Rows[f] \in Seq([key : STRING, purchase : STRING, amount : Nat, day : Nat,
                                       marked : BOOLEAN, label : Labels \cup {NoLabel}])
  /\ \A f \in AiFiles : \A i \in DOMAIN Rows[f] : Rows[f][i].label = NoLabel
ASSUME BoundsAssumption == {MaxId, MaxAccounts} \subseteq Nat \ {0} /\ DATE_WINDOW_DAYS \in Nat
ASSUME WorldsAssumption ==
  \A w \in Worlds : /\ w.files \subseteq Files /\ w.labels \subseteq Labels
                    /\ w.apart \subseteq SUBSET Ops /\ w.crash \in BOOLEAN

VARIABLES
  accounts,   \* the accounts, in id order: the institution of each
  statement,  \* the statements table
  upload,     \* upload[i]: the file in uploads/<i>, or NoFile
  link,       \* link_map: the account each linked label is mapped to
  txns,       \* the transactions table
  writer,     \* the caller with SQLite's writer lock, if any
  call,       \* what each caller is doing
  stored,     \* history: the files whose rows a confirm has committed
  mapped,     \* history: FALSE once a confirm matched without the right links
  world       \* the one of Worlds that this is

vars == <<accounts, statement, upload, link, txns, writer, call, stored, mapped, world>>

\* unwanted is history: a delete of it has begun.
NoStatement == [status |-> "none", file |-> NoFile, account |-> 0, unwanted |-> FALSE]

Idle == [op |-> "none", pc |-> "idle", id |-> 0, file |-> NoFile, account |-> 0,
         existing |-> {}, high |-> {}, low |-> {}]

Init ==
  /\ accounts = <<>>
  /\ statement = [i \in Ids |-> NoStatement]
  /\ upload = [i \in Ids |-> NoFile]
  /\ link = <<>>
  /\ txns = {}
  /\ writer = {}
  /\ call = [t \in Callers |-> Idle]
  /\ stored = {}
  /\ mapped = TRUE
  /\ world \in Worlds

-----------------------------------------------------------------------------
(* What a call begins and ends with.                                        *)

Exists(i) == statement[i].status # "none"

\* The household does not start op while it has another of the same set under way.
Free(t, op) ==
  /\ call[t] = Idle
  /\ \A A \in world.apart : op \in A => \A u \in Callers : call[u].op \notin A

End(t) == call' = [call EXCEPT ![t] = Idle]

Goto(t, pc) == call' = [call EXCEPT ![t].pc = pc]

\* The database can be written by t: nobody else is in a write transaction.
CanWrite(t) == writer \subseteq {t}

\* busy_timeout runs out while another call keeps the lock: 500 to the client.
Busy(t) ==
  /\ call[t].pc \in {"u_stage", "c_commit", "d_commit"}
  /\ ~CanWrite(t)
  /\ End(t)
  /\ UNCHANGED <<accounts, statement, upload, link, txns, writer, stored, mapped>>

-----------------------------------------------------------------------------
(* create_import.  The preview it returns changes nothing and is left out.  *)

\* get_or_create_account, the SELECT: the oldest account of the institution.
\* 0 stands for none.
OldestOf(bank) ==
  LET own == {a \in DOMAIN accounts : accounts[a] = bank}
  IN IF own = {} THEN 0 ELSE Min(own)

\* The caller may also name an account: one of that institution.
UploadFind(t, f) ==
  /\ Free(t, "upload")
  /\ \E a \in {OldestOf(Bank[f])} \cup {b \in DOMAIN accounts : accounts[b] = Bank[f]} :
       call' = [call EXCEPT ![t] = [Idle EXCEPT !.op = "upload", !.pc = "u_stage",
                                                !.file = f, !.account = a]]
  /\ UNCHANGED <<accounts, statement, upload, link, txns, writer, stored, mapped>>

\* Ids are not AUTOINCREMENT: the next one is the largest in the table plus one.
NextId == 1 + Max({0} \cup {i \in Ids : Exists(i)})

\* The flushes take the lock: the account if there was none, the statement;
\* then the file is written, before the commit.
UploadStage(t) ==
  /\ call[t].pc = "u_stage" /\ CanWrite(t)
  /\ NextId \in Ids
  /\ call[t].account = 0 => Len(accounts) < MaxAccounts
  /\ writer' = {t}
  /\ upload' = [upload EXCEPT ![NextId] = call[t].file]
  /\ call' = [call EXCEPT ![t].pc = "u_commit", ![t].id = NextId,
                          ![t].account = IF @ = 0 THEN Len(accounts) + 1 ELSE @]
  /\ UNCHANGED <<accounts, statement, link, txns, stored, mapped>>

UploadCommit(t) ==
  LET c == call[t] IN
  /\ c.pc = "u_commit"
  /\ accounts' = IF c.account \in DOMAIN accounts THEN accounts
                 ELSE Append(accounts, Bank[c.file])
  /\ statement' = [statement EXCEPT ![c.id] = [status |-> "pending", file |-> c.file,
                                               account |-> c.account, unwanted |-> FALSE]]
  /\ writer' = {}
  /\ End(t)
  /\ UNCHANGED <<upload, link, txns, stored, mapped>>

-----------------------------------------------------------------------------
(* detect_cross_account                                                     *)

\* An existing transaction x that an incoming row r of account a may be
\* matched with.  A row of a Curve export looks in the account its label is
\* mapped to, any other row among the Curve transactions whose label is
\* mapped to its account.
InScope(r, a, x) ==
  \/ /\ r.label \in DOMAIN link
     /\ link[r.label] # a
     /\ x.account = link[r.label]
  \/ /\ r.label = NoLabel
     /\ x.row.label \in DOMAIN link
     /\ link[x.row.label] = a

\* Mutant: the settlement may only be later than the purchase.
Fits_OneSided(r, a, x) ==
  InScope(r, a, x) /\ x.row.amount = r.amount /\ x.row.day - r.day \in 0..DATE_WINDOW_DAYS

Fits(r, a, x) ==
  /\ InScope(r, a, x)
  /\ x.row.amount = r.amount
  /\ x.row.day - r.day \in -DATE_WINDOW_DAYS..DATE_WINDOW_DAYS

\* Mutant: a transaction is matched as often as it fits.
MatchInOrder_Reused(rows, a, order) ==
  [i \in 1..Len(rows) |->
     LET fit == {k \in DOMAIN order : Fits(rows[i], a, order[k])}
     IN IF fit = {} THEN 0 ELSE Min(fit)]

\* The matches when the queries return the transactions in this order: each
\* row, in file order, takes the first that fits and no earlier row has taken.
\* 0 stands for no match.
MatchInOrder(rows, a, order) ==
  LET match[i \in 1..Len(rows)] ==
        LET free == {k \in DOMAIN order : /\ Fits(rows[i], a, order[k])
                                          /\ \A j \in 1..(i - 1) : match[j] # k}
        IN IF free = {} THEN 0 ELSE Min(free)
  IN match

\* The bank's side of the match carries a Curve marker.
IsHigh(r, x) == IF r.label = NoLabel THEN r.marked ELSE x.row.marked

\* The queries have no ORDER BY: any order of the candidates is possible.
\* The rows of each confidence are told apart, what they matched is not kept.
CrossMatches(rows, a) ==
  LET candidates == {x \in txns : \E i \in DOMAIN rows : Fits(rows[i], a, x)}
  IN {LET match == MatchInOrder(rows, a, order)
          high == {i \in DOMAIN rows : match[i] # 0 /\ IsHigh(rows[i], order[match[i]])}
      IN [high |-> high, low |-> {i \in DOMAIN rows : match[i] # 0} \ high] :
        order \in SetToSeqs(candidates)}

-----------------------------------------------------------------------------
(* confirm_import                                                           *)

ConfirmLoad(t, i) ==
  /\ Free(t, "confirm")
  /\ statement[i].status \in {"pending", "failed"}
  /\ call' = [call EXCEPT ![t] = [Idle EXCEPT !.op = "confirm", !.pc = "c_rows", !.id = i,
                                              !.file = statement[i].file,
                                              !.account = statement[i].account]]
  /\ UNCHANGED <<accounts, statement, upload, link, txns, writer, stored, mapped>>

\* Parses the file that is there now; the rows of an image are in the notes
\* that ConfirmLoad has read.
ConfirmRows(t) ==
  LET c == call[t] IN
  /\ c.pc = "c_rows"
  /\ c.file \in AiFiles \/ upload[c.id] # NoFile
  /\ call' = [call EXCEPT ![t].pc = "c_hashes",
                          ![t].file = IF @ \in AiFiles THEN @ ELSE upload[c.id]]
  /\ UNCHANGED <<accounts, statement, upload, link, txns, writer, stored, mapped>>

\* "Uploaded file is no longer available; please re-upload."
ConfirmMissing(t) ==
  /\ call[t].pc = "c_rows"
  /\ call[t].file \notin AiFiles /\ upload[call[t].id] = NoFile
  /\ End(t)
  /\ UNCHANGED <<accounts, statement, upload, link, txns, writer, stored, mapped>>

\* The parser refuses the file: the statement is marked failed, and may be
\* confirmed again.  Nothing is marked if its row has gone meanwhile.
ConfirmRefused(t) ==
  LET c == call[t] IN
  /\ c.pc = "c_rows" /\ c.file \notin AiFiles /\ upload[c.id] # NoFile
  /\ CanWrite(t)
  /\ statement' = IF Exists(c.id) THEN [statement EXCEPT ![c.id].status = "failed"] ELSE statement
  /\ End(t)
  /\ UNCHANGED <<accounts, upload, link, txns, writer, stored, mapped>>

\* The transactions of an account with the hash of r.
Copies(a, r) == {x \in txns : x.account = a /\ x.row.key = r.key}

\* Mutant: the last chunk of hashes is not looked up.
ConfirmHashes_Chunk(t) ==
  LET c == call[t]
      rows == Rows[c.file]
  IN /\ c.pc = "c_hashes"
     /\ call' = [call EXCEPT ![t].pc = "c_match",
                   ![t].existing = {rows[i].key : i \in {j \in 1..(Len(rows) - 1) :
                                                           Copies(c.account, rows[j]) # {}}}]
     /\ UNCHANGED <<accounts, statement, upload, link, txns, writer, stored, mapped>>

\* _existing_hashes_for
ConfirmHashes(t) ==
  LET c == call[t] IN
  /\ c.pc = "c_hashes"
  /\ call' = [call EXCEPT ![t].pc = "c_match",
                ![t].existing = {r.key : r \in {s \in RowsOf({c.file}) : Copies(c.account, s) # {}}}]
  /\ UNCHANGED <<accounts, statement, upload, link, txns, writer, stored, mapped>>

\* Every label is mapped to the one account of its institution.
RightLinks ==
  \A l \in world.labels : l \in DOMAIN link /\ accounts[link[l]] = Owns[l]

ConfirmMatch(t) ==
  LET c == call[t] IN
  /\ c.pc = "c_match"
  /\ \E m \in CrossMatches(Rows[c.file], c.account) :
       call' = [call EXCEPT ![t].pc = "c_commit", ![t].high = m.high, ![t].low = m.low]
  /\ mapped' = (mapped /\ (RightLinks \/ txns = {}))
  /\ UNCHANGED <<accounts, statement, upload, link, txns, writer, stored>>

\* The rows _persist_rows stores: neither matched for sure, nor in the hashes
\* read before, nor the repetition of an earlier row it has stored.
Fresh(c) ==
  {i \in DOMAIN Rows[c.file] :
     /\ i \notin c.high
     /\ Rows[c.file][i].key \notin c.existing
     /\ \A j \in 1..(i - 1) : Rows[c.file][j].key = Rows[c.file][i].key => j \in c.high}

Persisted(c) ==
  {[account |-> c.account, row |-> Rows[c.file][i],
    needs_review |-> i \in c.low \/ c.file \in AiFiles,
    copy |-> 1 + Cardinality(Copies(c.account, Rows[c.file][i]))] : i \in Fresh(c)}

\* Everything in one transaction; the foreign key, or the UPDATE that finds no
\* row, undoes it when the statement has gone.  A statement that has taken the
\* id meanwhile is as good to it.
ConfirmCommit(t) ==
  LET c == call[t] IN
  /\ c.pc = "c_commit" /\ CanWrite(t)
  /\ Exists(c.id)
  /\ txns' = txns \cup Persisted(c)
  /\ statement' = [statement EXCEPT ![c.id].status = "imported"]
  /\ stored' = stored \cup {c.file}
  /\ End(t)
  /\ UNCHANGED <<accounts, upload, link, writer, mapped>>

ConfirmUndone(t) ==
  /\ call[t].pc = "c_commit" /\ CanWrite(t)
  /\ ~Exists(call[t].id)
  /\ End(t)
  /\ UNCHANGED <<accounts, statement, upload, link, txns, writer, stored, mapped>>

-----------------------------------------------------------------------------
(* delete_import: the transactions stay, detached from the statement.       *)

DeleteLoad(t, i) ==
  /\ Free(t, "delete")
  /\ Exists(i)
  /\ statement' = [statement EXCEPT ![i].unwanted = TRUE]
  /\ call' = [call EXCEPT ![t] = [Idle EXCEPT !.op = "delete", !.pc = "d_unlink", !.id = i]]
  /\ UNCHANGED <<accounts, upload, link, txns, writer, stored, mapped>>

DeleteUnlink(t) ==
  /\ call[t].pc = "d_unlink"
  /\ upload' = [upload EXCEPT ![call[t].id] = NoFile]
  /\ Goto(t, "d_commit")
  /\ UNCHANGED <<accounts, statement, link, txns, writer, stored, mapped>>

\* A DELETE that finds no row is only warned about.
DeleteCommit(t) ==
  /\ call[t].pc = "d_commit" /\ CanWrite(t)
  /\ statement' = [statement EXCEPT ![call[t].id] = NoStatement]
  /\ End(t)
  /\ UNCHANGED <<accounts, upload, link, txns, writer, stored, mapped>>

-----------------------------------------------------------------------------
(* Links, crashes and the whole.                                            *)

\* set_link with an account
SetLink(l, a) ==
  /\ writer = {}
  /\ link' = [k \in DOMAIN link \cup {l} |-> IF k = l THEN a ELSE link[k]]
  /\ UNCHANGED <<accounts, statement, upload, txns, writer, call, stored, mapped>>

\* set_link without one
ClearLink(l) ==
  /\ writer = {}
  /\ l \in DOMAIN link
  /\ link' = Restrict(link, DOMAIN link \ {l})
  /\ UNCHANGED <<accounts, statement, upload, txns, writer, call, stored, mapped>>

\* What was not committed is gone; the files stay.
Crash ==
  /\ world.crash
  /\ \E t \in Callers : call[t] # Idle
  /\ call' = [t \in Callers |-> Idle]
  /\ writer' = {}
  /\ UNCHANGED <<accounts, statement, upload, link, txns, stored, mapped>>

Upload(t) == (\E f \in world.files : UploadFind(t, f)) \/ UploadStage(t) \/ UploadCommit(t)

Confirm(t) ==
  \/ \E i \in Ids : ConfirmLoad(t, i)
  \/ ConfirmRows(t) \/ ConfirmMissing(t) \/ ConfirmRefused(t)
  \/ ConfirmHashes(t) \/ ConfirmMatch(t)
  \/ ConfirmCommit(t) \/ ConfirmUndone(t)

\* Mutant: the file is removed once the row's deletion is committed.
Delete_RowFirst(t) ==
  \/ \E i \in Ids : DeleteLoad(t, i)
  \/ /\ call[t].pc = "d_unlink" /\ CanWrite(t)
     /\ statement' = [statement EXCEPT ![call[t].id] = NoStatement]
     /\ Goto(t, "d_commit")
     /\ UNCHANGED <<accounts, upload, link, txns, writer, stored, mapped>>
  \/ /\ call[t].pc = "d_commit"
     /\ upload' = [upload EXCEPT ![call[t].id] = NoFile]
     /\ End(t)
     /\ UNCHANGED <<accounts, statement, link, txns, writer, stored, mapped>>

Delete(t) == (\E i \in Ids : DeleteLoad(t, i)) \/ DeleteUnlink(t) \/ DeleteCommit(t)

Relink == \E l \in world.labels : ClearLink(l) \/ \E a \in DOMAIN accounts : SetLink(l, a)

Next ==
  /\ \/ \E t \in Callers : Upload(t) \/ Confirm(t) \/ Delete(t) \/ Busy(t)
     \/ Relink
     \/ Crash
  /\ UNCHANGED world

Spec == Init /\ [][Next]_vars

-----------------------------------------------------------------------------
(* Properties.                                                              *)

\* Re-uploading, confirming again after a failure or a restart, and naming an
\* account or not never store a row twice in an account (confirm_import,
\* "skipping exact duplicates"; docs/troubleshooting.md:53-55).
HashOnce == \A x \in txns : x.copy = 1

Purchases(amount) == {r.purchase : r \in {s \in RowsOf(stored) : s.amount = amount}}

Stored(amount) == {x \in txns : x.row.amount = amount}

\* A purchase on the Curve export and on the statement of the card behind it
\* counts once: at each amount, there are no more transactions out of review
\* than purchases made, whichever file came first and whatever the matching
\* paired with what (curve_link_service; docs/troubleshooting.md:68-75).
CountedOnce ==
  mapped => \A m \in {r.amount : r \in Row} :
              Cardinality({x \in Stored(m) : ~x.needs_review}) <= Cardinality(Purchases(m))

\* Skipping duplicates never skips a purchase: at each amount, an imported file
\* leaves at least as many transactions as there are purchases in it, however
\* the labels were mapped and re-mapped meanwhile (_persist_rows).
NoneDropped ==
  \A m \in {r.amount : r \in Row} : Cardinality(Purchases(m)) <= Cardinality(Stored(m))

\* A statement that waits to be confirmed can be, unless somebody asked to
\* delete it: uploads/<id> still holds its own file, although the ids of deleted
\* statements and of uploads cut short are used again (create_import,
\* delete_import).
StaysConfirmable ==
  \A i \in Ids : statement[i].status \in {"pending", "failed"} /\ ~statement[i].unwanted
                  => upload[i] = statement[i].file
=============================================================================
