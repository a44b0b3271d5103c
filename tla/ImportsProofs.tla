---------------------------- MODULE ImportsProofs ----------------------------
(***************************************************************************)
(* Proofs about Imports, for every set of threads, files, labels and        *)
(* accounts, every content of the files and every bound.                    *)
(***************************************************************************)
EXTENDS Imports, WellFoundedInduction, FiniteSetTheorems, TLAPS

\* A household that has no two calls of op under way at once.  HashOnce needs this of
\* confirms (two of them at once store a row twice), StaysConfirmable of deletions (one
\* that waits while its id is given away takes the file of a later upload).  Uploads at
\* once, restarts and everything else are as they come.
OneAtATime(op) == \A w \in Worlds : \E A \in w.apart : op \in A

UploadPcs == {"u_stage", "u_commit"}
ConfirmPcs == {"c_rows", "c_hashes", "c_match", "c_commit"}
DeletePcs == {"d_unlink", "d_commit"}

Call == [op : Ops \cup {"none"}, pc : {"idle"} \cup UploadPcs \cup ConfirmPcs \cup DeletePcs,
         id : Ids \cup {0}, file : Files \cup {NoFile}, account : Nat,
         existing : SUBSET STRING, high : SUBSET Nat, low : SUBSET Nat]

Statement == [status : {"none", "pending", "failed", "imported"}, file : Files \cup {NoFile},
              account : Nat, unwanted : BOOLEAN]

\* The type invariant.
TypeOK ==
  /\ accounts \in Seq({Bank[f] : f \in Files})
  /\ statement \in [Ids -> Statement]
  /\ \A i \in Ids : Exists(i) => statement[i].file \in Files
  /\ upload \in [Ids -> Files \cup {NoFile}]
  /\ writer \subseteq Callers
  /\ call \in [Callers -> Call]
  /\ world \in Worlds

\* A call c is at a position of its operation, and has the id and the file it needs there.
Placed(c) ==
  /\ c.op = "none" <=> c.pc = "idle"
  /\ c.op = "upload" <=> c.pc \in UploadPcs
  /\ c.op = "confirm" <=> c.pc \in ConfirmPcs
  /\ c.op = "delete" <=> c.pc \in DeletePcs
  /\ c.pc \notin {"idle", "u_stage"} => c.id \in Ids
  /\ c.pc \in (UploadPcs \cup ConfirmPcs) => c.file \in Files

\* Of the operations the household keeps apart there is one at a time.
KeptApart ==
  \A A \in world.apart : \A t, u \in Callers : call[t].op \in A /\ call[u].op \in A => t = u

CallInv == TypeOK /\ (\A t \in Callers : Placed(call[t])) /\ KeptApart

\* An upload has the writer lock from its flush to its commit, and nobody else has
\* it; the id it has chosen is still free, and the file is there.
StagedFits ==
  \A t \in Callers :
    /\ t \in writer <=> call[t].pc = "u_commit"
    /\ \A u \in writer : t \in writer => t = u
    /\ call[t].pc = "u_commit" => ~Exists(call[t].id) /\ upload[call[t].id] = call[t].file

\* What a deletion is about is still there, and is unwanted.
DeleteMarked ==
  \A t \in Callers :
    call[t].op = "delete" => Exists(call[t].id) /\ statement[call[t].id].unwanted

\* What a confirm knows of the hashes of its account is still all there is.
HashesKnown ==
  \A t \in Callers :
    call[t].pc \in {"c_match", "c_commit"} =>
      \A r \in RowsOf({call[t].file}) :
        Copies(call[t].account, r) # {} => r.key \in call[t].existing

-----------------------------------------------------------------------------
(* The least and the largest of numbers.                                    *)

\* Every set of naturals that has a member has a least one.
LEMMA LeastNumber ==
  ASSUME NEW T \in SUBSET Nat, T # {}
  PROVE  \E m \in T : \A k \in T : m <= k
<1>1. PICK R : R = OpToRel(<, Nat) OBVIOUS
<1>2. \A x, y \in Nat : x < y => <<x, y>> \in R
  BY <1>1, Zenon DEF OpToRel
<1>3. IsWellFoundedOn(R, Nat) BY <1>1, NatLessThanWellFounded, Zenon
<1>4. PICK m \in T : \A k \in T : ~(<<k, m>> \in R) BY <1>3, WFMin
<1>5. \A k \in T : ~(k < m) BY <1>2, <1>4
<1> QED BY <1>5

\* Min finds it.
LEMMA MinProperties ==
  ASSUME NEW T \in SUBSET Nat, T # {}
  PROVE  Min(T) \in T /\ \A k \in T : Min(T) <= k
BY LeastNumber DEF Min

\* Max finds the largest, when no member is above n.
LEMMA MaxProperties ==
  ASSUME NEW n \in Nat, NEW T \in SUBSET (0..n), T # {}
  PROVE  Max(T) \in T /\ \A k \in T : k <= Max(T)
<1>1. PICK U : U = {n - k : k \in T} OBVIOUS
<1>2. U \in SUBSET Nat /\ U # {}
  <2>1. \A k \in T : n - k \in Nat OBVIOUS
  <2>2. PICK k \in T : TRUE OBVIOUS
  <2>3. n - k \in U BY <1>1
  <2> QED BY <1>1, <2>1, <2>3
<1>3. PICK m \in U : \A k \in U : m <= k BY <1>2, LeastNumber
<1>4. PICK x \in T : m = n - x BY <1>1
<1>5. \A k \in T : n - k \in U BY <1>1
<1>6. \A k \in T : x >= k BY <1>3, <1>4, <1>5
<1> QED BY <1>6 DEF Max

\* The id of a new statement is one that no statement has.
LEMMA NextIdIsFree ==
  ASSUME TypeOK, NextId \in Ids
  PROVE  ~Exists(NextId)
<1>1. PICK T : T = {0} \cup {i \in Ids : Exists(i)} OBVIOUS
<1>2. MaxId \in Nat /\ T \in SUBSET (0..MaxId) /\ T # {}
  BY <1>1, BoundsAssumption DEF Ids
<1>3. PICK m : m = Max(T) OBVIOUS
<1>4. m \in T /\ \A k \in T : k <= m BY <1>2, <1>3, MaxProperties
<1>5. NextId = 1 + m BY <1>1, <1>3 DEF NextId
<1>6. 1 + m \notin T BY <1>2, <1>4
<1> QED BY <1>1, <1>5, <1>6

\* The account an upload finds is 0 or one of the table.
LEMMA OldestOfType ==
  ASSUME TypeOK, NEW bank
  PROVE  OldestOf(bank) \in Nat
<1>1. PICK own : own = {a \in DOMAIN accounts : accounts[a] = bank} OBVIOUS
<1>2. own \in SUBSET Nat BY <1>1 DEF TypeOK
<1>3. own # {} => Min(own) \in Nat BY <1>2, MinProperties
<1> QED BY <1>1, <1>3 DEF OldestOf

-----------------------------------------------------------------------------
(* Types, positions, and who is beside whom.                                *)

\* A step that moves the call of t to c.
Moves(t, c) == call' = [call EXCEPT ![t] = c]

\* It stays within its operation, ends, or begins one that is free.
Follows(t, c) == c.op \in {"none", call[t].op} \/ Free(t, c.op)

\* The tables keep their types.
TablesOK ==
  /\ accounts \in Seq({Bank[f] : f \in Files})
  /\ statement \in [Ids -> Statement]
  /\ \A i \in Ids : Exists(i) => statement[i].file \in Files
  /\ upload \in [Ids -> Files \cup {NoFile}]
  /\ writer \subseteq Callers

\* What a step of one thread has to show.
LEMMA CallStep ==
  ASSUME CallInv, NEW t \in Callers, NEW c \in Call, Moves(t, c), Placed(c), Follows(t, c),
         TablesOK', world' = world
  PROVE  CallInv'
<1>1. call'[t] = c /\ \A u \in Callers \ {t} : call'[u] = call[u]
  BY DEF Moves, CallInv, TypeOK
<1>2. TypeOK'
  BY DEF CallInv, TypeOK, TablesOK, Moves
<1>3. ASSUME NEW u \in Callers PROVE Placed(call[u])'
  <2>1. CASE u = t BY <1>1, <2>1 DEF Placed
  <2>2. CASE u # t BY <1>1, <2>2 DEF Placed, CallInv
  <2> QED BY <2>1, <2>2
<1>4. KeptApart'
  <2> SUFFICES ASSUME NEW A \in world.apart, NEW u \in Callers, NEW v \in Callers,
                      call'[u].op \in A, call'[v].op \in A, u # v
               PROVE  FALSE
    BY DEF KeptApart
  <2>1. ASSUME NEW w \in Callers \ {t}, call[w].op \in A, c.op \in A PROVE FALSE
    <3>1. "none" \notin A BY WorldsAssumption DEF CallInv, TypeOK, Ops
    <3>2. CASE c.op = call[t].op BY <2>1, <3>2 DEF CallInv, KeptApart
    <3>3. CASE Free(t, c.op) BY <2>1, <3>3 DEF Free
    <3> QED BY <2>1, <3>1, <3>2, <3>3 DEF Follows
  <2>2. CASE u = t BY <1>1, <2>1, <2>2
  <2>3. CASE v = t BY <1>1, <2>1, <2>3
  <2>4. CASE u # t /\ v # t BY <1>1, <2>4 DEF CallInv, KeptApart
  <2> QED BY <2>2, <2>3, <2>4
<1> QED BY <1>2, <1>3, <1>4 DEF CallInv

\* A call that ends.
LEMMA EndStep ==
  ASSUME CallInv, NEW t \in Callers, End(t), TablesOK', world' = world
  PROVE  CallInv'
<1>1. Idle \in Call BY DEF Idle, Call
<1>2. Placed(Idle) /\ Idle.op = "none" BY DEF Idle, Placed, UploadPcs, ConfirmPcs, DeletePcs
<1> QED BY <1>1, <1>2, CallStep DEF End, Moves, Follows

\* Uploads.
LEMMA UploadCalls ==
  ASSUME CallInv, NEW t \in Callers, Upload(t), world' = world
  PROVE  CallInv'
<1>t. TypeOK /\ call[t] \in Call /\ Placed(call[t]) BY DEF CallInv, TypeOK
<1>1. ASSUME NEW f \in world.files, UploadFind(t, f) PROVE CallInv'
  <2>1. f \in Files BY WorldsAssumption DEF CallInv, TypeOK
  <2>2. PICK a \in {OldestOf(Bank[f])} \cup {b \in DOMAIN accounts : accounts[b] = Bank[f]} :
          call' = [call EXCEPT ![t] = [Idle EXCEPT !.op = "upload", !.pc = "u_stage",
                                                   !.file = f, !.account = a]]
    BY <1>1 DEF UploadFind
  <2>3. a \in Nat BY <1>t, OldestOfType DEF TypeOK
  <2>4. PICK c : c = [Idle EXCEPT !.op = "upload", !.pc = "u_stage", !.file = f, !.account = a]
    OBVIOUS
  <2>5. c \in Call /\ Placed(c) /\ c.op = "upload"
    BY <2>1, <2>3, <2>4 DEF Idle, Call, Placed, UploadPcs, ConfirmPcs, DeletePcs, Ops
  <2>6. TablesOK' BY <1>1, <1>t DEF UploadFind, TablesOK, TypeOK, Exists
  <2> QED BY <1>1, <2>2, <2>4, <2>5, <2>6, CallStep DEF UploadFind, Moves, Follows
<1>2. ASSUME UploadStage(t) PROVE CallInv'
  <2>1. PICK c : c = [call[t] EXCEPT !.pc = "u_commit", !.id = NextId,
                                     !.account = IF @ = 0 THEN Len(accounts) + 1 ELSE @]
    OBVIOUS
  <2>2. Moves(t, c) BY <1>2, <1>t, <2>1 DEF UploadStage, Moves, TypeOK
  <2>3. Len(accounts) + 1 \in Nat BY <1>t DEF TypeOK
  <2>4. call[t].file \in Files /\ call[t].op = "upload" BY <1>2, <1>t DEF UploadStage, Placed, UploadPcs
  <2>5. NextId \in Ids BY <1>2 DEF UploadStage
  <2>6. c \in Call BY <1>t, <2>1, <2>3, <2>5 DEF Call, UploadPcs
  <2>7. c.op = "upload" /\ c.pc = "u_commit" /\ c.id = NextId /\ c.file = call[t].file
    BY <1>t, <2>1, <2>4 DEF Call
  <2>8. Placed(c) BY <2>4, <2>5, <2>7 DEF Placed, UploadPcs, ConfirmPcs, DeletePcs
  <2>9. TablesOK' BY <1>2, <1>t, <2>4, <2>5 DEF UploadStage, TablesOK, TypeOK, Exists
  <2> QED BY <2>2, <2>4, <2>6, <2>7, <2>8, <2>9, CallStep DEF Follows
<1>3. ASSUME UploadCommit(t) PROVE CallInv'
  <2>1. call[t].file \in Files /\ call[t].id \in Ids
    BY <1>3, <1>t DEF UploadCommit, Placed, UploadPcs
  <2>2. PICK s : s = [status |-> "pending", file |-> call[t].file,
                      account |-> call[t].account, unwanted |-> FALSE]
    OBVIOUS
  <2>3. s \in Statement /\ s.file \in Files BY <1>t, <2>1, <2>2 DEF Statement, Call
  <2>4. statement' = [statement EXCEPT ![call[t].id] = s] BY <1>3, <2>2 DEF UploadCommit
  <2>5. accounts' \in Seq({Bank[f] : f \in Files})
    BY <1>3, <1>t, <2>1 DEF UploadCommit, TypeOK
  <2>6. TablesOK' BY <1>3, <1>t, <2>1, <2>3, <2>4, <2>5 DEF UploadCommit, TablesOK, TypeOK, Exists
  <2> QED BY <1>3, <2>6, EndStep DEF UploadCommit
<1> QED BY <1>1, <1>2, <1>3 DEF Upload

\* Tables no step of these has changed.
LEMMA TablesStay ==
  ASSUME TypeOK, UNCHANGED <<accounts, statement, upload, writer>>
  PROVE  TablesOK'
BY DEF TypeOK, TablesOK, Exists

\* Rows that are matched are rows of the file.
LEMMA MatchesType ==
  ASSUME NEW f \in Files, NEW a, NEW m \in CrossMatches(Rows[f], a)
  PROVE  m.high \in SUBSET Nat /\ m.low \in SUBSET Nat
<1>1. DOMAIN Rows[f] \subseteq Nat BY RowsAssumption
<1>2. PICK match, order :
        LET high == {i \in DOMAIN Rows[f] : match[i] # 0 /\ IsHigh(Rows[f][i], order[match[i]])}
        IN  m = [high |-> high, low |-> {i \in DOMAIN Rows[f] : match[i] # 0} \ high]
  BY DEF CrossMatches
<1> QED BY <1>1, <1>2

\* The hashes of the rows of a file.
LEMMA KeysType ==
  ASSUME NEW f \in Files, NEW r \in RowsOf({f})
  PROVE  r.key \in STRING
<1>1. PICK i \in DOMAIN Rows[f] : r = Rows[f][i] BY DEF RowsOf
<1>2. PICK S : S = [key : STRING, purchase : STRING, amount : Nat, day : Nat,
                    marked : BOOLEAN, label : Labels \cup {NoLabel}]
  OBVIOUS
<1>3. Rows[f] \in Seq(S) BY <1>2, RowsAssumption
<1>4. r \in S BY <1>1, <1>3
<1> QED BY <1>2, <1>4

\* A statement stays one when its status is set.
LEMMA StatusType ==
  ASSUME NEW old \in Statement, NEW word \in {"none", "pending", "failed", "imported"}
  PROVE  /\ [old EXCEPT !.status = word] \in Statement
         /\ [old EXCEPT !.status = word].file = old.file
BY DEF Statement

\* Confirms.
LEMMA ConfirmCalls ==
  ASSUME CallInv, NEW t \in Callers, Confirm(t), world' = world
  PROVE  CallInv'
<1>t. TypeOK /\ call[t] \in Call /\ Placed(call[t]) BY DEF CallInv, TypeOK
<1>1. ASSUME NEW i \in Ids, ConfirmLoad(t, i) PROVE CallInv'
  <2>1. PICK c : c = [Idle EXCEPT !.op = "confirm", !.pc = "c_rows", !.id = i,
                                  !.file = statement[i].file, !.account = statement[i].account]
    OBVIOUS
  <2>2. Moves(t, c) BY <1>1, <2>1 DEF ConfirmLoad, Moves
  <2>3. statement[i].file \in Files /\ statement[i] \in Statement
    BY <1>1, <1>t DEF ConfirmLoad, TypeOK, Exists
  <2>4. c \in Call /\ Placed(c) /\ c.op = "confirm"
    BY <2>1, <2>3 DEF Idle, Call, Placed, Statement, UploadPcs, ConfirmPcs, DeletePcs, Ops
  <2> QED BY <1>1, <1>t, <2>2, <2>4, TablesStay, CallStep DEF ConfirmLoad, Follows
<1>2. ASSUME ConfirmRows(t) PROVE CallInv'
  <2>1. PICK f : f = IF call[t].file \in AiFiles THEN call[t].file ELSE upload[call[t].id]
    OBVIOUS
  <2>2. PICK c : c = [call[t] EXCEPT !.pc = "c_hashes", !.file = f] OBVIOUS
  <2>3. Moves(t, c) BY <1>2, <1>t, <2>1, <2>2 DEF ConfirmRows, Moves, TypeOK
  <2>4. call[t].id \in Ids /\ call[t].op = "confirm" BY <1>2, <1>t DEF ConfirmRows, Placed, ConfirmPcs
  <2>5. f \in Files BY <1>2, <1>t, <2>1, <2>4, FilesAssumption DEF ConfirmRows, TypeOK
  <2>6. c \in Call /\ c.op = "confirm" /\ c.pc = "c_hashes" /\ c.file = f /\ c.id = call[t].id
    BY <1>t, <2>2, <2>4, <2>5 DEF Call, ConfirmPcs
  <2>7. Placed(c) BY <2>4, <2>5, <2>6 DEF Placed, UploadPcs, ConfirmPcs, DeletePcs
  <2> QED BY <1>2, <1>t, <2>3, <2>4, <2>6, <2>7, TablesStay, CallStep DEF ConfirmRows, Follows
<1>3. ASSUME ConfirmMissing(t) PROVE CallInv'
  BY <1>3, <1>t, TablesStay, EndStep DEF ConfirmMissing
<1>4. ASSUME ConfirmRefused(t) PROVE CallInv'
  <2>1. call[t].id \in Ids BY <1>4, <1>t DEF ConfirmRefused, Placed, ConfirmPcs
  <2>2. PICK s : s = [statement[call[t].id] EXCEPT !.status = "failed"] OBVIOUS
  <2>3. s \in Statement /\ s.file = statement[call[t].id].file
    BY <1>t, <2>1, <2>2, StatusType DEF TypeOK
  <2>4. statement' = [statement EXCEPT ![call[t].id] = s] \/ statement' = statement
    BY <1>4, <1>t, <2>1, <2>2 DEF ConfirmRefused, TypeOK
  <2>5. statement' = statement \/ Exists(call[t].id)
    BY <1>4 DEF ConfirmRefused
  <2>6. TablesOK' BY <1>4, <1>t, <2>1, <2>3, <2>4, <2>5 DEF ConfirmRefused, TablesOK, TypeOK, Exists
  <2> QED BY <1>4, <2>6, EndStep DEF ConfirmRefused
<1>5. ASSUME ConfirmHashes(t) PROVE CallInv'
  <2>1. PICK e : e = {r.key : r \in {s \in RowsOf({call[t].file}) : Copies(call[t].account, s) # {}}}
    OBVIOUS
  <2>2. PICK c : c = [call[t] EXCEPT !.pc = "c_match", !.existing = e] OBVIOUS
  <2>3. Moves(t, c) BY <1>5, <1>t, <2>1, <2>2 DEF ConfirmHashes, Moves, TypeOK
  <2>4. call[t].id \in Ids /\ call[t].op = "confirm" /\ call[t].file \in Files
    BY <1>5, <1>t DEF ConfirmHashes, Placed, ConfirmPcs
  <2>5. \A r \in RowsOf({call[t].file}) : r.key \in STRING
    BY <2>4, KeysType
  <2>6. e \in SUBSET STRING BY <2>1, <2>5
  <2>7. c \in Call /\ c.op = "confirm" /\ c.pc = "c_match" /\ c.file = call[t].file /\ c.id = call[t].id
    BY <1>t, <2>2, <2>4, <2>6 DEF Call, ConfirmPcs
  <2>8. Placed(c) BY <2>4, <2>7 DEF Placed, UploadPcs, ConfirmPcs, DeletePcs
  <2> QED BY <1>5, <1>t, <2>3, <2>4, <2>7, <2>8, TablesStay, CallStep DEF ConfirmHashes, Follows
<1>6. ASSUME ConfirmMatch(t) PROVE CallInv'
  <2>1. PICK m \in CrossMatches(Rows[call[t].file], call[t].account) :
          call' = [call EXCEPT ![t].pc = "c_commit", ![t].high = m.high, ![t].low = m.low]
    BY <1>6 DEF ConfirmMatch
  <2>2. PICK c : c = [call[t] EXCEPT !.pc = "c_commit", !.high = m.high, !.low = m.low] OBVIOUS
  <2>3. Moves(t, c) BY <1>t, <2>1, <2>2 DEF Moves, TypeOK
  <2>4. call[t].id \in Ids /\ call[t].op = "confirm" /\ call[t].file \in Files
    BY <1>6, <1>t DEF ConfirmMatch, Placed, ConfirmPcs
  <2>5. m.high \in SUBSET Nat /\ m.low \in SUBSET Nat BY <2>1, <2>4, MatchesType
  <2>6. c \in Call /\ c.op = "confirm" /\ c.pc = "c_commit" /\ c.file = call[t].file /\ c.id = call[t].id
    BY <1>t, <2>2, <2>4, <2>5 DEF Call, ConfirmPcs
  <2>7. Placed(c) BY <2>4, <2>6 DEF Placed, UploadPcs, ConfirmPcs, DeletePcs
  <2> QED BY <1>6, <1>t, <2>3, <2>4, <2>6, <2>7, TablesStay, CallStep DEF ConfirmMatch, Follows
<1>7. ASSUME ConfirmCommit(t) PROVE CallInv'
  <2>1. call[t].id \in Ids BY <1>7, <1>t DEF ConfirmCommit, Placed, ConfirmPcs
  <2>2. PICK s : s = [statement[call[t].id] EXCEPT !.status = "imported"] OBVIOUS
  <2>3. s \in Statement /\ s.file = statement[call[t].id].file
    BY <1>t, <2>1, <2>2, StatusType DEF TypeOK
  <2>4. statement' = [statement EXCEPT ![call[t].id] = s]
    BY <1>7, <1>t, <2>1, <2>2 DEF ConfirmCommit, TypeOK
  <2>5. Exists(call[t].id) BY <1>7 DEF ConfirmCommit
  <2>6. TablesOK' BY <1>7, <1>t, <2>1, <2>3, <2>4, <2>5 DEF ConfirmCommit, TablesOK, TypeOK, Exists
  <2> QED BY <1>7, <2>6, EndStep DEF ConfirmCommit
<1>8. ASSUME ConfirmUndone(t) PROVE CallInv'
  BY <1>8, <1>t, TablesStay, EndStep DEF ConfirmUndone
<1> QED BY <1>1, <1>2, <1>3, <1>4, <1>5, <1>6, <1>7, <1>8 DEF Confirm

\* Deletions.
LEMMA DeleteCalls ==
  ASSUME CallInv, NEW t \in Callers, Delete(t), world' = world
  PROVE  CallInv'
<1>t. TypeOK /\ call[t] \in Call /\ Placed(call[t]) BY DEF CallInv, TypeOK
<1>1. ASSUME NEW i \in Ids, DeleteLoad(t, i) PROVE CallInv'
  <2>1. PICK c : c = [Idle EXCEPT !.op = "delete", !.pc = "d_unlink", !.id = i] OBVIOUS
  <2>2. c \in Call /\ Placed(c) /\ c.op = "delete"
    BY <2>1 DEF Idle, Call, Placed, UploadPcs, ConfirmPcs, DeletePcs, Ops
  <2>3. PICK s : s = [statement[i] EXCEPT !.unwanted = TRUE] OBVIOUS
  <2>4. s \in Statement /\ s.file = statement[i].file /\ s.status = statement[i].status
    BY <1>t, <2>3 DEF TypeOK, Statement
  <2>5. statement' = [statement EXCEPT ![i] = s] BY <1>1, <1>t, <2>3 DEF DeleteLoad, TypeOK
  <2>6. TablesOK' BY <1>1, <1>t, <2>4, <2>5 DEF DeleteLoad, TablesOK, TypeOK, Exists
  <2> QED BY <1>1, <2>1, <2>2, <2>6, CallStep DEF DeleteLoad, Moves, Follows
<1>2. ASSUME DeleteUnlink(t) PROVE CallInv'
  <2>1. PICK c : c = [call[t] EXCEPT !.pc = "d_commit"] OBVIOUS
  <2>2. Moves(t, c) BY <1>2, <1>t, <2>1 DEF DeleteUnlink, Goto, Moves, TypeOK
  <2>3. call[t].id \in Ids /\ call[t].op = "delete" BY <1>2, <1>t DEF DeleteUnlink, Placed, DeletePcs
  <2>4. c \in Call /\ c.op = "delete" /\ c.pc = "d_commit" /\ c.id = call[t].id
    BY <1>t, <2>1, <2>3 DEF Call, DeletePcs
  <2>5. Placed(c) BY <2>3, <2>4 DEF Placed, UploadPcs, ConfirmPcs, DeletePcs
  <2>6. TablesOK' BY <1>2, <1>t DEF DeleteUnlink, TablesOK, TypeOK, Exists
  <2> QED BY <1>2, <2>2, <2>3, <2>4, <2>5, <2>6, CallStep DEF DeleteUnlink, Follows
<1>3. ASSUME DeleteCommit(t) PROVE CallInv'
  <2>1. NoStatement \in Statement /\ NoStatement.status = "none" BY DEF NoStatement, Statement
  <2>2. TablesOK' BY <1>3, <1>t, <2>1 DEF DeleteCommit, TablesOK, TypeOK, Exists
  <2> QED BY <1>3, <2>2, EndStep DEF DeleteCommit
<1> QED BY <1>1, <1>2, <1>3 DEF Delete

\* Steps that move no call, and the end of all of them.
LEMMA QuietCalls ==
  ASSUME CallInv, world' = world, UNCHANGED <<accounts, statement, upload, writer, call>>
  PROVE  CallInv'
BY TablesStay DEF CallInv, TypeOK, TablesOK, KeptApart, Placed

\* A restart ends every call.
LEMMA CrashCalls ==
  ASSUME CallInv, world' = world, Crash
  PROVE  CallInv'
<1>1. Idle \in Call /\ Placed(Idle) /\ Idle.op = "none"
  BY DEF Idle, Call, Placed, UploadPcs, ConfirmPcs, DeletePcs
<1>2. \A t \in Callers : call'[t] = Idle BY DEF Crash
<1>3. TypeOK' BY <1>1 DEF Crash, CallInv, TypeOK, Exists
<1>4. \A A \in world.apart : "none" \notin A BY WorldsAssumption DEF CallInv, TypeOK, Ops
<1>5. KeptApart' BY <1>1, <1>2, <1>4 DEF KeptApart
<1>6. ASSUME NEW t \in Callers PROVE Placed(call[t])' BY <1>1, <1>2 DEF Placed
<1> QED BY <1>3, <1>5, <1>6 DEF CallInv

\* The types, the positions of the calls and that the household keeps its operations
\* apart are inductive.
LEMMA CallInvInit == Init => CallInv
<1> SUFFICES ASSUME Init PROVE CallInv OBVIOUS
<1>1. Idle \in Call /\ Placed(Idle) /\ Idle.op = "none"
  BY DEF Idle, Call, Placed, UploadPcs, ConfirmPcs, DeletePcs
<1>2. NoStatement \in Statement /\ NoStatement.status = "none" BY DEF NoStatement, Statement
<1>3. TypeOK BY <1>1, <1>2 DEF Init, TypeOK, Exists
<1>4. \A A \in world.apart : "none" \notin A BY WorldsAssumption DEF Init, Ops
<1> QED BY <1>1, <1>3, <1>4 DEF Init, CallInv, KeptApart

\* Every step keeps the calls as they should be.
LEMMA CallInvNext == CallInv /\ [Next]_vars => CallInv'
<1> SUFFICES ASSUME CallInv, [Next]_vars PROVE CallInv' OBVIOUS
<1>1. CASE UNCHANGED vars BY <1>1, QuietCalls DEF vars
<1>2. CASE Next
  <2>0. world' = world BY <1>2 DEF Next
  <2>1. ASSUME NEW t \in Callers, Upload(t) PROVE CallInv' BY <2>0, <2>1, UploadCalls
  <2>2. ASSUME NEW t \in Callers, Confirm(t) PROVE CallInv' BY <2>0, <2>2, ConfirmCalls
  <2>3. ASSUME NEW t \in Callers, Delete(t) PROVE CallInv' BY <2>0, <2>3, DeleteCalls
  <2>4. ASSUME NEW t \in Callers, Busy(t) PROVE CallInv'
    BY <2>0, <2>4, TablesStay, EndStep DEF Busy, CallInv
  <2>5. CASE Relink BY <2>0, <2>5, QuietCalls DEF Relink, ClearLink, SetLink
  <2>6. CASE Crash BY <2>0, <2>6, CrashCalls
  <2> QED BY <1>2, <2>1, <2>2, <2>3, <2>4, <2>5, <2>6 DEF Next
<1> QED BY <1>1, <1>2

\* Every variable of the import tables keeps its type, every call its position, and
\* what the household keeps apart stays apart.
THEOREM CallsFit == Spec => []CallInv
<1>1. Init => CallInv BY CallInvInit
<1>2. CallInv /\ [Next]_vars => CallInv' BY CallInvNext
<1> QED BY <1>1, <1>2, PTL DEF Spec

-----------------------------------------------------------------------------
(* HashOnce.                                                                *)

\* Of an operation that the household has one of, there is one call.
LEMMA AloneIn ==
  ASSUME CallInv, NEW op, OneAtATime(op), NEW t \in Callers, call[t].op = op,
         NEW u \in Callers, call[u].op = op
  PROVE  t = u
BY DEF CallInv, TypeOK, KeptApart, OneAtATime

HashInv == HashesKnown /\ HashOnce

\* Steps that store nothing, and move a call to where it need know no hashes or knows
\* what it knew.
LEMMA HashFrame ==
  ASSUME CallInv, HashInv, txns' = txns,
         \A t \in Callers :
           \/ call'[t].pc \notin {"c_match", "c_commit"}
           \/ /\ call[t].pc \in {"c_match", "c_commit"}
              /\ call'[t].file = call[t].file /\ call'[t].account = call[t].account
              /\ call'[t].existing = call[t].existing
  PROVE  HashInv'
<1>1. ASSUME NEW t \in Callers, call'[t].pc \in {"c_match", "c_commit"},
             NEW r \in RowsOf({call'[t].file}), NEW x \in txns, x.account = call'[t].account,
             x.row.key = r.key
      PROVE  r.key \in call'[t].existing
  <2>1. /\ call[t].pc \in {"c_match", "c_commit"} /\ call'[t].file = call[t].file
        /\ call'[t].account = call[t].account /\ call'[t].existing = call[t].existing
    BY <1>1
  <2>2. r \in RowsOf({call[t].file}) /\ x \in Copies(call[t].account, r) BY <1>1, <2>1 DEF Copies
  <2> QED BY <2>1, <2>2 DEF HashInv, HashesKnown
<1>2. HashesKnown' BY <1>1 DEF HashesKnown, Copies
<1>3. HashOnce' BY DEF HashInv, HashOnce
<1> QED BY <1>2, <1>3 DEF HashInv

\* A call that ends stores nothing.
LEMMA HashEnd ==
  ASSUME CallInv, HashInv, NEW t \in Callers, End(t), txns' = txns
  PROVE  HashInv'
<1>1. call'[t] = Idle /\ \A u \in Callers \ {t} : call'[u] = call[u]
  BY DEF End, CallInv, TypeOK
<1>2. ASSUME NEW u \in Callers
      PROVE  call'[u].pc \notin {"c_match", "c_commit"} \/ call'[u] = call[u]
  BY <1>1 DEF Idle
<1> QED BY <1>2, HashFrame

\* What a confirm stores has no copy in its account.
LEMMA PersistedOnce ==
  ASSUME CallInv, HashInv, NEW t \in Callers, call[t].pc = "c_commit",
         NEW x \in Persisted(call[t])
  PROVE  x.copy = 1
<1>1. PICK i \in Fresh(call[t]) :
        x.copy = 1 + Cardinality(Copies(call[t].account, Rows[call[t].file][i]))
  BY DEF Persisted
<1>2. PICK r : r = Rows[call[t].file][i] OBVIOUS
<1>3. r \in RowsOf({call[t].file}) /\ r.key \notin call[t].existing
  BY <1>1, <1>2 DEF Fresh, RowsOf
<1>4. Copies(call[t].account, r) = {} BY <1>3 DEF HashInv, HashesKnown
<1> QED BY <1>1, <1>2, <1>4, FS_EmptySet

\* With one confirm at a time no step stores a row twice.
LEMMA HashNext ==
  ASSUME CallInv, HashInv, OneAtATime("confirm"), [Next]_vars
  PROVE  HashInv'
<1>t. TypeOK /\ call \in [Callers -> Call] /\ \A t \in Callers : Placed(call[t])
  BY DEF CallInv, TypeOK
<1>1. CASE UNCHANGED vars BY <1>1, HashFrame DEF vars
<1>2. ASSUME NEW t \in Callers, Upload(t) PROVE HashInv'
  <2>1. ASSUME NEW f \in world.files, UploadFind(t, f) PROVE HashInv'
    <3>1. PICK a : call' = [call EXCEPT ![t] = [Idle EXCEPT !.op = "upload", !.pc = "u_stage",
                                                          !.file = f, !.account = a]]
      BY <2>1 DEF UploadFind
    <3>2. call'[t].pc = "u_stage" BY <1>t, <3>1 DEF Idle
    <3>3. \A u \in Callers \ {t} : call'[u] = call[u] BY <1>t, <3>1
    <3> QED BY <2>1, <3>2, <3>3, HashFrame DEF UploadFind
  <2>2. ASSUME UploadStage(t) PROVE HashInv'
    <3>1. call'[t].pc = "u_commit" BY <1>t, <2>2 DEF UploadStage, Call
    <3>2. \A u \in Callers \ {t} : call'[u] = call[u] BY <1>t, <2>2 DEF UploadStage
    <3> QED BY <2>2, <3>1, <3>2, HashFrame DEF UploadStage
  <2>3. ASSUME UploadCommit(t) PROVE HashInv' BY <2>3, HashEnd DEF UploadCommit
  <2> QED BY <1>2, <2>1, <2>2, <2>3 DEF Upload
<1>3. ASSUME NEW t \in Callers, Confirm(t) PROVE HashInv'
  <2>1. ASSUME NEW i \in Ids, ConfirmLoad(t, i) PROVE HashInv'
    <3>1. call'[t].pc = "c_rows" BY <1>t, <2>1 DEF ConfirmLoad, Idle
    <3>2. \A u \in Callers \ {t} : call'[u] = call[u] BY <1>t, <2>1 DEF ConfirmLoad
    <3> QED BY <2>1, <3>1, <3>2, HashFrame DEF ConfirmLoad
  <2>2. ASSUME ConfirmRows(t) PROVE HashInv'
    <3>1. call'[t].pc = "c_hashes" BY <1>t, <2>2 DEF ConfirmRows, Call
    <3>2. \A u \in Callers \ {t} : call'[u] = call[u] BY <1>t, <2>2 DEF ConfirmRows
    <3> QED BY <2>2, <3>1, <3>2, HashFrame DEF ConfirmRows
  <2>3. ASSUME ConfirmMissing(t) PROVE HashInv' BY <2>3, HashEnd DEF ConfirmMissing
  <2>4. ASSUME ConfirmRefused(t) PROVE HashInv' BY <2>4, HashEnd DEF ConfirmRefused
  <2>5. ASSUME ConfirmHashes(t) PROVE HashInv'
    <3>1. PICK e : e = {r.key : r \in {s \in RowsOf({call[t].file}) :
                                         Copies(call[t].account, s) # {}}}
      OBVIOUS
    <3>2. call'[t] = [call[t] EXCEPT !.pc = "c_match", !.existing = e]
      BY <1>t, <2>5, <3>1 DEF ConfirmHashes
    <3>3. /\ call'[t].file = call[t].file /\ call'[t].account = call[t].account
          /\ call'[t].existing = e
      BY <1>t, <3>2 DEF Call
    <3>4. \A u \in Callers \ {t} : call'[u] = call[u] BY <1>t, <2>5 DEF ConfirmHashes
    <3>5. txns' = txns BY <2>5 DEF ConfirmHashes
    <3>6. \A r \in RowsOf({call[t].file}) : Copies(call[t].account, r) # {} => r.key \in e
      BY <3>1
    <3>7. ASSUME NEW u \in Callers, call'[u].pc \in {"c_match", "c_commit"},
                 NEW r \in RowsOf({call'[u].file}),
                 {x \in txns : x.account = call'[u].account /\ x.row.key = r.key} # {}
          PROVE  r.key \in call'[u].existing
      <4>1. CASE u = t BY <3>3, <3>6, <3>7, <4>1 DEF Copies
      <4>2. CASE u # t BY <3>4, <3>7, <4>2 DEF HashInv, HashesKnown, Copies
      <4> QED BY <4>1, <4>2
    <3>8. HashesKnown' BY <3>5, <3>7 DEF HashesKnown, Copies
    <3> QED BY <3>5, <3>8 DEF HashInv, HashOnce
  <2>6. ASSUME ConfirmMatch(t) PROVE HashInv'
    <3>1. PICK m : call' = [call EXCEPT ![t].pc = "c_commit", ![t].high = m.high, ![t].low = m.low]
      BY <2>6 DEF ConfirmMatch
    <3>2. /\ call[t].pc = "c_match"
          /\ call'[t].file = call[t].file /\ call'[t].account = call[t].account
          /\ call'[t].existing = call[t].existing
      BY <1>t, <2>6, <3>1 DEF ConfirmMatch, Call
    <3>3. \A u \in Callers \ {t} : call'[u] = call[u] BY <1>t, <3>1
    <3> QED BY <2>6, <3>2, <3>3, HashFrame DEF ConfirmMatch
  <2>7. ASSUME ConfirmCommit(t) PROVE HashInv'
    <3>1. txns' = txns \cup Persisted(call[t]) /\ call[t].pc = "c_commit"
      BY <2>7 DEF ConfirmCommit
    <3>2. HashOnce' BY <3>1, PersistedOnce DEF HashInv, HashOnce
    <3>3. call'[t] = Idle /\ \A u \in Callers \ {t} : call'[u] = call[u]
      BY <1>t, <2>7 DEF ConfirmCommit, End
    <3>4. \A u \in Callers \ {t} : call[u].pc \notin {"c_match", "c_commit"}
      BY <1>t, <3>1, AloneIn DEF Placed, ConfirmPcs
    <3>5. HashesKnown' BY <3>3, <3>4 DEF HashesKnown, Idle
    <3> QED BY <3>2, <3>5 DEF HashInv
  <2>8. ASSUME ConfirmUndone(t) PROVE HashInv' BY <2>8, HashEnd DEF ConfirmUndone
  <2> QED BY <1>3, <2>1, <2>2, <2>3, <2>4, <2>5, <2>6, <2>7, <2>8 DEF Confirm
<1>4. ASSUME NEW t \in Callers, Delete(t) PROVE HashInv'
  <2>1. ASSUME NEW i \in Ids, DeleteLoad(t, i) PROVE HashInv'
    <3>1. call'[t].pc = "d_unlink" BY <1>t, <2>1 DEF DeleteLoad, Idle
    <3>2. \A u \in Callers \ {t} : call'[u] = call[u] BY <1>t, <2>1 DEF DeleteLoad
    <3> QED BY <2>1, <3>1, <3>2, HashFrame DEF DeleteLoad
  <2>2. ASSUME DeleteUnlink(t) PROVE HashInv'
    <3>1. call'[t].pc = "d_commit" BY <1>t, <2>2 DEF DeleteUnlink, Goto, Call
    <3>2. \A u \in Callers \ {t} : call'[u] = call[u] BY <1>t, <2>2 DEF DeleteUnlink, Goto
    <3> QED BY <2>2, <3>1, <3>2, HashFrame DEF DeleteUnlink
  <2>3. ASSUME DeleteCommit(t) PROVE HashInv' BY <2>3, HashEnd DEF DeleteCommit
  <2> QED BY <1>4, <2>1, <2>2, <2>3 DEF Delete
<1>5. ASSUME NEW t \in Callers, Busy(t) PROVE HashInv' BY <1>5, HashEnd DEF Busy
<1>6. CASE Relink BY <1>6, HashFrame DEF Relink, ClearLink, SetLink
<1>7. CASE Crash BY <1>7, HashFrame DEF Crash, Idle
<1> QED BY <1>1, <1>2, <1>3, <1>4, <1>5, <1>6, <1>7 DEF Next

\* A household that confirms one statement at a time never stores a row twice in an
\* account: whatever is uploaded again, confirmed again after a failure or a restart,
\* deleted and uploaded meanwhile (confirm_import, _existing_hashes_for, _persist_rows).
THEOREM HashTheorem ==
  ASSUME OneAtATime("confirm")
  PROVE  Spec => []HashOnce
<1>1. Init => HashInv BY DEF Init, HashInv, HashesKnown, HashOnce, Idle
<1>2. CallInv /\ HashInv /\ [Next]_vars => HashInv' BY HashNext
<1>3. HashInv => HashOnce BY DEF HashInv
<1>4. Spec => []CallInv BY CallsFit
<1> QED BY <1>1, <1>2, <1>3, <1>4, PTL DEF Spec

-----------------------------------------------------------------------------
(* StaysConfirmable.                                                        *)

\* A statement that nobody asked to delete has its file, whatever its status: a confirm
\* that is late may mark an imported one as failed.
FilesThere ==
  \A i \in Ids : Exists(i) /\ ~statement[i].unwanted => upload[i] = statement[i].file

FileInv == StagedFits /\ DeleteMarked /\ FilesThere

\* A call that neither stages an upload nor deletes.
Harmless(c) == c.pc # "u_commit" /\ c.op # "delete"

\* Steps that change neither files nor whose writer it is, nor which statements there are,
\* of which file, and unwanted; a call goes on as it is, or harmless.
LEMMA FileQuiet ==
  ASSUME CallInv, FileInv, UNCHANGED <<upload, writer>>,
         \A i \in Ids : /\ Exists(i)' = Exists(i) /\ statement'[i].file = statement[i].file
                        /\ statement'[i].unwanted = statement[i].unwanted,
         \A u \in Callers : call'[u] = call[u] \/ (Harmless(call'[u]) /\ call[u].pc # "u_commit")
  PROVE  FileInv'
<1>p. \A u \in Callers : Placed(call[u]) BY DEF CallInv
<1>1. StagedFits' BY <1>p DEF FileInv, StagedFits, Harmless, Exists, Placed
<1>2. DeleteMarked' BY <1>p DEF FileInv, DeleteMarked, Harmless, Exists, Placed, DeletePcs
<1>3. FilesThere' BY DEF FileInv, FilesThere, Exists
<1> QED BY <1>1, <1>2, <1>3 DEF FileInv

\* A call that is no upload at its commit ends, having set a status at most.
LEMMA FileEnd ==
  ASSUME CallInv, FileInv, NEW t \in Callers, End(t), call[t].pc # "u_commit",
         UNCHANGED <<upload, writer>>,
         \A i \in Ids : /\ Exists(i)' = Exists(i) /\ statement'[i].file = statement[i].file
                        /\ statement'[i].unwanted = statement[i].unwanted
  PROVE  FileInv'
<1>1. call'[t] = Idle /\ \A u \in Callers \ {t} : call'[u] = call[u]
  BY DEF End, CallInv, TypeOK
<1> QED BY <1>1, FileQuiet DEF Idle, Harmless

\* Setting the status of a statement.
LEMMA StatusSet ==
  ASSUME CallInv, NEW i \in Ids, Exists(i), NEW s \in {"failed", "imported"},
         statement' = [statement EXCEPT ![i].status = s]
  PROVE  \A j \in Ids : /\ Exists(j)' = Exists(j) /\ statement'[j].file = statement[j].file
                        /\ statement'[j].unwanted = statement[j].unwanted
<1>1. PICK d : d = [statement[i] EXCEPT !.status = s] OBVIOUS
<1>2. statement[i] \in Statement /\ statement' = [statement EXCEPT ![i] = d]
  BY <1>1 DEF CallInv, TypeOK
<1>3. d.status = s /\ d.file = statement[i].file /\ d.unwanted = statement[i].unwanted
  BY <1>1, <1>2 DEF Statement
<1> QED BY <1>2, <1>3 DEF CallInv, TypeOK, Exists

\* An upload adds its file before its statement,
LEMMA FileUpload ==
  ASSUME CallInv, FileInv, NEW t \in Callers, Upload(t)
  PROVE  FileInv'
<1>t. TypeOK /\ call[t] \in Call /\ \A u \in Callers : Placed(call[u]) BY DEF CallInv, TypeOK
<1>1. ASSUME NEW f \in world.files, UploadFind(t, f) PROVE FileInv'
  <2>1. PICK a : call' = [call EXCEPT ![t] = [Idle EXCEPT !.op = "upload", !.pc = "u_stage",
                                                        !.file = f, !.account = a]]
    BY <1>1 DEF UploadFind
  <2>2. Harmless(call'[t]) BY <1>t, <2>1 DEF Idle, Harmless, TypeOK
  <2>3. call[t].pc # "u_commit" BY <1>1 DEF UploadFind, Free, Idle
  <2>4. \A u \in Callers \ {t} : call'[u] = call[u] BY <1>t, <2>1 DEF TypeOK
  <2> QED BY <1>1, <2>2, <2>3, <2>4, FileQuiet DEF UploadFind, Exists
<1>2. ASSUME UploadStage(t) PROVE FileInv'
  <2>1. PICK n : n = NextId OBVIOUS
  <2>2. n \in Ids /\ ~Exists(n) BY <1>2, <1>t, <2>1, NextIdIsFree DEF UploadStage
  <2>3. PICK c : c = [call[t] EXCEPT !.pc = "u_commit", !.id = n,
                                     !.account = IF @ = 0 THEN Len(accounts) + 1 ELSE @]
    OBVIOUS
  <2>4. call' = [call EXCEPT ![t] = c] BY <1>2, <1>t, <2>1, <2>3 DEF UploadStage, TypeOK
  <2>5. c.pc = "u_commit" /\ c.id = n /\ c.file = call[t].file /\ c.op = call[t].op
    BY <1>t, <2>3 DEF Call
  <2>6. call'[t] = c /\ \A u \in Callers \ {t} : call'[u] = call[u] BY <1>t, <2>4 DEF TypeOK
  <2>7. call[t].op = "upload" BY <1>2, <1>t DEF UploadStage, Placed, UploadPcs
  <2>8. /\ statement' = statement /\ writer' = {t}
        /\ upload' = [upload EXCEPT ![n] = call[t].file]
        /\ writer \subseteq {t} /\ call[t].pc = "u_stage"
    BY <1>2, <2>1 DEF UploadStage, CanWrite
  <2>9. upload'[n] = call[t].file /\ \A i \in Ids \ {n} : upload'[i] = upload[i]
    BY <1>t, <2>2, <2>8 DEF TypeOK
  <2>10. \A u \in Callers \ {t} : call[u].pc # "u_commit" BY <2>8 DEF FileInv, StagedFits
  <2>11. StagedFits' BY <2>2, <2>5, <2>6, <2>8, <2>9, <2>10 DEF StagedFits, Exists
  <2>12. DeleteMarked' BY <2>5, <2>6, <2>7, <2>8 DEF FileInv, DeleteMarked, Exists
  <2>13. FilesThere' BY <2>2, <2>8, <2>9 DEF FileInv, FilesThere, Exists
  <2> QED BY <2>11, <2>12, <2>13 DEF FileInv
<1>3. ASSUME UploadCommit(t) PROVE FileInv'
  <2>1. call[t].pc = "u_commit" /\ writer' = {} /\ upload' = upload
    BY <1>3 DEF UploadCommit
  <2>2. PICK i \in Ids : i = call[t].id BY <1>t, <2>1 DEF Placed
  <2>3. statement' = [statement EXCEPT ![i] =
                        [status |-> "pending", file |-> call[t].file,
                         account |-> call[t].account, unwanted |-> FALSE]]
    BY <1>3, <2>2 DEF UploadCommit
  <2>4. statement'[i].file = call[t].file /\ \A j \in Ids \ {i} : statement'[j] = statement[j]
    BY <1>t, <2>3 DEF TypeOK
  <2>5. ~Exists(i) /\ upload[i] = call[t].file BY <2>1, <2>2 DEF FileInv, StagedFits
  <2>6. call'[t] = Idle /\ \A u \in Callers \ {t} : call'[u] = call[u]
    BY <1>3, <1>t DEF UploadCommit, End, TypeOK
  <2>7. \A u \in Callers \ {t} : call[u].pc # "u_commit" BY <2>1 DEF FileInv, StagedFits
  <2>8. StagedFits' BY <2>1, <2>6, <2>7 DEF StagedFits, Idle
  <2>9. ASSUME NEW u \in Callers, call'[u].op = "delete"
        PROVE  statement'[call'[u].id].status # "none" /\ statement'[call'[u].id].unwanted
    <3>1. u # t BY <2>6, <2>9 DEF Idle
    <3>2. call'[u] = call[u] /\ Exists(call[u].id) /\ statement[call[u].id].unwanted
      BY <2>6, <2>9, <3>1 DEF FileInv, DeleteMarked
    <3>3. call[u].id \in Ids \ {i} BY <1>t, <2>5, <2>9, <3>2 DEF Placed, DeletePcs
    <3> QED BY <2>4, <3>2, <3>3 DEF Exists
  <2>10. DeleteMarked' BY <2>9 DEF DeleteMarked, Exists
  <2>11. FilesThere' BY <2>1, <2>4, <2>5 DEF FileInv, FilesThere, Exists
  <2> QED BY <2>8, <2>10, <2>11 DEF FileInv
<1> QED BY <1>1, <1>2, <1>3 DEF Upload

\* a confirm settles a statement and leaves its file,
LEMMA FileConfirm ==
  ASSUME CallInv, FileInv, NEW t \in Callers, Confirm(t)
  PROVE  FileInv'
<1>t. TypeOK /\ call[t] \in Call /\ Placed(call[t]) BY DEF CallInv, TypeOK
<1> DEFINE OnlyT == \A u \in Callers \ {t} : call'[u] = call[u]
           Same == UNCHANGED <<statement, upload, writer>>
<1>q. ASSUME OnlyT, Same, Harmless(call'[t]), call[t].pc # "u_commit" PROVE FileInv'
  BY <1>q, FileQuiet DEF Exists
<1>1. ASSUME NEW i \in Ids, ConfirmLoad(t, i) PROVE FileInv'
  <2>1. OnlyT BY <1>1, <1>t DEF ConfirmLoad, TypeOK
  <2>2. Harmless(call'[t]) BY <1>1, <1>t DEF ConfirmLoad, Idle, Harmless, TypeOK
  <2>3. call[t].pc # "u_commit" BY <1>1 DEF ConfirmLoad, Free, Idle
  <2> QED BY <1>1, <2>1, <2>2, <2>3, <1>q DEF ConfirmLoad
<1>2. ASSUME ConfirmRows(t) PROVE FileInv'
  <2>1. OnlyT BY <1>2, <1>t DEF ConfirmRows, TypeOK
  <2>2. Harmless(call'[t]) /\ call[t].pc # "u_commit"
    BY <1>2, <1>t DEF ConfirmRows, Call, Harmless, TypeOK, Placed, ConfirmPcs, DeletePcs
  <2> QED BY <1>2, <2>1, <2>2, <1>q DEF ConfirmRows
<1>3. ASSUME ConfirmMissing(t) PROVE FileInv'
  BY <1>3, FileEnd DEF ConfirmMissing, Exists
<1>4. ASSUME ConfirmRefused(t) PROVE FileInv'
  <2>1. call[t].id \in Ids BY <1>4, <1>t DEF ConfirmRefused, Placed, ConfirmPcs
  <2>2. CASE Exists(call[t].id)
    BY <1>4, <2>1, <2>2, StatusSet, FileEnd DEF ConfirmRefused
  <2>3. CASE ~Exists(call[t].id)
    BY <1>4, <2>3, FileEnd DEF ConfirmRefused, Exists
  <2> QED BY <2>2, <2>3
<1>5. ASSUME ConfirmHashes(t) PROVE FileInv'
  <2>1. OnlyT BY <1>5, <1>t DEF ConfirmHashes, TypeOK
  <2>2. Harmless(call'[t]) /\ call[t].pc # "u_commit"
    BY <1>5, <1>t DEF ConfirmHashes, Call, Harmless, TypeOK, Placed, ConfirmPcs, DeletePcs
  <2> QED BY <1>5, <2>1, <2>2, <1>q DEF ConfirmHashes
<1>6. ASSUME ConfirmMatch(t) PROVE FileInv'
  <2>0. PICK m : call' = [call EXCEPT ![t].pc = "c_commit", ![t].high = m.high, ![t].low = m.low]
    BY <1>6 DEF ConfirmMatch
  <2>1. OnlyT BY <1>t, <2>0 DEF TypeOK
  <2>2. Harmless(call'[t]) /\ call[t].pc # "u_commit"
    BY <1>6, <1>t, <2>0 DEF ConfirmMatch, Call, Harmless, TypeOK, Placed, ConfirmPcs, DeletePcs
  <2> QED BY <1>6, <2>1, <2>2, <1>q DEF ConfirmMatch
<1>7. ASSUME ConfirmCommit(t) PROVE FileInv'
  <2>1. call[t].id \in Ids BY <1>7, <1>t DEF ConfirmCommit, Placed, ConfirmPcs
  <2> QED BY <1>7, <2>1, StatusSet, FileEnd DEF ConfirmCommit
<1>8. ASSUME ConfirmUndone(t) PROVE FileInv'
  BY <1>8, FileEnd DEF ConfirmUndone, Exists
<1> QED BY <1>1, <1>2, <1>3, <1>4, <1>5, <1>6, <1>7, <1>8 DEF Confirm

\* A deletion takes the file and the row of a statement that is unwanted; no upload is
\* staged under its id, as that is not free.
LEMMA FileDelete ==
  ASSUME CallInv, FileInv, OneAtATime("delete"), NEW t \in Callers, Delete(t)
  PROVE  FileInv'
<1>t. TypeOK /\ call[t] \in Call /\ \A u \in Callers : Placed(call[u]) BY DEF CallInv, TypeOK
<1>1. ASSUME NEW i \in Ids, DeleteLoad(t, i) PROVE FileInv'
  <2>1. PICK d : d = [statement[i] EXCEPT !.unwanted = TRUE] OBVIOUS
  <2>2. statement' = [statement EXCEPT ![i] = d] /\ statement[i] \in Statement
    BY <1>1, <1>t, <2>1 DEF DeleteLoad, TypeOK
  <2>3. d.unwanted /\ d.status = statement[i].status /\ d.file = statement[i].file
    BY <2>1, <2>2 DEF Statement
  <2>4. statement'[i] = d /\ \A j \in Ids \ {i} : statement'[j] = statement[j]
    BY <1>t, <2>2 DEF TypeOK
  <2>5. \A j \in Ids : Exists(j)' = Exists(j) /\ (statement[j].unwanted => statement'[j].unwanted)
    BY <2>3, <2>4 DEF Exists
  <2>6. call'[t].op = "delete" /\ call'[t].pc = "d_unlink" /\ call'[t].id = i
    BY <1>1, <1>t DEF DeleteLoad, Idle, TypeOK
  <2>7. \A u \in Callers \ {t} : call'[u] = call[u] BY <1>1, <1>t DEF DeleteLoad, TypeOK
  <2>8. upload' = upload /\ writer' = writer /\ Exists(i) /\ call[t].pc = "idle"
    BY <1>1 DEF DeleteLoad, Free, Idle
  <2>9. StagedFits' BY <1>t, <2>5, <2>6, <2>7, <2>8 DEF FileInv, StagedFits, Placed, Exists
  <2>10. DeleteMarked'
    BY <1>t, <2>3, <2>4, <2>5, <2>6, <2>7, <2>8 DEF FileInv, DeleteMarked, Placed, DeletePcs, Exists
  <2>11. FilesThere' BY <2>3, <2>4, <2>8 DEF FileInv, FilesThere, Exists
  <2> QED BY <2>9, <2>10, <2>11 DEF FileInv
<1>2. ASSUME DeleteUnlink(t) PROVE FileInv'
  <2>1. PICK i \in Ids : i = call[t].id BY <1>2, <1>t DEF DeleteUnlink, Placed
  <2>2. call[t].op = "delete" /\ call[t].pc = "d_unlink"
    BY <1>2, <1>t DEF DeleteUnlink, Placed, DeletePcs
  <2>3. Exists(i) /\ statement[i].unwanted BY <2>1, <2>2 DEF FileInv, DeleteMarked
  <2>4. \A j \in Ids \ {i} : upload'[j] = upload[j]
    BY <1>2, <1>t, <2>1 DEF DeleteUnlink, TypeOK
  <2>5. statement' = statement /\ writer' = writer BY <1>2 DEF DeleteUnlink
  <2>6. call'[t].op = "delete" /\ call'[t].pc = "d_commit" /\ call'[t].id = i
    BY <1>2, <1>t, <2>1, <2>2 DEF DeleteUnlink, Goto, TypeOK, Call
  <2>7. \A u \in Callers \ {t} : call'[u] = call[u] BY <1>2, <1>t DEF DeleteUnlink, Goto, TypeOK
  <2>8. StagedFits'
    BY <1>t, <2>2, <2>3, <2>4, <2>5, <2>6, <2>7 DEF FileInv, StagedFits, Exists, Placed
  <2>9. DeleteMarked' BY <2>3, <2>5, <2>6, <2>7 DEF FileInv, DeleteMarked, Exists
  <2>10. FilesThere' BY <2>3, <2>4, <2>5 DEF FileInv, FilesThere, Exists
  <2> QED BY <2>8, <2>9, <2>10 DEF FileInv
<1>3. ASSUME DeleteCommit(t) PROVE FileInv'
  <2>1. PICK i \in Ids : i = call[t].id BY <1>3, <1>t DEF DeleteCommit, Placed
  <2>2. call[t].op = "delete" /\ call[t].pc = "d_commit" /\ writer \subseteq {t}
    BY <1>3, <1>t DEF DeleteCommit, Placed, DeletePcs, CanWrite
  <2>3. statement'[i] = NoStatement /\ \A j \in Ids \ {i} : statement'[j] = statement[j]
    BY <1>3, <1>t, <2>1 DEF DeleteCommit, TypeOK
  <2>4. upload' = upload /\ writer' = writer BY <1>3 DEF DeleteCommit
  <2>5. call'[t] = Idle /\ \A u \in Callers \ {t} : call'[u] = call[u]
    BY <1>3, <1>t DEF DeleteCommit, End, TypeOK
  <2>6. \A u \in Callers : call[u].pc # "u_commit" BY <2>2 DEF FileInv, StagedFits
  <2>7. \A u \in Callers \ {t} : call[u].op # "delete" BY <2>2, AloneIn
  <2>8. StagedFits' BY <2>4, <2>5, <2>6 DEF FileInv, StagedFits, Idle
  <2>9. DeleteMarked' BY <2>5, <2>7 DEF DeleteMarked, Idle
  <2>10. FilesThere' BY <2>3, <2>4 DEF FileInv, FilesThere, Exists, NoStatement
  <2> QED BY <2>8, <2>9, <2>10 DEF FileInv
<1> QED BY <1>1, <1>2, <1>3 DEF Delete

\* and with one deletion at a time every step leaves a waiting statement its file.
LEMMA FileNext ==
  ASSUME CallInv, FileInv, OneAtATime("delete"), [Next]_vars
  PROVE  FileInv'
<1>1. CASE UNCHANGED vars BY <1>1, FileQuiet DEF vars, Exists
<1>2. ASSUME NEW t \in Callers, Upload(t) PROVE FileInv' BY <1>2, FileUpload
<1>3. ASSUME NEW t \in Callers, Confirm(t) PROVE FileInv' BY <1>3, FileConfirm
<1>4. ASSUME NEW t \in Callers, Delete(t) PROVE FileInv' BY <1>4, FileDelete
<1>5. ASSUME NEW t \in Callers, Busy(t) PROVE FileInv' BY <1>5, FileEnd DEF Busy, Exists
<1>6. CASE Relink BY <1>6, FileQuiet DEF Relink, ClearLink, SetLink, Exists
<1>7. CASE Crash
  <2>1. StagedFits' BY <1>7 DEF Crash, StagedFits, Idle
  <2>2. DeleteMarked' BY <1>7 DEF Crash, DeleteMarked, Idle
  <2>3. FilesThere' BY <1>7 DEF Crash, FileInv, FilesThere, Exists
  <2> QED BY <2>1, <2>2, <2>3 DEF FileInv
<1> QED BY <1>1, <1>2, <1>3, <1>4, <1>5, <1>6, <1>7 DEF Next

\* A household that deletes one statement at a time can confirm every statement that
\* waits and that it has not asked to delete: uploads/<id> holds its own file, although
\* ids are given away again, uploads are cut short and confirms come late
\* (create_import, delete_import, confirm_import).
THEOREM FileTheorem ==
  ASSUME OneAtATime("delete")
  PROVE  Spec => []StaysConfirmable
<1>1. Init => FileInv
  BY DEF Init, FileInv, StagedFits, DeleteMarked, FilesThere, Exists, Idle, NoStatement
<1>2. CallInv /\ FileInv /\ [Next]_vars => FileInv' BY FileNext
<1>3. FileInv => StaysConfirmable BY DEF FileInv, FilesThere, StaysConfirmable, Exists
<1>4. Spec => []CallInv BY CallsFit
<1> QED BY <1>1, <1>2, <1>3, <1>4, PTL DEF Spec
=============================================================================
