--------------------------- MODULE AIGatewayProofs ---------------------------
(***************************************************************************)
(* Proofs about AIGateway, for every set of threads, requests,             *)
(* transactions and settings profiles.                                     *)
(***************************************************************************)
EXTENDS AIGateway, TLAPS

\* What a call c holds at each of its steps, when the audit rows are rows.
Holds(c, rows) ==
  /\ c.pc \in ApprovePcs \cup {"w_gate", "w_send", "w_commit"} =>
       c.req \in Reqs /\ rows[c.req] # NoRow
  /\ c.pc \in {"w_gate", "w_send", "w_commit"} => c.req \in c.queue
  /\ c.pc \in {"d_send", "d_commit"} => c.req \in Reqs
  /\ c.pc \in DirectPcs => c.seen \in PRIVACY_MODES
  /\ c.pc = "s_commit" => \A r \in c.drop : rows[r] # NoRow
  /\ \A r \in c.queue : rows[r] # NoRow

CallsHold == call \in [Threads -> Call] /\ \A t \in Threads : Holds(call[t], row)

TypeInv == TypeOK /\ CallsHold

\* A row is never deleted, and rows keep their type.
RowsGrow ==
  /\ row' \in [Reqs -> Row \cup {NoRow}]
  /\ \A r \in Reqs : row[r] # NoRow => row'[r] # NoRow

\* A row whose status or approval is overwritten is a row.
LEMMA RowUpdate ==
  ASSUME NEW d \in Row, NEW s \in {"pending", "completed", "failed", "rejected"},
         NEW a \in {"not_required", "pending", "approved", "rejected"}
  PROVE  [d EXCEPT !.status = s, !.approval = a] \in Row /\ [d EXCEPT !.status = s] \in Row
BY DEF Row

\* One row that is there is replaced by another row.
LEMMA RowsReplace ==
  ASSUME TypeOK, NEW r \in Reqs, NEW d \in Row, row' = [row EXCEPT ![r] = d]
  PROVE  RowsGrow
BY NothingAssumption DEF TypeOK, RowsGrow

\* Settling a request replaces its row by a row.
LEMMA SettleGrows ==
  ASSUME TypeOK, NEW r \in Reqs, row[r] \in Row, NEW reply, Settle(r, reply)
  PROVE  RowsGrow
<1>1. [row[r] EXCEPT !.status = Outcome(reply), !.approval = "approved"] \in Row
  BY RowUpdate DEF Outcome
<1> QED BY <1>1, RowsReplace DEF Settle

\* A step that leaves the audit rows alone.
LEMMA RowsSame == ASSUME TypeOK, row' = row PROVE RowsGrow
BY DEF TypeOK, RowsGrow

\* The rows grow, and no call moves.
LEMMA CallsStay == ASSUME TypeInv, RowsGrow, call' = call PROVE CallsHold'
BY DEF TypeInv, CallsHold, RowsGrow, Holds, Call

\* The rows grow, and one thread's call becomes c.
LEMMA CallsMove ==
  ASSUME TypeInv, RowsGrow, NEW t \in Threads, NEW c \in Call, Becomes(t, c), Holds(c, row')
  PROVE  CallsHold'
<1>1. call' \in [Threads -> Call] /\ call'[t] = c /\ \A u \in Threads \ {t} : call'[u] = call[u]
  BY DEF Becomes, TypeInv, TypeOK
<1>2. ASSUME NEW u \in Threads \ {t} PROVE Holds(call'[u], row')
  <2>1. call'[u] = call[u] /\ call[u] \in Call /\ Holds(call[u], row)
    BY <1>1, <1>2 DEF TypeInv, TypeOK, CallsHold
  <2> QED BY <2>1 DEF Holds, RowsGrow, Call
<1> QED BY <1>1, <1>2 DEF CallsHold

\* An idle call holds nothing.
LEMMA IdleHolds == Idle \in Call /\ \A rows : Holds(Idle, rows)
BY DEF Idle, Call, Holds, Targets, ApprovePcs, DirectPcs

\* The provider in force is one of the destinations.
LEMMA ProviderType == ASSUME TypeOK PROVE get_provider \in Targets
BY DEF get_provider, Targets, TypeOK, PRIVACY_MODES, Urls

-----------------------------------------------------------------------------

\* The initial state has its types.
LEMMA TypeInit == Init => TypeInv
<1> SUFFICES ASSUME Init PROVE TypeInv OBVIOUS
<1>1. TypeOK
  BY IdleHolds DEF Init, TypeOK, PRIVACY_MODES, OFF_MODES, Urls
<1>2. ASSUME NEW t \in Threads PROVE Holds(call[t], row)
  BY <1>2, IdleHolds DEF Init
<1> QED BY <1>1, <1>2 DEF TypeInv, TypeOK, CallsHold

\* What users start or save keeps every type.
LEMMA TypeUser == TypeInv /\ UserStep => TypeInv'
<1> SUFFICES ASSUME TypeInv, UserStep PROVE TypeInv' OBVIOUS
<1> USE DEF settings, store, history
<1>0. TypeOK /\ CallsHold BY DEF TypeInv
<1>1. ASSUME NEW p \in Profiles, SaveMode(p[1], p[2]) PROVE TypeInv'
  <2>1. p[1] \in PRIVACY_MODES /\ p[2] \in Urls BY ProfilesAssumption
  <2>2. CallsHold' BY <1>0, <1>1, CallsStay, RowsSame DEF SaveMode
  <2> QED BY <1>0, <1>1, <2>1, <2>2 DEF SaveMode, TypeInv, TypeOK
<1>2. ASSUME NEW x \in Moves, Recategorise(x) PROVE TypeInv'
  <2>1. CallsHold' BY <1>0, <1>2, CallsStay, RowsSame DEF Recategorise
  <2> QED BY <1>0, <1>2, <2>1, SensitiveAssumption DEF Recategorise, TypeInv, TypeOK
<1>3. ASSUME NEW t \in Approvers, NEW r \in Reqs, Reject(t, r) PROVE TypeInv'
  <2>1. RowsGrow
    <3>1. row[r] \in Row BY <1>0, <1>3 DEF Reject, TypeOK
    <3>2. [row[r] EXCEPT !.status = "rejected", !.approval = "rejected"] \in Row
      BY <3>1, RowUpdate
    <3> QED BY <1>0, <1>3, <3>2, RowsReplace DEF Reject, TypeOK
  <2>2. CallsHold' BY <2>1, <1>3, CallsStay DEF Reject
  <2> QED BY <1>0, <1>3, <2>1, <2>2 DEF Reject, TypeInv, TypeOK, RowsGrow
<1>4. ASSUME NEW t \in Approvers, NEW r \in Reqs, DismissItem(t, r) PROVE TypeInv'
  <2>1. CallsHold' BY <1>0, <1>4, CallsStay, RowsSame DEF DismissItem
  <2> QED BY <1>0, <1>4, <2>1 DEF DismissItem, TypeInv, TypeOK
<1>5. CASE Prepare
  <2>0. PICK new \in SUBSET Free \ {{}} : \E of \in Injection(new, Txns) :
          /\ row' = [r \in Reqs |-> IF r \in new
                                    THEN [status |-> "pending", approval |-> "pending",
                                          staged |-> mode, txn |-> of[r]]
                                    ELSE row[r]]
          /\ sent' = [r \in Reqs |-> IF r \in new THEN 0 ELSE sent[r]]
          /\ unsaved' = unsaved \ new
    BY <1>5 DEF Prepare
  <2>1. PICK of \in Injection(new, Txns) :
          /\ row' = [r \in Reqs |-> IF r \in new
                                    THEN [status |-> "pending", approval |-> "pending",
                                          staged |-> mode, txn |-> of[r]]
                                    ELSE row[r]]
          /\ sent' = [r \in Reqs |-> IF r \in new THEN 0 ELSE sent[r]]
          /\ unsaved' = unsaved \ new
    BY <2>0
  <2>2. \A r \in new : of[r] \in Txns BY DEF Injection
  <2>3. RowsGrow BY <1>0, <2>1, <2>2 DEF RowsGrow, TypeOK, Row, Free
  <2>4. CallsHold' BY <2>3, <1>5, CallsStay DEF Prepare
  <2> QED BY <1>0, <1>5, <2>1, <2>3, <2>4 DEF Prepare, TypeInv, TypeOK, RowsGrow
<1>6. ASSUME NEW t \in Directs, NEW x \in Txns, Classify(t, x) PROVE TypeInv'
  <2> DEFINE c == [Idle EXCEPT !.pc = "c_provider", !.txn = x, !.seen = mode]
  <2>1. c \in Call /\ Holds(c, row')
    BY <1>0, IdleHolds DEF Idle, Call, Holds, TypeOK, ApprovePcs, DirectPcs
  <2>2. CallsHold' BY <1>0, <1>6, <2>1, CallsMove, RowsSame DEF Classify, Threads
  <2> QED BY <1>0, <1>6, <2>2 DEF Classify, TypeInv, TypeOK, CallsHold
<1>7. ASSUME NEW t \in Directs, NEW approved \in BOOLEAN, Image(t, approved) PROVE TypeInv'
  <2> DEFINE c == [Idle EXCEPT !.pc = "i_provider", !.seen = mode]
  <2>1. c \in Call /\ Holds(c, row')
    BY <1>0, IdleHolds DEF Idle, Call, Holds, TypeOK, ApprovePcs, DirectPcs
  <2>2. CallsHold' BY <1>0, <1>7, <2>1, CallsMove, RowsSame DEF Image, Threads
  <2> QED BY <1>0, <1>7, <2>2 DEF Image, TypeInv, TypeOK, CallsHold
<1>8. ASSUME NEW t \in Approvers, NEW r \in Reqs, Approve(t, r) PROVE TypeInv'
  <2> DEFINE c == [Idle EXCEPT !.pc = "a_gate", !.req = r]
  <2>1. c \in Call /\ Holds(c, row')
    BY <1>0, <1>8, IdleHolds DEF Approve, Pending, Idle, Call, Holds, TypeOK, ApprovePcs, DirectPcs
  <2>2. CallsHold' BY <1>0, <1>8, <2>1, CallsMove, RowsSame DEF Approve, Threads
  <2> QED BY <1>0, <1>8, <2>2 DEF Approve, TypeInv, TypeOK, CallsHold
<1>9. ASSUME NEW t \in Starters, NEW approve \in SUBSET Staged,
             NEW reject \in SUBSET (Staged \ approve), Start(t, approve, reject)
      PROVE  TypeInv'
  <2> DEFINE c == [Idle EXCEPT !.pc = "s_reserve", !.drop = reject,
                     !.queue = {r \in approve : r \notin inflight /\ Pending(r)}]
  <2>1. c \in Call /\ Holds(c, row')
    BY <1>0, <1>9, IdleHolds DEF Start, Staged, Pending, Idle, Call, Holds, TypeOK, ApprovePcs, DirectPcs, StartPcs
  <2>2. CallsHold' BY <1>0, <1>9, <2>1, CallsMove, RowsSame DEF Start, Threads
  <2> QED BY <1>0, <1>9, <2>2 DEF Start, TypeInv, TypeOK, CallsHold
<1> QED BY <1>1, <1>2, <1>3, <1>4, <1>5, <1>6, <1>7, <1>8, <1>9 DEF UserStep

-----------------------------------------------------------------------------

\* Every step of a direct call keeps every type.
LEMMA TypeDirect == ASSUME TypeInv, NEW t \in Directs, DirectStep(t) PROVE TypeInv'
<1> USE DEF settings, store, history
<1>0. TypeOK /\ CallsHold /\ call[t] \in Call /\ Holds(call[t], row) /\ t \in Threads
  BY DEF TypeInv, CallsHold, Threads
<1>1. CASE ClassifyProvider(t)
  <2>1. [call[t] EXCEPT !.pc = "c_gate", !.target = get_provider] \in Call
    BY <1>0, ProviderType DEF Call, DirectPcs
  <2>2. Holds([call[t] EXCEPT !.pc = "c_gate", !.target = get_provider], row')
    BY <1>0, <1>1 DEF ClassifyProvider, Holds, Call, DirectPcs, ApprovePcs
  <2>3. CallsHold'
    BY <1>0, <1>1, <2>1, <2>2, IdleHolds, CallsMove, RowsSame DEF ClassifyProvider
  <2> QED BY <1>0, <1>1, <2>3 DEF ClassifyProvider, TypeInv, TypeOK, CallsHold
<1>2. CASE ClassifyGate(t)
  <2>1. [call[t] EXCEPT !.pc = "d_flush"] \in Call
    BY <1>0 DEF Call, DirectPcs
  <2>2. Holds([call[t] EXCEPT !.pc = "d_flush"], row')
    BY <1>0, <1>2 DEF ClassifyGate, Holds, Call, DirectPcs, ApprovePcs
  <2>3. CallsHold'
    BY <1>0, <1>2, <2>1, <2>2, IdleHolds, CallsMove, RowsSame DEF ClassifyGate
  <2> QED BY <1>0, <1>2, <2>3 DEF ClassifyGate, TypeInv, TypeOK, CallsHold
<1>3. CASE ImageProvider(t)
  <2>1. [call[t] EXCEPT !.pc = "d_flush", !.target = get_provider] \in Call
    BY <1>0, ProviderType DEF Call, DirectPcs
  <2>2. Holds([call[t] EXCEPT !.pc = "d_flush", !.target = get_provider], row')
    BY <1>0, <1>3 DEF ImageProvider, Holds, Call, DirectPcs, ApprovePcs
  <2>3. CallsHold'
    BY <1>0, <1>3, <2>1, <2>2, IdleHolds, CallsMove, RowsSame DEF ImageProvider
  <2> QED BY <1>0, <1>3, <2>3 DEF ImageProvider, TypeInv, TypeOK, CallsHold
<1>4. CASE ClassifyStage(t)
  <2>1. PICK r \in Free :
          /\ row' = [row EXCEPT ![r] = [status |-> "pending", approval |-> "pending",
                                        staged |-> call[t].seen, txn |-> call[t].txn]]
          /\ openItem' = openItem \cup {r}
          /\ sent' = [sent EXCEPT ![r] = 0] /\ unsaved' = unsaved \ {r}
    BY <1>4 DEF ClassifyStage
  <2>2. r \in Reqs BY DEF Free
  <2>3. call[t].seen \in PRIVACY_MODES /\ call[t].txn \in Txns \cup {NoTxn}
    BY <1>0, <1>4 DEF ClassifyStage, Holds, Call, DirectPcs
  <2>4. [status |-> "pending", approval |-> "pending", staged |-> call[t].seen, txn |-> call[t].txn] \in Row
    BY <2>3 DEF Row
  <2>5. RowsGrow BY <1>0, <2>1, <2>2, <2>4, RowsReplace
  <2>6. CallsHold' BY <1>0, <1>4, <2>5, IdleHolds, CallsMove DEF ClassifyStage
  <2>7. sent' \in [Reqs -> 0..2] /\ unsaved' \subseteq Reqs /\ openItem' \subseteq Reqs
    BY <1>0, <2>1, <2>2 DEF TypeOK
  <2> QED BY <1>0, <1>4, <2>5, <2>6, <2>7 DEF ClassifyStage, TypeInv, TypeOK, CallsHold, RowsGrow
<1>5. CASE DirectFlush(t)
  <2>1. PICK r \in Free :
          /\ Becomes(t, [call[t] EXCEPT !.pc = "d_send", !.req = r])
          /\ sent' = [sent EXCEPT ![r] = 0] /\ unsaved' = unsaved \ {r}
    BY <1>5 DEF DirectFlush
  <2>2. r \in Reqs BY DEF Free
  <2>3. [call[t] EXCEPT !.pc = "d_send", !.req = r] \in Call
    BY <1>0, <2>2 DEF Call, DirectPcs
  <2>4. Holds([call[t] EXCEPT !.pc = "d_send", !.req = r], row')
    BY <1>0, <1>5, <2>2 DEF DirectFlush, Holds, Call, DirectPcs, ApprovePcs
  <2>5. CallsHold' BY <1>0, <1>5, <2>1, <2>3, <2>4, CallsMove, RowsSame DEF DirectFlush
  <2>6. sent' \in [Reqs -> 0..2] /\ unsaved' \subseteq Reqs
    BY <1>0, <2>1, <2>2 DEF TypeOK
  <2> QED BY <1>0, <1>5, <2>5, <2>6 DEF DirectFlush, TypeInv, TypeOK, CallsHold
<1>6. CASE DirectTimeout(t)
  <2>1. CallsHold' BY <1>0, <1>6, IdleHolds, CallsMove, RowsSame DEF DirectTimeout
  <2> QED BY <1>0, <1>6, <2>1 DEF DirectTimeout, TypeInv, TypeOK, CallsHold
<1>7. ASSUME NEW reply \in Replies, DirectSend(t, reply) PROVE TypeInv'
  <2>1. call[t].req \in Reqs BY <1>0, <1>7 DEF DirectSend, Holds
  <2>2. [call[t] EXCEPT !.pc = "d_commit", !.reply = reply] \in Call
    BY <1>0, RepliesAssumption DEF Call, DirectPcs
  <2>3. Holds([call[t] EXCEPT !.pc = "d_commit", !.reply = reply], row')
    BY <1>0, <1>7 DEF DirectSend, Holds, Call, DirectPcs, ApprovePcs
  <2>4. CallsHold' BY <1>0, <1>7, <2>2, <2>3, CallsMove, RowsSame DEF DirectSend
  <2>5. sent' \in [Reqs -> 0..2] BY <1>0, <1>7, <2>1 DEF DirectSend, Dispatch, TypeOK
  <2> QED BY <1>0, <1>7, <2>4, <2>5 DEF DirectSend, TypeInv, TypeOK, CallsHold
<1>8. CASE DirectCommit(t)
  <2> DEFINE d == [status |-> Outcome(call[t].reply),
                   approval |-> IF call[t].txn # NoTxn /\ call[t].seen \in CLOUD_MODES
                                THEN "approved" ELSE "not_required",
                   staged |-> call[t].seen, txn |-> call[t].txn]
  <2>1. call[t].req \in Reqs /\ call[t].seen \in PRIVACY_MODES
    BY <1>0, <1>8 DEF DirectCommit, Holds, DirectPcs
  <2>2. d \in Row BY <1>0, <2>1 DEF Row, Call, Outcome
  <2>3. row' = [row EXCEPT ![call[t].req] = d] BY <1>8 DEF DirectCommit
  <2> HIDE DEF d
  <2>4. RowsGrow BY <1>0, <2>1, <2>2, <2>3, RowsReplace
  <2>5. CallsHold' BY <1>0, <1>8, <2>4, IdleHolds, CallsMove DEF DirectCommit
  <2> QED BY <1>0, <1>8, <2>4, <2>5 DEF DirectCommit, TypeInv, TypeOK, CallsHold, RowsGrow
<1> QED BY <1>1, <1>2, <1>3, <1>4, <1>5, <1>6, <1>7, <1>8 DEF DirectStep

\* Every step of an approval keeps every type.
LEMMA TypeApprove == ASSUME TypeInv, NEW t \in Approvers, ApproveStep(t) PROVE TypeInv'
<1> USE DEF settings, store, history
<1>0. TypeOK /\ CallsHold /\ call[t] \in Call /\ Holds(call[t], row) /\ t \in Threads
  BY DEF TypeInv, CallsHold, Threads
<1>1. CASE ApproveGate(t)
  <2>1. [call[t] EXCEPT !.pc = "a_provider"] \in Call BY <1>0 DEF Call, ApprovePcs
  <2>2. Holds([call[t] EXCEPT !.pc = "a_provider"], row')
    BY <1>0, <1>1 DEF ApproveGate, Holds, Call, DirectPcs, ApprovePcs
  <2>3. CallsHold'
    BY <1>0, <1>1, <2>1, <2>2, IdleHolds, CallsMove, RowsSame DEF ApproveGate
  <2> QED BY <1>0, <1>1, <2>3 DEF ApproveGate, TypeInv, TypeOK, CallsHold
<1>2. CASE ApproveProvider(t)
  <2>1. [call[t] EXCEPT !.pc = "a_send", !.target = get_provider] \in Call
    BY <1>0, ProviderType DEF Call, ApprovePcs
  <2>2. Holds([call[t] EXCEPT !.pc = "a_send", !.target = get_provider], row')
    BY <1>0, <1>2 DEF ApproveProvider, Holds, Call, DirectPcs, ApprovePcs
  <2>3. CallsHold'
    BY <1>0, <1>2, <2>1, <2>2, IdleHolds, CallsMove, RowsSame DEF ApproveProvider
  <2> QED BY <1>0, <1>2, <2>3 DEF ApproveProvider, TypeInv, TypeOK, CallsHold
<1>3. ASSUME NEW reply \in Replies, ApproveSend(t, reply) PROVE TypeInv'
  <2>1. call[t].req \in Reqs BY <1>0, <1>3 DEF ApproveSend, Holds, ApprovePcs
  <2>2. [call[t] EXCEPT !.pc = "a_commit", !.reply = reply] \in Call
    BY <1>0, RepliesAssumption DEF Call, ApprovePcs
  <2>3. Holds([call[t] EXCEPT !.pc = "a_commit", !.reply = reply], row')
    BY <1>0, <1>3 DEF ApproveSend, Holds, Call, DirectPcs, ApprovePcs
  <2>4. CallsHold' BY <1>0, <1>3, <2>2, <2>3, CallsMove, RowsSame DEF ApproveSend
  <2>5. sent' \in [Reqs -> 0..2] BY <1>0, <1>3, <2>1 DEF ApproveSend, Dispatch, TypeOK
  <2> QED BY <1>0, <1>3, <2>4, <2>5 DEF ApproveSend, TypeInv, TypeOK, CallsHold
<1>4. CASE ApproveCommit(t)
  <2>1. call[t].req \in Reqs /\ row[call[t].req] \in Row
    BY <1>0, <1>4 DEF ApproveCommit, Holds, ApprovePcs, TypeOK
  <2>2. RowsGrow BY <1>0, <1>4, <2>1, SettleGrows DEF ApproveCommit
  <2>3. CallsHold' BY <1>0, <1>4, <2>2, IdleHolds, CallsMove DEF ApproveCommit
  <2> QED BY <1>0, <1>4, <2>2, <2>3 DEF ApproveCommit, TypeInv, TypeOK, CallsHold, RowsGrow
<1>5. CASE ApproveTimeout(t)
  <2>1. call[t].req \in Reqs BY <1>0, <1>5 DEF ApproveTimeout, Holds, ApprovePcs
  <2>2. CallsHold' BY <1>0, <1>5, IdleHolds, CallsMove, RowsSame DEF ApproveTimeout
  <2> QED BY <1>0, <1>5, <2>1, <2>2 DEF ApproveTimeout, TypeInv, TypeOK, CallsHold
<1> QED BY <1>1, <1>2, <1>3, <1>4, <1>5 DEF ApproveStep

\* Every step of a batch keeps every type.
LEMMA TypeBatch == ASSUME TypeInv, NEW t \in Starters, BatchStep(t) PROVE TypeInv'
<1> USE DEF settings, store, history
<1>0. TypeOK /\ CallsHold /\ call[t] \in Call /\ Holds(call[t], row) /\ t \in Threads
  BY DEF TypeInv, CallsHold, Threads
<1>n. NextItem(t) \in Call /\ \A rows : (\A r \in call[t].queue : rows[r] # NoRow) => Holds(NextItem(t), rows)
  <2>1. call[t].queue \ {call[t].req} \in SUBSET Reqs BY <1>0 DEF Call
  <2>2. NextItem(t) \in Call BY <1>0, <2>1 DEF NextItem, Call, WorkerPcs, Targets
  <2>3. ASSUME NEW rows, \A r \in call[t].queue : rows[r] # NoRow PROVE Holds(NextItem(t), rows)
    BY <1>0, <2>3 DEF NextItem, Call, Holds, ApprovePcs, DirectPcs
  <2> QED BY <2>2, <2>3
<1>1. CASE StartReserve(t)
  <2> DEFINE c == [call[t] EXCEPT !.pc = "s_commit", !.batch = call[t].queue,
                     !.drop = {r \in call[t].drop : Pending(r)}]
  <2>1. c \in Call BY <1>0 DEF Call, StartPcs
  <2>2. Holds(c, row')
    BY <1>0, <1>1 DEF StartReserve, Holds, Call, DirectPcs, ApprovePcs, Pending
  <2>3. CallsHold' BY <1>0, <1>1, <2>1, <2>2, CallsMove, RowsSame DEF StartReserve
  <2>4. call[t].queue \subseteq Reqs BY <1>0 DEF Call
  <2> QED BY <1>0, <1>1, <2>3, <2>4 DEF StartReserve, TypeInv, TypeOK, CallsHold
<1>2. CASE StartCommit(t)
  <2>1. ASSUME NEW r \in call[t].drop
        PROVE  r \in Reqs /\ [row[r] EXCEPT !.status = "rejected", !.approval = "rejected"] \in Row
    BY <1>0, <1>2, <2>1, RowUpdate DEF StartCommit, Holds, Call, TypeOK
  <2>2. RowsGrow
    BY <1>0, <1>2, <2>1, NothingAssumption DEF StartCommit, RowsGrow, TypeOK
  <2>3. [call[t] EXCEPT !.pc = "w_next", !.drop = {}] \in Call BY <1>0 DEF Call, WorkerPcs
  <2>4. Holds([call[t] EXCEPT !.pc = "w_next", !.drop = {}], row')
    BY <1>0, <1>2, <2>2 DEF StartCommit, Holds, Call, DirectPcs, ApprovePcs, RowsGrow
  <2>5. CallsHold' BY <1>0, <1>2, <2>2, <2>3, <2>4, CallsMove DEF StartCommit
  <2> QED BY <1>0, <1>2, <2>2, <2>5 DEF StartCommit, TypeInv, TypeOK, CallsHold, RowsGrow
<1>3. CASE StartTimeout(t)
  <2>1. CallsHold' BY <1>0, <1>3, IdleHolds, CallsMove, RowsSame DEF StartTimeout
  <2> QED BY <1>0, <1>3, <2>1 DEF StartTimeout, TypeInv, TypeOK, CallsHold
<1>4. CASE WorkerTake(t)
  <2>1. PICK r \in call[t].queue :
          Becomes(t, [call[t] EXCEPT !.pc = "w_gate", !.req = r, !.target = get_provider])
    BY <1>4 DEF WorkerTake
  <2> DEFINE c == [call[t] EXCEPT !.pc = "w_gate", !.req = r, !.target = get_provider]
  <2>2. c \in Call BY <1>0, ProviderType DEF Call, WorkerPcs
  <2>3. Holds(c, row')
    BY <1>0, <1>4 DEF WorkerTake, Holds, Call, DirectPcs, ApprovePcs
  <2>4. CallsHold' BY <1>0, <1>4, <2>1, <2>2, <2>3, CallsMove, RowsSame DEF WorkerTake
  <2> QED BY <1>0, <1>4, <2>4 DEF WorkerTake, TypeInv, TypeOK, CallsHold
<1>5. CASE WorkerSkip(t)
  <2>1. Holds(NextItem(t), row') BY <1>0, <1>n, <1>5 DEF WorkerSkip, Holds
  <2>2. CallsHold' BY <1>0, <1>n, <1>5, <2>1, CallsMove, RowsSame DEF WorkerSkip
  <2> QED BY <1>0, <1>5, <2>2 DEF WorkerSkip, TypeInv, TypeOK, CallsHold
<1>6. CASE WorkerGate(t)
  <2>1. /\ [call[t] EXCEPT !.pc = "w_commit", !.reply = "blocked"] \in Call
        /\ [call[t] EXCEPT !.pc = "w_send"] \in Call
    BY <1>0 DEF Call, WorkerPcs
  <2>2. /\ Holds([call[t] EXCEPT !.pc = "w_commit", !.reply = "blocked"], row')
        /\ Holds([call[t] EXCEPT !.pc = "w_send"], row')
    BY <1>0, <1>6 DEF WorkerGate, Holds, Call, DirectPcs, ApprovePcs
  <2>3. CallsHold' BY <1>0, <1>6, <2>1, <2>2, CallsMove, RowsSame DEF WorkerGate
  <2> QED BY <1>0, <1>6, <2>3 DEF WorkerGate, TypeInv, TypeOK, CallsHold
<1>7. ASSUME NEW reply \in Replies, WorkerSend(t, reply) PROVE TypeInv'
  <2>1. call[t].req \in Reqs BY <1>0, <1>7 DEF WorkerSend, Holds
  <2>2. [call[t] EXCEPT !.pc = "w_commit", !.reply = reply] \in Call
    BY <1>0, RepliesAssumption DEF Call, WorkerPcs
  <2>3. Holds([call[t] EXCEPT !.pc = "w_commit", !.reply = reply], row')
    BY <1>0, <1>7 DEF WorkerSend, Holds, Call, DirectPcs, ApprovePcs
  <2>4. CallsHold' BY <1>0, <1>7, <2>2, <2>3, CallsMove, RowsSame DEF WorkerSend
  <2>5. sent' \in [Reqs -> 0..2] BY <1>0, <1>7, <2>1 DEF WorkerSend, Dispatch, TypeOK
  <2> QED BY <1>0, <1>7, <2>4, <2>5 DEF WorkerSend, TypeInv, TypeOK, CallsHold
<1>8. CASE WorkerCommit(t)
  <2>1. call[t].req \in Reqs /\ row[call[t].req] \in Row
    BY <1>0, <1>8 DEF WorkerCommit, Holds, TypeOK
  <2>2. RowsGrow
    <3>1. CASE call[t].reply = "blocked"
      <4>1. [row[call[t].req] EXCEPT !.status = "failed"] \in Row BY <2>1, RowUpdate
      <4> QED BY <1>0, <1>8, <2>1, <3>1, <4>1, RowsReplace DEF WorkerCommit
    <3>2. CASE call[t].reply # "blocked"
      BY <1>0, <1>8, <2>1, <3>2, SettleGrows DEF WorkerCommit
    <3> QED BY <3>1, <3>2
  <2>3. Holds(NextItem(t), row') BY <1>0, <1>n, <1>8, <2>2 DEF WorkerCommit, Holds, RowsGrow, Call
  <2>4. CallsHold' BY <1>0, <1>n, <1>8, <2>2, <2>3, CallsMove DEF WorkerCommit
  <2> QED BY <1>0, <1>8, <2>2, <2>4 DEF WorkerCommit, TypeInv, TypeOK, CallsHold, RowsGrow
<1>9. CASE WorkerTimeout(t)
  <2>1. call[t].req \in Reqs BY <1>0, <1>9 DEF WorkerTimeout, Holds
  <2>2. Holds(NextItem(t), row') BY <1>0, <1>n, <1>9 DEF WorkerTimeout, Holds
  <2>3. CallsHold' BY <1>0, <1>n, <1>9, <2>2, CallsMove, RowsSame DEF WorkerTimeout
  <2> QED BY <1>0, <1>9, <2>1, <2>3 DEF WorkerTimeout, TypeInv, TypeOK, CallsHold
<1>10. CASE WorkerDone(t)
  <2>1. CallsHold' BY <1>0, <1>10, IdleHolds, CallsMove, RowsSame DEF WorkerDone
  <2> QED BY <1>0, <1>10, <2>1 DEF WorkerDone, TypeInv, TypeOK, CallsHold
<1> QED BY <1>1, <1>2, <1>3, <1>4, <1>5, <1>6, <1>7, <1>8, <1>9, <1>10 DEF BatchStep

\* So does every step of the system.
LEMMA TypeStep == TypeInv /\ [Next]_vars => TypeInv'
<1> SUFFICES ASSUME TypeInv, [Next]_vars PROVE TypeInv' OBVIOUS
<1> USE DEF settings, store, history
<1>0. TypeOK /\ CallsHold BY DEF TypeInv
<1>1. CASE UserStep BY <1>1, TypeUser
<1>2. CASE SaveUrl \/ SaveUrlTimeout
  <2>1. CallsHold' BY <1>0, <1>2, CallsStay, RowsSame DEF SaveUrl, SaveUrlTimeout
  <2> QED BY <1>0, <1>2, <2>1 DEF SaveUrl, SaveUrlTimeout, TypeInv, TypeOK
<1>3. ASSUME NEW t \in Directs, DirectStep(t) PROVE TypeInv' BY <1>3, TypeDirect
<1>4. ASSUME NEW t \in Approvers, ApproveStep(t) PROVE TypeInv' BY <1>4, TypeApprove
<1>5. ASSUME NEW t \in Starters, BatchStep(t) PROVE TypeInv' BY <1>5, TypeBatch
<1>6. CASE Restart
  <2>1. call' \in [Threads -> Call] /\ \A t \in Threads : call'[t] = Idle
    BY <1>6, IdleHolds DEF Restart
  <2>2. CallsHold' BY <2>1, IdleHolds DEF CallsHold
  <2>3. InDoubt \subseteq Reqs
    BY <1>0 DEF InDoubt, CallsHold, Holds, ApprovePcs
  <2> QED BY <1>0, <1>6, <2>1, <2>2, <2>3 DEF Restart, TypeInv, TypeOK
<1>7. CASE UNCHANGED vars
  <2>1. CallsHold' BY <1>0, <1>7, CallsStay, RowsSame DEF vars
  <2> QED BY <1>0, <1>7, <2>1 DEF vars, TypeInv, TypeOK
<1> QED BY <1>1, <1>2, <1>3, <1>4, <1>5, <1>6, <1>7 DEF Next

\* Every reachable state is well typed, and every call holds a committed row or a
\* fresh id wherever its next step relies on one (db.get before each use).
THEOREM TypeCorrect == Spec => []TypeInv
<1> QED BY TypeInit, TypeStep, PTL DEF Spec

\* Every variable has its type in every reachable state: the rows, the
\* settings, the reservations and the records of the calls in flight.
THEOREM TypesHold == Spec => []TypeOK
<1>1. TypeInv => TypeOK
  BY DEF TypeInv
<1> QED BY <1>1, TypeCorrect, PTL

-----------------------------------------------------------------------------
(* The writer lock, and what happens to the rows.                          *)

Sending == {"d_send", "d_commit"}

LockInv ==
  /\ LockHeldAcrossSend
  /\ \A t \in Threads : call[t].pc \in Sending => row[call[t].req] = NoRow

\* While a direct call holds the lock nobody else inserts a row.
NoInsert == \A r \in Reqs : row[r] = NoRow /\ ~Writable => row'[r] = NoRow

\* One thread moves, and stays on its side of the flush and the commit.
LEMMA LockMove ==
  ASSUME TypeInv, LockInv, NoInsert, lock' = lock, NEW t \in Threads, NEW c, Becomes(t, c),
         c.pc \in Sending <=> call[t].pc \in Sending,
         c.pc \in Sending => c.req = call[t].req
  PROVE  LockInv'
<1>1. call' = [call EXCEPT ![t] = c] /\ call \in [Threads -> Call] /\ CallsHold
  BY DEF Becomes, TypeInv, TypeOK
<1>2. ASSUME NEW u \in Threads
      PROVE  /\ (lock' = u) <=> (call'[u].pc \in Sending)
             /\ call'[u].pc \in Sending => row'[call'[u].req] = NoRow
  <2>1. call'[u] = IF u = t THEN c ELSE call[u] BY <1>1
  <2>2. /\ (lock = u) <=> (call[u].pc \in Sending)
        /\ call[u].pc \in Sending => row[call[u].req] = NoRow /\ call[u].req \in Reqs
    BY <1>1 DEF LockInv, LockHeldAcrossSend, Sending, CallsHold, Holds
  <2>3. call[u].pc \in Sending => ~Writable
    BY <2>2, NothingAssumption DEF Writable
  <2> QED BY <2>1, <2>2, <2>3 DEF NoInsert
<1> QED BY <1>2 DEF LockInv, LockHeldAcrossSend, Sending

\* No thread moves, and the lock stays where it is.
LEMMA LockStay ==
  ASSUME TypeInv, LockInv, NoInsert, lock' = lock, call' = call
  PROVE  LockInv'
<1>1. ASSUME NEW u \in Threads, call[u].pc \in Sending PROVE row'[call[u].req] = NoRow
  <2>1. lock = u /\ row[call[u].req] = NoRow /\ call[u].req \in Reqs
    BY <1>1 DEF LockInv, LockHeldAcrossSend, Sending, TypeInv, CallsHold, Holds
  <2> QED BY <2>1, NothingAssumption DEF NoInsert, Writable
<1> QED BY <1>1 DEF LockInv, LockHeldAcrossSend

\* Settling a request that has a row inserts none.
LEMMA SettleNoInsert ==
  ASSUME TypeOK, NEW r \in Reqs, row[r] # NoRow, NEW reply, Settle(r, reply)
  PROVE  NoInsert
BY DEF Settle, NoInsert, TypeOK

\* What users start or save keeps the lock invariant.
LEMMA LockUser == ASSUME TypeInv, LockInv, UserStep PROVE LockInv'
<1> USE DEF settings, store, history
<1>t. TypeOK BY DEF TypeInv
<1>1. ASSUME NEW p \in Profiles, SaveMode(p[1], p[2]) PROVE LockInv'
  BY <1>1, LockStay DEF SaveMode, NoInsert
<1>2. ASSUME NEW x \in Moves, Recategorise(x) PROVE LockInv'
  BY <1>2, LockStay DEF Recategorise, NoInsert
<1>3. ASSUME NEW t \in Approvers, NEW r \in Reqs, Reject(t, r) PROVE LockInv'
  BY <1>t, <1>3, LockStay DEF Reject, NoInsert, TypeOK
<1>4. ASSUME NEW t \in Approvers, NEW r \in Reqs, DismissItem(t, r) PROVE LockInv'
  BY <1>4, LockStay DEF DismissItem, NoInsert
<1>5. CASE Prepare
  BY <1>5, LockStay DEF Prepare, NoInsert
<1>6. ASSUME NEW t \in Directs, NEW x \in Txns, Classify(t, x) PROVE LockInv'
  BY <1>6, LockMove DEF Classify, NoInsert, Sending, Idle, Threads
<1>7. ASSUME NEW t \in Directs, NEW approved \in BOOLEAN, Image(t, approved) PROVE LockInv'
  BY <1>7, LockMove DEF Image, NoInsert, Sending, Idle, Threads
<1>8. ASSUME NEW t \in Approvers, NEW r \in Reqs, Approve(t, r) PROVE LockInv'
  BY <1>8, LockMove DEF Approve, NoInsert, Sending, Idle, Threads
<1>9. ASSUME NEW t \in Starters, NEW A, NEW R, Start(t, A, R) PROVE LockInv'
  BY <1>9, LockMove DEF Start, NoInsert, Sending, Idle, Threads
<1> QED BY <1>1, <1>2, <1>3, <1>4, <1>5, <1>6, <1>7, <1>8, <1>9 DEF UserStep

\* Every step of a direct call keeps the lock invariant.
LEMMA LockDirect == ASSUME TypeInv, LockInv, NEW t \in Directs, DirectStep(t) PROVE LockInv'
<1> USE DEF settings, store, history
<1>t. TypeOK /\ CallsHold /\ t \in Threads /\ call[t] \in Call /\ call \in [Threads -> Call]
  BY DEF TypeInv, TypeOK, Threads
<1>1. CASE ClassifyProvider(t) \/ ClassifyGate(t) \/ ImageProvider(t) \/ DirectTimeout(t)
  <2>1. NoInsert
    BY <1>1 DEF ClassifyProvider, ClassifyGate, ImageProvider, DirectTimeout, NoInsert
  <2>2. /\ [call[t] EXCEPT !.pc = "c_gate", !.target = get_provider].pc = "c_gate"
        /\ [call[t] EXCEPT !.pc = "d_flush"].pc = "d_flush"
        /\ [call[t] EXCEPT !.pc = "d_flush", !.target = get_provider].pc = "d_flush"
        /\ Idle.pc = "idle"
    BY <1>t DEF Call, Idle
  <2>3. CASE ClassifyProvider(t)
    BY <1>t, <2>1, <2>2, <2>3, LockMove DEF ClassifyProvider, Sending
  <2>4. CASE ClassifyGate(t)
    BY <1>t, <2>1, <2>2, <2>4, LockMove DEF ClassifyGate, Sending
  <2>5. CASE ImageProvider(t)
    BY <1>t, <2>1, <2>2, <2>5, LockMove DEF ImageProvider, Sending
  <2>6. CASE DirectTimeout(t)
    BY <1>t, <2>1, <2>2, <2>6, LockMove DEF DirectTimeout, Sending
  <2> QED BY <1>1, <2>3, <2>4, <2>5, <2>6
<1>2. CASE ClassifyStage(t)
  <2>1. NoInsert BY <1>2 DEF ClassifyStage, NoInsert
  <2> QED BY <1>t, <1>2, <2>1, LockMove DEF ClassifyStage, Sending, Idle
<1>3. CASE DirectFlush(t)
  <2>1. PICK r \in Free : Becomes(t, [call[t] EXCEPT !.pc = "d_send", !.req = r])
    BY <1>3 DEF DirectFlush
  <2>2. call' = [call EXCEPT ![t] = [call[t] EXCEPT !.pc = "d_send", !.req = r]]
    BY <2>1 DEF Becomes
  <2>3. call'[t].pc = "d_send" /\ call'[t].req = r /\ \A u \in Threads \ {t} : call'[u] = call[u]
    BY <1>t, <2>2 DEF Call
  <2>4. \A u \in Threads : call[u].pc \notin Sending
    BY <1>3, NothingAssumption DEF DirectFlush, Writable, LockInv, LockHeldAcrossSend, Sending
  <2>5. lock' = t /\ row' = row BY <1>3 DEF DirectFlush
  <2>6. row[r] = NoRow BY DEF Free
  <2> QED BY <2>3, <2>4, <2>5, <2>6, <1>t DEF LockInv, LockHeldAcrossSend, Sending
<1>4. ASSUME NEW reply \in Replies, DirectSend(t, reply) PROVE LockInv'
  <2>1. [call[t] EXCEPT !.pc = "d_commit", !.reply = reply].pc = "d_commit"
        /\ [call[t] EXCEPT !.pc = "d_commit", !.reply = reply].req = call[t].req
    BY <1>t DEF Call
  <2> QED BY <1>t, <1>4, <2>1, LockMove DEF DirectSend, Sending, NoInsert
<1>5. CASE DirectCommit(t)
  <2>1. lock = t /\ call[t].req \in Reqs
    BY <1>t, <1>5 DEF DirectCommit, LockInv, LockHeldAcrossSend, CallsHold, Holds
  <2>2. \A u \in Threads \ {t} : call[u].pc \notin Sending
    BY <2>1 DEF LockInv, LockHeldAcrossSend, Sending
  <2>3. call'[t].pc = "idle" /\ \A u \in Threads \ {t} : call'[u] = call[u]
    BY <1>t, <1>5 DEF DirectCommit, Becomes, Idle
  <2> QED
    BY <1>5, <2>2, <2>3, NothingAssumption DEF DirectCommit, LockInv, LockHeldAcrossSend, Sending
<1> QED BY <1>1, <1>2, <1>3, <1>4, <1>5 DEF DirectStep

\* Every step of an approval keeps the lock invariant.
LEMMA LockApprove == ASSUME TypeInv, LockInv, NEW t \in Approvers, ApproveStep(t) PROVE LockInv'
<1> USE DEF settings, store, history
<1>t. TypeOK /\ CallsHold /\ t \in Threads /\ call[t] \in Call BY DEF TypeInv, TypeOK, Threads
<1>1. CASE ApproveGate(t) \/ ApproveProvider(t) \/ ApproveTimeout(t)
  <2>1. NoInsert BY <1>1 DEF ApproveGate, ApproveProvider, ApproveTimeout, NoInsert
  <2>2. /\ [call[t] EXCEPT !.pc = "a_provider"].pc = "a_provider"
        /\ [call[t] EXCEPT !.pc = "a_send", !.target = get_provider].pc = "a_send"
        /\ Idle.pc = "idle"
    BY <1>t DEF Call, Idle
  <2>3. CASE ApproveGate(t)
    BY <1>t, <2>1, <2>2, <2>3, LockMove DEF ApproveGate, Sending
  <2>4. CASE ApproveProvider(t)
    BY <1>t, <2>1, <2>2, <2>4, LockMove DEF ApproveProvider, Sending
  <2>5. CASE ApproveTimeout(t)
    BY <1>t, <2>1, <2>2, <2>5, LockMove DEF ApproveTimeout, Sending
  <2> QED BY <1>1, <2>3, <2>4, <2>5
<1>2. ASSUME NEW reply \in Replies, ApproveSend(t, reply) PROVE LockInv'
  <2>1. [call[t] EXCEPT !.pc = "a_commit", !.reply = reply].pc = "a_commit" BY <1>t DEF Call
  <2> QED BY <1>t, <1>2, <2>1, LockMove DEF ApproveSend, Sending, NoInsert
<1>3. CASE ApproveCommit(t)
  <2>1. NoInsert
    BY <1>t, <1>3, SettleNoInsert DEF ApproveCommit, CallsHold, Holds, ApprovePcs
  <2> QED BY <1>t, <1>3, <2>1, LockMove DEF ApproveCommit, Sending, Idle
<1> QED BY <1>1, <1>2, <1>3 DEF ApproveStep

\* Every step of a batch keeps the lock invariant.
LEMMA LockBatch == ASSUME TypeInv, LockInv, NEW t \in Starters, BatchStep(t) PROVE LockInv'
<1> USE DEF settings, store, history
<1>t. TypeOK /\ CallsHold /\ t \in Threads /\ call[t] \in Call BY DEF TypeInv, TypeOK, Threads
<1>n. NextItem(t).pc \notin Sending BY <1>t DEF NextItem, Call, Sending
<1>1. CASE StartReserve(t) \/ WorkerTake(t) \/ WorkerGate(t)
  <2>1. NoInsert BY <1>1 DEF StartReserve, WorkerTake, WorkerGate, NoInsert
  <2>2. CASE StartReserve(t)
    <3> DEFINE c == [call[t] EXCEPT !.pc = "s_commit", !.batch = call[t].queue,
                       !.drop = {r \in call[t].drop : Pending(r)}]
    <3>1. c.pc = "s_commit" BY <1>t DEF Call
    <3> QED BY <1>t, <2>1, <2>2, <3>1, LockMove DEF StartReserve, Reserving, Sending
  <2>3. CASE WorkerTake(t)
    <3>1. PICK r \in call[t].queue :
            Becomes(t, [call[t] EXCEPT !.pc = "w_gate", !.req = r, !.target = get_provider])
      BY <2>3 DEF WorkerTake
    <3>2. [call[t] EXCEPT !.pc = "w_gate", !.req = r, !.target = get_provider].pc = "w_gate"
      BY <1>t DEF Call
    <3> QED BY <1>t, <2>1, <2>3, <3>1, <3>2, LockMove DEF WorkerTake, Sending
  <2>4. CASE WorkerGate(t)
    <3>1. /\ [call[t] EXCEPT !.pc = "w_commit", !.reply = "blocked"].pc = "w_commit"
          /\ [call[t] EXCEPT !.pc = "w_send"].pc = "w_send"
      BY <1>t DEF Call
    <3> QED BY <1>t, <2>1, <2>4, <3>1, LockMove DEF WorkerGate, Sending
  <2> QED BY <1>1, <2>2, <2>3, <2>4
<1>2. CASE StartCommit(t)
  <2>1. NoInsert BY <1>t, <1>2 DEF StartCommit, NoInsert, CallsHold, Holds
  <2>2. [call[t] EXCEPT !.pc = "w_next", !.drop = {}].pc = "w_next" BY <1>t DEF Call
  <2> QED BY <1>t, <1>2, <2>1, <2>2, LockMove DEF StartCommit, Sending
<1>3. CASE StartTimeout(t) \/ WorkerDone(t)
  BY <1>t, <1>3, LockMove DEF StartTimeout, WorkerDone, Sending, Idle, NoInsert
<1>4. CASE WorkerSkip(t) \/ WorkerTimeout(t)
  BY <1>t, <1>n, <1>4, LockMove DEF WorkerSkip, WorkerTimeout, Sending, NoInsert
<1>5. CASE WorkerCommit(t)
  <2>1. call[t].req \in Reqs /\ row[call[t].req] # NoRow
    BY <1>t, <1>5 DEF WorkerCommit, CallsHold, Holds
  <2>2. NoInsert
    BY <1>t, <1>5, <2>1, SettleNoInsert DEF WorkerCommit, NoInsert, TypeOK
  <2> QED BY <1>t, <1>n, <1>5, <2>2, LockMove DEF WorkerCommit, Sending
<1>6. ASSUME NEW reply \in Replies, WorkerSend(t, reply) PROVE LockInv'
  <2>1. [call[t] EXCEPT !.pc = "w_commit", !.reply = reply].pc = "w_commit" BY <1>t DEF Call
  <2> QED BY <1>t, <1>6, <2>1, LockMove DEF WorkerSend, Sending, NoInsert
<1> QED BY <1>1, <1>2, <1>3, <1>4, <1>5, <1>6 DEF BatchStep

\* So does every step of the system.
LEMMA LockStep == TypeInv /\ LockInv /\ [Next]_vars => LockInv'
<1> SUFFICES ASSUME TypeInv, LockInv, [Next]_vars PROVE LockInv' OBVIOUS
<1> USE DEF settings, store, history
<1>1. CASE SaveUrl \/ SaveUrlTimeout BY <1>1, LockStay DEF SaveUrl, SaveUrlTimeout, NoInsert
<1>2. CASE Restart
  <2>1. \A u \in Threads : call'[u].pc = "idle" BY <1>2 DEF Restart, Idle
  <2> QED BY <1>2, <2>1, NothingAssumption DEF Restart, LockInv, LockHeldAcrossSend, Sending
<1>3. CASE UNCHANGED vars BY <1>3, LockStay DEF vars, NoInsert
<1> QED
  BY <1>1, <1>2, <1>3, LockUser, LockDirect, LockApprove, LockBatch DEF Next

\* At the start nobody holds the lock.
LEMMA LockInit == Init => LockInv
BY NothingAssumption DEF Init, LockInv, LockHeldAcrossSend, Sending, Idle

\* The writer lock is held by the direct call between its flush and its commit,
\* and by nobody else.
THEOREM LockTheorem == Spec => []LockHeldAcrossSend
<1>1. LockInv => LockHeldAcrossSend BY DEF LockInv
<1> QED BY <1>1, TypeCorrect, LockInit, LockStep, PTL DEF Spec

-----------------------------------------------------------------------------
(* What the audit row of a sent payload says.                              *)

\* Whatever was known or in doubt about r still is, and its row is as it was.
Kept(r) ==
  /\ sent'[r] = sent[r] /\ row'[r] = row[r]
  /\ r \in unsaved \cup InDoubt => r \in (unsaved \cup InDoubt)'

Settled(r) == row'[r] # NoRow /\ row'[r].status # "pending"

\* A step that keeps, settles, clears or marks every row keeps the invariant.
LEMMA SentFrame ==
  ASSUME SentIsRecorded,
         \A r \in Reqs : Kept(r) \/ Settled(r) \/ sent'[r] = 0 \/ r \in (unsaved \cup InDoubt)'
  PROVE  SentIsRecorded'
BY DEF SentIsRecorded, Kept, Settled, Pending

\* A call that moves takes only its own request out of doubt.
LEMMA DoubtMove ==
  ASSUME TypeInv, NEW t \in Threads, NEW c, Becomes(t, c)
  PROVE  /\ \A r \in InDoubt : (r = call[t].req /\ call[t].pc \in CommitPcs) \/ r \in InDoubt'
         /\ c.pc \in CommitPcs => c.req \in InDoubt'
<1>1. call'[t] = c /\ \A u \in Threads \ {t} : call'[u] = call[u]
  BY DEF Becomes, TypeInv, TypeOK
<1>2. ASSUME NEW u \in Threads, call[u].pc \in CommitPcs
      PROVE  (call[u].req = call[t].req /\ call[t].pc \in CommitPcs) \/ call[u].req \in InDoubt'
  BY <1>1, <1>2 DEF InDoubt, CommitPcs
<1> QED BY <1>1, <1>2 DEF InDoubt, CommitPcs

\* Steps that write no row and send nothing.
LEMMA SentQuiet ==
  ASSUME TypeInv, SentIsRecorded, NEW t \in Threads, NEW c, Becomes(t, c),
         row' = row, sent' = sent, unsaved \subseteq unsaved',
         call[t].pc \in CommitPcs =>
           call[t].req \in unsaved' \/ (c.pc \in CommitPcs /\ c.req = call[t].req)
  PROVE  SentIsRecorded'
<1>1. \A r \in Reqs : Kept(r) BY DoubtMove DEF Kept
<1> QED BY <1>1, SentFrame

\* A payload that goes out puts its request in doubt.
LEMMA SentSending ==
  ASSUME TypeInv, SentIsRecorded, NEW t \in Threads, NEW c, Becomes(t, c), NEW reply,
         Dispatch(call[t].req, call[t].target, reply), c.pc \in CommitPcs,
         c.req = call[t].req, call[t].req \in Reqs, call[t].pc \notin CommitPcs,
         row' = row, unsaved' = unsaved
  PROVE  SentIsRecorded'
<1>1. call[t].req \in InDoubt' /\ InDoubt \subseteq InDoubt' BY DoubtMove
<1>2. \A r \in Reqs \ {call[t].req} : sent'[r] = sent[r] BY DEF Dispatch, TypeInv, TypeOK
<1>3. \A r \in Reqs \ {call[t].req} : Kept(r) BY <1>1, <1>2 DEF Kept
<1> QED BY <1>1, <1>3, SentFrame

\* A thread commits the outcome of its request and goes on as c.
LEMMA SentSettling ==
  ASSUME TypeInv, SentIsRecorded, NEW t \in Threads, NEW c, Becomes(t, c), NEW d \in Row,
         row' = [row EXCEPT ![call[t].req] = d], d.status # "pending", call[t].req \in Reqs,
         sent' = sent, unsaved' = unsaved
  PROVE  SentIsRecorded'
<1>1. Settled(call[t].req) BY NothingAssumption DEF Settled, TypeInv, TypeOK
<1>2. \A r \in Reqs \ {call[t].req} : Kept(r) BY DoubtMove DEF Kept, TypeInv, TypeOK
<1> QED BY <1>1, <1>2, SentFrame

\* A rejected row is a row.
LEMMA UpdatedRow ==
  ASSUME NEW d \in Row, NEW e, e = [d EXCEPT !.status = "rejected", !.approval = "rejected"]
  PROVE  e \in Row /\ e.status = "rejected"
BY DEF Row

\* Settling a request writes a row that is no longer pending.
LEMMA SettleSettles ==
  ASSUME NEW r \in Reqs, row[r] \in Row, NEW reply, Settle(r, reply)
  PROVE  \E d \in Row : row' = [row EXCEPT ![r] = d] /\ d.status # "pending"
<1>1. PICK s \in {"completed", "failed"} : s = Outcome(reply) BY DEF Outcome
<1>2. PICK e : e = [row[r] EXCEPT !.status = s, !.approval = "approved"] OBVIOUS
<1>3. e \in Row /\ e.status = s
  <2>1. s \in {"completed", "failed", "rejected"} OBVIOUS
  <2> QED BY <1>2, <2>1 DEF Row
<1>4. row' = [row EXCEPT ![r] = e] BY <1>1, <1>2 DEF Settle
<1> QED BY <1>3, <1>4

-----------------------------------------------------------------------------

\* What users start, save, reject or dismiss keeps the record of what was sent.
LEMMA SentUser == ASSUME TypeInv, SentIsRecorded, UserStep PROVE SentIsRecorded'
<1> USE DEF settings, store, history
<1>t. TypeOK BY DEF TypeInv
<1>1. ASSUME NEW p \in Profiles, SaveMode(p[1], p[2]) PROVE SentIsRecorded'
  BY <1>1, SentFrame DEF SaveMode, Kept, InDoubt
<1>2. ASSUME NEW x \in Moves, Recategorise(x) PROVE SentIsRecorded'
  BY <1>2, SentFrame DEF Recategorise, Kept, InDoubt
<1>3. ASSUME NEW t \in Approvers, NEW r \in Reqs, Reject(t, r) PROVE SentIsRecorded'
  <2>1. row[r] \in Row BY <1>t, <1>3 DEF Reject, TypeOK
  <2>2. row'[r] = [row[r] EXCEPT !.status = "rejected", !.approval = "rejected"]
    BY <1>t, <1>3 DEF Reject, TypeOK
  <2>3. row'[r].status = "rejected" /\ row'[r] \in Row BY <2>1, <2>2, UpdatedRow
  <2>4. Settled(r) BY <2>3, NothingAssumption DEF Settled
  <2>5. \A s \in Reqs \ {r} : Kept(s) BY <1>t, <1>3 DEF Reject, Kept, InDoubt, TypeOK
  <2> QED BY <2>4, <2>5, SentFrame
<1>4. ASSUME NEW t \in Approvers, NEW r \in Reqs, DismissItem(t, r) PROVE SentIsRecorded'
  BY <1>4, SentFrame DEF DismissItem, Kept, InDoubt
<1>5. CASE Prepare
  <2>1. PICK new \in SUBSET Free \ {{}} : \E of \in Injection(new, Txns) :
          /\ row' = [r \in Reqs |-> IF r \in new
                                    THEN [status |-> "pending", approval |-> "pending",
                                          staged |-> mode, txn |-> of[r]]
                                    ELSE row[r]]
          /\ sent' = [r \in Reqs |-> IF r \in new THEN 0 ELSE sent[r]]
          /\ unsaved' = unsaved \ new
    BY <1>5 DEF Prepare
  <2>2. call' = call BY <1>5 DEF Prepare
  <2>3. ASSUME NEW r \in Reqs PROVE Kept(r) \/ sent'[r] = 0
    BY <2>1, <2>2 DEF Kept, InDoubt
  <2> QED BY <2>3, SentFrame
<1>6. ASSUME NEW t \in Directs, NEW x \in Txns, Classify(t, x) PROVE SentIsRecorded'
  BY <1>6, SentQuiet DEF Classify, CommitPcs, Threads
<1>7. ASSUME NEW t \in Directs, NEW approved \in BOOLEAN, Image(t, approved) PROVE SentIsRecorded'
  BY <1>7, SentQuiet DEF Image, CommitPcs, Threads
<1>8. ASSUME NEW t \in Approvers, NEW r \in Reqs, Approve(t, r) PROVE SentIsRecorded'
  BY <1>8, SentQuiet DEF Approve, CommitPcs, Threads
<1>9. ASSUME NEW t \in Starters, NEW A, NEW R, Start(t, A, R) PROVE SentIsRecorded'
  BY <1>9, SentQuiet DEF Start, CommitPcs, Threads
<1> QED BY <1>1, <1>2, <1>3, <1>4, <1>5, <1>6, <1>7, <1>8, <1>9 DEF UserStep

\* Every step of a direct call keeps the record of what was sent.
LEMMA SentDirect == ASSUME TypeInv, SentIsRecorded, NEW t \in Directs, DirectStep(t) PROVE SentIsRecorded'
<1> USE DEF settings, store, history
<1>t. TypeOK /\ CallsHold /\ t \in Threads /\ call[t] \in Call /\ Holds(call[t], row)
  BY DEF TypeInv, CallsHold, Threads
<1>1. CASE ClassifyProvider(t) BY <1>t, <1>1, SentQuiet DEF ClassifyProvider, CommitPcs
<1>2. CASE ClassifyGate(t) BY <1>t, <1>2, SentQuiet DEF ClassifyGate, CommitPcs
<1>3. CASE ImageProvider(t) BY <1>t, <1>3, SentQuiet DEF ImageProvider, CommitPcs
<1>4. CASE ClassifyStage(t)
  <2>1. PICK r \in Free :
          /\ row' = [row EXCEPT ![r] = [status |-> "pending", approval |-> "pending",
                                        staged |-> call[t].seen, txn |-> call[t].txn]]
          /\ sent' = [sent EXCEPT ![r] = 0] /\ unsaved' = unsaved \ {r}
    BY <1>4 DEF ClassifyStage
  <2>2. InDoubt \subseteq InDoubt' BY <1>t, <1>4, DoubtMove DEF ClassifyStage, CommitPcs
  <2>3. ASSUME NEW s \in Reqs PROVE Kept(s) \/ sent'[s] = 0
    BY <1>t, <2>1, <2>2 DEF Kept, TypeOK
  <2> QED BY <2>3, SentFrame
<1>5. CASE DirectFlush(t)
  <2>1. PICK r \in Free :
          /\ Becomes(t, [call[t] EXCEPT !.pc = "d_send", !.req = r])
          /\ sent' = [sent EXCEPT ![r] = 0] /\ unsaved' = unsaved \ {r}
    BY <1>5 DEF DirectFlush
  <2>2. InDoubt \subseteq InDoubt' BY <1>t, <1>5, <2>1, DoubtMove DEF DirectFlush, CommitPcs
  <2>3. ASSUME NEW s \in Reqs PROVE Kept(s) \/ sent'[s] = 0
    BY <1>t, <1>5, <2>1, <2>2 DEF DirectFlush, Kept, TypeOK
  <2> QED BY <2>3, SentFrame
<1>6. CASE DirectTimeout(t) BY <1>t, <1>6, SentQuiet DEF DirectTimeout, CommitPcs
<1>7. ASSUME NEW reply \in Replies, DirectSend(t, reply) PROVE SentIsRecorded'
  <2>1. [call[t] EXCEPT !.pc = "d_commit", !.reply = reply].pc = "d_commit"
        /\ [call[t] EXCEPT !.pc = "d_commit", !.reply = reply].req = call[t].req
    BY <1>t DEF Call
  <2>2. call[t].req \in Reqs /\ call[t].pc \notin CommitPcs
    BY <1>t, <1>7 DEF DirectSend, CommitPcs, Holds
  <2> QED BY <1>t, <1>7, <2>1, <2>2, SentSending DEF DirectSend, CommitPcs
<1>8. CASE DirectCommit(t)
  <2> DEFINE d == [status |-> Outcome(call[t].reply),
                   approval |-> IF call[t].txn # NoTxn /\ call[t].seen \in CLOUD_MODES
                                THEN "approved" ELSE "not_required",
                   staged |-> call[t].seen, txn |-> call[t].txn]
  <2>1. call[t].req \in Reqs /\ call[t].seen \in PRIVACY_MODES
    BY <1>t, <1>8 DEF DirectCommit, Holds, DirectPcs
  <2>2. d \in Row /\ d.status # "pending" BY <1>t, <2>1 DEF Row, Call, Outcome
  <2>3. row' = [row EXCEPT ![call[t].req] = d] BY <1>8 DEF DirectCommit
  <2> HIDE DEF d
  <2> QED BY <1>t, <1>8, <2>1, <2>2, <2>3, SentSettling DEF DirectCommit
<1> QED BY <1>1, <1>2, <1>3, <1>4, <1>5, <1>6, <1>7, <1>8 DEF DirectStep

\* Every step of an approval keeps the record of what was sent.
LEMMA SentApprove == ASSUME TypeInv, SentIsRecorded, NEW t \in Approvers, ApproveStep(t) PROVE SentIsRecorded'
<1> USE DEF settings, store, history
<1>t. TypeOK /\ CallsHold /\ t \in Threads /\ call[t] \in Call /\ Holds(call[t], row)
  BY DEF TypeInv, CallsHold, Threads
<1>1. CASE ApproveGate(t) BY <1>t, <1>1, SentQuiet DEF ApproveGate, CommitPcs
<1>2. CASE ApproveProvider(t) BY <1>t, <1>2, SentQuiet DEF ApproveProvider, CommitPcs
<1>3. ASSUME NEW reply \in Replies, ApproveSend(t, reply) PROVE SentIsRecorded'
  <2>1. [call[t] EXCEPT !.pc = "a_commit", !.reply = reply].pc = "a_commit"
        /\ [call[t] EXCEPT !.pc = "a_commit", !.reply = reply].req = call[t].req
    BY <1>t DEF Call
  <2>2. call[t].req \in Reqs /\ call[t].pc \notin CommitPcs
    BY <1>t, <1>3 DEF ApproveSend, CommitPcs, Holds, ApprovePcs
  <2> QED BY <1>t, <1>3, <2>1, <2>2, SentSending DEF ApproveSend, CommitPcs
<1>4. CASE ApproveCommit(t)
  <2>1. call[t].req \in Reqs /\ row[call[t].req] \in Row
    BY <1>t, <1>4 DEF ApproveCommit, Holds, ApprovePcs, TypeOK
  <2>2. PICK d \in Row : row' = [row EXCEPT ![call[t].req] = d] /\ d.status # "pending"
    BY <1>4, <2>1, SettleSettles DEF ApproveCommit
  <2> QED BY <1>t, <1>4, <2>1, <2>2, SentSettling DEF ApproveCommit
<1>5. CASE ApproveTimeout(t)
  <2>1. unsaved \subseteq unsaved' /\ call[t].req \in unsaved' BY <1>5 DEF ApproveTimeout
  <2>2. Becomes(t, Idle) /\ row' = row /\ sent' = sent BY <1>5 DEF ApproveTimeout
  <2>3. ASSUME NEW r \in Reqs PROVE Kept(r) BY <1>t, <2>1, <2>2, DoubtMove DEF Kept
  <2> QED BY <2>3, SentFrame
<1> QED BY <1>1, <1>2, <1>3, <1>4, <1>5 DEF ApproveStep

\* Every step of a batch, its start and its worker, keeps the record.
LEMMA SentBatch == ASSUME TypeInv, SentIsRecorded, NEW t \in Starters, BatchStep(t) PROVE SentIsRecorded'
<1> USE DEF settings, store, history
<1>t. TypeOK /\ CallsHold /\ t \in Threads /\ call[t] \in Call /\ Holds(call[t], row)
  BY DEF TypeInv, CallsHold, Threads
<1>1. CASE StartReserve(t) BY <1>t, <1>1, SentQuiet DEF StartReserve, Reserving, CommitPcs
<1>2. CASE StartCommit(t)
  <2>1. InDoubt \subseteq InDoubt' BY <1>t, <1>2, DoubtMove DEF StartCommit, CommitPcs
  <2>2. ASSUME NEW r \in Reqs PROVE Kept(r) \/ Settled(r)
    <3>1. CASE r \in call[t].drop
      <4>1. row[r] \in Row BY <1>t, <1>2, <3>1 DEF StartCommit, Holds, TypeOK
      <4>2. row'[r] = [row[r] EXCEPT !.status = "rejected", !.approval = "rejected"]
        BY <1>2, <3>1 DEF StartCommit
      <4>3. row'[r].status = "rejected" /\ row'[r] \in Row BY <4>1, <4>2, UpdatedRow
      <4> QED BY <4>3, NothingAssumption DEF Settled
    <3>2. CASE r \notin call[t].drop BY <1>2, <2>1, <3>2 DEF StartCommit, Kept
    <3> QED BY <3>1, <3>2
  <2> QED BY <2>2, SentFrame
<1>3. CASE StartTimeout(t) BY <1>t, <1>3, SentQuiet DEF StartTimeout, CommitPcs
<1>4. CASE WorkerTake(t) BY <1>t, <1>4, SentQuiet DEF WorkerTake, CommitPcs
<1>5. CASE WorkerSkip(t) BY <1>t, <1>5, SentQuiet DEF WorkerSkip, CommitPcs
<1>6. CASE WorkerGate(t) BY <1>t, <1>6, SentQuiet DEF WorkerGate, CommitPcs
<1>7. ASSUME NEW reply \in Replies, WorkerSend(t, reply) PROVE SentIsRecorded'
  <2>1. [call[t] EXCEPT !.pc = "w_commit", !.reply = reply].pc = "w_commit"
        /\ [call[t] EXCEPT !.pc = "w_commit", !.reply = reply].req = call[t].req
    BY <1>t DEF Call
  <2>2. call[t].req \in Reqs /\ call[t].pc \notin CommitPcs
    BY <1>t, <1>7 DEF WorkerSend, CommitPcs, Holds
  <2> QED BY <1>t, <1>7, <2>1, <2>2, SentSending DEF WorkerSend, CommitPcs
<1>8. CASE WorkerCommit(t)
  <2>1. call[t].req \in Reqs /\ row[call[t].req] \in Row
    BY <1>t, <1>8 DEF WorkerCommit, Holds, TypeOK
  <2>2. \E d \in Row : row' = [row EXCEPT ![call[t].req] = d] /\ d.status # "pending"
    <3>1. CASE call[t].reply = "blocked"
      <4>1. PICK e : e = [row[call[t].req] EXCEPT !.status = "failed"] OBVIOUS
      <4>2. row' = [row EXCEPT ![call[t].req] = e] BY <1>8, <3>1, <4>1 DEF WorkerCommit
      <4>3. e \in Row /\ e.status = "failed" BY <2>1, <4>1 DEF Row
      <4> QED BY <4>2, <4>3
    <3>2. CASE call[t].reply # "blocked" BY <1>8, <2>1, <3>2, SettleSettles DEF WorkerCommit
    <3> QED BY <3>1, <3>2
  <2> QED BY <1>t, <1>8, <2>1, <2>2, SentSettling DEF WorkerCommit
<1>9. CASE WorkerTimeout(t)
  <2>1. unsaved \subseteq unsaved' /\ call[t].req \in unsaved' BY <1>9 DEF WorkerTimeout
  <2>2. Becomes(t, NextItem(t)) /\ row' = row /\ sent' = sent BY <1>9 DEF WorkerTimeout
  <2>3. ASSUME NEW r \in Reqs PROVE Kept(r) BY <1>t, <2>1, <2>2, DoubtMove DEF Kept
  <2> QED BY <2>3, SentFrame
<1>10. CASE WorkerDone(t) BY <1>t, <1>10, SentQuiet DEF WorkerDone, CommitPcs
<1> QED BY <1>1, <1>2, <1>3, <1>4, <1>5, <1>6, <1>7, <1>8, <1>9, <1>10 DEF BatchStep

\* So does every step of the system.
LEMMA SentStep == TypeInv /\ SentIsRecorded /\ [Next]_vars => SentIsRecorded'
<1> SUFFICES ASSUME TypeInv, SentIsRecorded, [Next]_vars PROVE SentIsRecorded' OBVIOUS
<1> USE DEF settings, store, history
<1>1. CASE SaveUrl \/ SaveUrlTimeout
  BY <1>1, SentFrame DEF SaveUrl, SaveUrlTimeout, Kept, InDoubt
<1>2. CASE Restart
  <2>1. ASSUME NEW r \in Reqs PROVE Kept(r) BY <1>2 DEF Restart, Kept
  <2> QED BY <2>1, SentFrame
<1>3. CASE UNCHANGED vars BY <1>3, SentFrame DEF vars, Kept, InDoubt
<1> QED BY <1>1, <1>2, <1>3, SentUser, SentDirect, SentApprove, SentBatch DEF Next

\* A payload that has left has its outcome on its row, or a thread is about to
\* commit it, or that commit was lost: for every number of approvals, batches,
\* direct calls and restarts.
THEOREM SentTheorem == Spec => []SentIsRecorded
<1>1. Init => SentIsRecorded BY DEF Init, SentIsRecorded
<1> QED BY <1>1, TypeCorrect, SentStep, PTL DEF Spec

-----------------------------------------------------------------------------
(* Nothing about a never-cloud category goes to the cloud behind its gate. *)

Working == ApprovePcs \cup {"w_gate", "w_send", "w_commit"}

\* What waits for an answer was staged in a cloud mode.
WaitingIsCloud == \A r \in Reqs : Pending(r) => row[r].staged \in CLOUD_MODES

\* So was what a call c works on or has in its queue.
CloudHolds(c, rows) ==
  /\ c.pc \in Working => rows[c.req].staged \in CLOUD_MODES
  /\ \A r \in c.queue : rows[r].staged \in CLOUD_MODES

\* Past its gate, a transaction is outside the never-cloud categories, or late.
GateHolds(t, c, rows, never, behind) ==
  c.pc \in PastGate /\ rows[c.req].txn \in never => t \in behind

CloudInv ==
  /\ WaitingIsCloud
  /\ \A t \in Threads : CloudHolds(call[t], row) /\ GateHolds(t, call[t], row, neverCloud, late)

\* A row keeps its transaction and the mode it was staged in, and no row begins
\* to wait that was not staged in a cloud mode.
RowsKeep ==
  /\ \A r \in Reqs : row[r] # NoRow => row'[r].staged = row[r].staged /\ row'[r].txn = row[r].txn
  /\ WaitingIsCloud'

\* The rows that a call refers to are rows.
LEMMA RefersToRows ==
  ASSUME TypeInv, NEW t \in Threads
  PROVE  /\ call[t].pc \in Working => call[t].req \in Reqs /\ row[call[t].req] # NoRow
         /\ \A r \in call[t].queue : r \in Reqs /\ row[r] # NoRow
<1>1. call[t] \in Call /\ Holds(call[t], row) BY DEF TypeInv, CallsHold
<1> QED BY <1>1 DEF Holds, Working, Call

\* A thread that does not move keeps what holds for it.
LEMMA OthersHold ==
  ASSUME TypeInv, CloudInv, RowsKeep, NEW t \in Threads, call'[t] = call[t],
         neverCloud' = neverCloud, t \in late => t \in late'
  PROVE  CloudHolds(call'[t], row') /\ GateHolds(t, call'[t], row', neverCloud', late')
<1>1. CloudHolds(call[t], row) /\ GateHolds(t, call[t], row, neverCloud, late) BY DEF CloudInv
<1>2. call[t].pc \in PastGate => call[t].pc \in Working BY DEF PastGate, Working, ApprovePcs
<1> QED BY <1>1, <1>2, RefersToRows DEF CloudHolds, GateHolds, RowsKeep

\* No call moves.
LEMMA CloudStay ==
  ASSUME TypeInv, CloudInv, RowsKeep, call' = call, neverCloud' = neverCloud, late \subseteq late'
  PROVE  CloudInv'
<1>1. ASSUME NEW t \in Threads
      PROVE  CloudHolds(call'[t], row') /\ GateHolds(t, call'[t], row', neverCloud', late')
  BY <1>1, OthersHold
<1> QED BY <1>1 DEF CloudInv, RowsKeep

\* One thread's call becomes c.
LEMMA CloudMove ==
  ASSUME TypeInv, CloudInv, RowsKeep, NEW t \in Threads, NEW c, Becomes(t, c),
         neverCloud' = neverCloud, late \ {t} \subseteq late',
         CloudHolds(c, row'), GateHolds(t, c, row', neverCloud, late')
  PROVE  CloudInv'
<1>1. call'[t] = c /\ \A u \in Threads \ {t} : call'[u] = call[u]
  BY DEF Becomes, TypeInv, TypeOK
<1>2. ASSUME NEW u \in Threads \ {t}
      PROVE  CloudHolds(call'[u], row') /\ GateHolds(u, call'[u], row', neverCloud', late')
  BY <1>1, <1>2, OthersHold
<1> QED BY <1>1, <1>2 DEF CloudInv, RowsKeep

\* A step that leaves the rows alone.
LEMMA SameRows == ASSUME CloudInv, row' = row PROVE RowsKeep
BY DEF CloudInv, RowsKeep, WaitingIsCloud, Pending

\* One row gets another status and approval.
LEMMA Overwritten ==
  ASSUME TypeInv, CloudInv, NEW r \in Reqs, row[r] \in Row, NEW s, NEW a, s # "pending",
         row' = [row EXCEPT ![r] = [@ EXCEPT !.status = s, !.approval = a]]
  PROVE  RowsKeep
<1>1. row'[r].staged = row[r].staged /\ row'[r].txn = row[r].txn /\ row'[r].status = s
  BY DEF TypeInv, TypeOK, Row
<1>2. \A q \in Reqs \ {r} : row'[q] = row[q] BY DEF TypeInv, TypeOK
<1> QED BY <1>1, <1>2 DEF CloudInv, RowsKeep, WaitingIsCloud, Pending

\* An outcome is no "pending".
LEMMA Settling ==
  ASSUME TypeInv, CloudInv, NEW r \in Reqs, row[r] \in Row, NEW reply, Settle(r, reply)
  PROVE  RowsKeep
<1>1. Outcome(reply) # "pending" BY DEF Outcome
<1> QED BY <1>1, Overwritten DEF Settle

\* An idle call holds everything.
LEMMA IdleCloud == \A rows, t, never, behind : CloudHolds(Idle, rows) /\ GateHolds(t, Idle, rows, never, behind)
BY DEF Idle, CloudHolds, GateHolds, Working, ApprovePcs, PastGate

-----------------------------------------------------------------------------

\* What users start, save, reject or dismiss.
LEMMA CloudUser == ASSUME TypeInv, CloudInv, UserStep PROVE CloudInv'
<1> USE DEF settings, store, history
<1>t. TypeOK BY DEF TypeInv
<1>1. ASSUME NEW p \in Profiles, SaveMode(p[1], p[2]) PROVE CloudInv'
  BY <1>1, CloudStay, SameRows DEF SaveMode
<1>2. ASSUME NEW x \in Moves, Recategorise(x) PROVE CloudInv'
  <2>1. row' = row /\ call' = call BY <1>2 DEF Recategorise
  <2>2. ASSUME NEW t \in Threads, call[t].pc \in PastGate, row[call[t].req].txn \in neverCloud'
        PROVE  t \in late'
    <3>1. call[t].req \in Reqs /\ row[call[t].req] # NoRow
      BY <2>2, RefersToRows DEF PastGate, Working, ApprovePcs
    <3>2. TxnOf(t) = row[call[t].req].txn BY <3>1 DEF TxnOf
    <3>3. CASE row[call[t].req].txn = x BY <1>2, <2>2, <3>2, <3>3 DEF Recategorise
    <3>4. CASE row[call[t].req].txn # x
      <4>1. row[call[t].req].txn \in neverCloud BY <1>2, <2>2, <3>4 DEF Recategorise
      <4>2. t \in late BY <2>2, <4>1 DEF CloudInv, GateHolds
      <4> QED BY <1>2, <4>2 DEF Recategorise
    <3> QED BY <3>3, <3>4
  <2> QED BY <2>1, <2>2 DEF CloudInv, CloudHolds, GateHolds, WaitingIsCloud, Pending
<1>3. ASSUME NEW t \in Approvers, NEW r \in Reqs, Reject(t, r) PROVE CloudInv'
  <2>1. RowsKeep BY <1>t, <1>3, Overwritten DEF Reject, TypeOK
  <2> QED BY <1>3, <2>1, CloudStay DEF Reject
<1>4. ASSUME NEW t \in Approvers, NEW r \in Reqs, DismissItem(t, r) PROVE CloudInv'
  BY <1>4, CloudStay, SameRows DEF DismissItem
<1>5. CASE Prepare
  <2>1. PICK new \in SUBSET Free \ {{}} : \E of \in Injection(new, Txns) :
          row' = [r \in Reqs |-> IF r \in new
                                 THEN [status |-> "pending", approval |-> "pending",
                                       staged |-> mode, txn |-> of[r]]
                                 ELSE row[r]]
    BY <1>5 DEF Prepare
  <2>2. mode \in CLOUD_MODES /\ call' = call /\ neverCloud' = neverCloud /\ late' = late
    BY <1>5 DEF Prepare
  <2>3. RowsKeep BY <2>1, <2>2 DEF CloudInv, RowsKeep, WaitingIsCloud, Pending, Free
  <2> QED BY <2>2, <2>3, CloudStay
<1>6. ASSUME NEW t \in Directs, NEW x \in Txns, Classify(t, x) PROVE CloudInv'
  <2> DEFINE c == [Idle EXCEPT !.pc = "c_provider", !.txn = x, !.seen = mode]
  <2>1. CloudHolds(c, row') /\ GateHolds(t, c, row', neverCloud, late')
    BY DEF Idle, CloudHolds, GateHolds, Working, ApprovePcs, PastGate
  <2> HIDE DEF c
  <2>2. Becomes(t, c) /\ row' = row /\ neverCloud' = neverCloud /\ late' = late
    BY <1>6 DEF Classify, c
  <2> QED BY <2>1, <2>2, CloudMove, SameRows DEF Threads
<1>7. ASSUME NEW t \in Directs, NEW approved \in BOOLEAN, Image(t, approved) PROVE CloudInv'
  <2> DEFINE c == [Idle EXCEPT !.pc = "i_provider", !.seen = mode]
  <2>1. CloudHolds(c, row') /\ GateHolds(t, c, row', neverCloud, late')
    BY DEF Idle, CloudHolds, GateHolds, Working, ApprovePcs, PastGate
  <2> HIDE DEF c
  <2>2. Becomes(t, c) /\ row' = row /\ neverCloud' = neverCloud /\ late' = late
    BY <1>7 DEF Image, c
  <2> QED BY <2>1, <2>2, CloudMove, SameRows DEF Threads
<1>8. ASSUME NEW t \in Approvers, NEW r \in Reqs, Approve(t, r) PROVE CloudInv'
  <2> DEFINE c == [Idle EXCEPT !.pc = "a_gate", !.req = r]
  <2>0. row[r].staged \in CLOUD_MODES BY <1>8 DEF Approve, CloudInv, WaitingIsCloud
  <2>2. Becomes(t, c) /\ row' = row /\ neverCloud' = neverCloud /\ late' = late
    BY <1>8 DEF Approve
  <2>1. CloudHolds(c, row') /\ GateHolds(t, c, row', neverCloud, late')
    BY <2>0, <2>2 DEF Idle, CloudHolds, GateHolds, PastGate
  <2> HIDE DEF c
  <2> QED BY <2>1, <2>2, CloudMove, SameRows DEF Threads
<1>9. ASSUME NEW t \in Starters, NEW A \in SUBSET Staged, NEW R, Start(t, A, R) PROVE CloudInv'
  <2> DEFINE c == [Idle EXCEPT !.pc = "s_reserve", !.drop = R,
                     !.queue = {r \in A : r \notin inflight /\ Pending(r)}]
  <2>2. Becomes(t, c) /\ row' = row /\ neverCloud' = neverCloud /\ late' = late
    BY <1>9 DEF Start
  <2>1. CloudHolds(c, row') /\ GateHolds(t, c, row', neverCloud, late')
    BY <2>2 DEF Idle, CloudHolds, GateHolds, Working, ApprovePcs, PastGate, CloudInv, WaitingIsCloud, Staged
  <2> HIDE DEF c
  <2> QED BY <2>1, <2>2, CloudMove, SameRows DEF Threads
<1> QED BY <1>1, <1>2, <1>3, <1>4, <1>5, <1>6, <1>7, <1>8, <1>9 DEF UserStep

\* A call that moves to a position of which nothing is asked, by a step that
\* leaves rows, categories and lateness alone.
LEMMA CloudQuiet ==
  ASSUME TypeInv, CloudInv, NEW t \in Threads, NEW c, Becomes(t, c), row' = row,
         neverCloud' = neverCloud, late' = late,
         c.pc \notin Working, c.queue \subseteq call[t].queue
  PROVE  CloudInv'
<1>1. CloudHolds(c, row') BY DEF CloudInv, CloudHolds
<1>2. GateHolds(t, c, row', neverCloud, late')
  BY DEF GateHolds, PastGate, Working, ApprovePcs
<1> QED BY <1>1, <1>2, CloudMove, SameRows

\* Every step of a direct call: it works on no staged row.
LEMMA CloudDirect ==
  ASSUME TypeInv, LockInv, CloudInv, NEW t \in Directs, DirectStep(t)
  PROVE  CloudInv'
<1> USE DEF settings, store, history
<1>t. TypeOK /\ t \in Threads /\ call[t] \in Call /\ Holds(call[t], row) /\ Idle \in Call
  BY IdleHolds DEF TypeInv, CallsHold, Threads
<1>i. Idle.pc \notin Working /\ Idle.queue = {} BY DEF Idle, Working, ApprovePcs
<1>1. CASE ClassifyProvider(t)
  BY <1>t, <1>1, <1>i, CloudQuiet DEF ClassifyProvider, Working, ApprovePcs, Call
<1>2. CASE ClassifyGate(t)
  BY <1>t, <1>2, <1>i, CloudQuiet DEF ClassifyGate, Working, ApprovePcs, Call
<1>3. CASE ImageProvider(t)
  BY <1>t, <1>3, <1>i, CloudQuiet DEF ImageProvider, Working, ApprovePcs, Call
<1>4. CASE ClassifyStage(t)
  <2>1. PICK r \in Free :
          row' = [row EXCEPT ![r] = [status |-> "pending", approval |-> "pending",
                                     staged |-> call[t].seen, txn |-> call[t].txn]]
    BY <1>4 DEF ClassifyStage
  <2>2. call[t].seen \in CLOUD_MODES BY <1>4 DEF ClassifyStage, NeedsApproval, CLOUD_MODES
  <2>3. row[r] = NoRow /\ row'[r].staged \in CLOUD_MODES /\ \A q \in Reqs \ {r} : row'[q] = row[q]
    BY <1>t, <2>1, <2>2 DEF TypeOK, Free
  <2>4. RowsKeep BY <2>3 DEF CloudInv, RowsKeep, WaitingIsCloud, Pending
  <2>5. Becomes(t, Idle) /\ neverCloud' = neverCloud /\ late' = late BY <1>4 DEF ClassifyStage
  <2> QED BY <1>t, <2>4, <2>5, IdleCloud, CloudMove
<1>5. CASE DirectFlush(t)
  <2>1. PICK r \in Free : Becomes(t, [call[t] EXCEPT !.pc = "d_send", !.req = r])
    BY <1>5 DEF DirectFlush
  <2>2. row' = row /\ neverCloud' = neverCloud /\ late' = late BY <1>5 DEF DirectFlush
  <2> QED BY <1>t, <2>1, <2>2, CloudQuiet DEF Working, ApprovePcs, Call
<1>6. CASE DirectTimeout(t)
  BY <1>t, <1>6, <1>i, CloudQuiet DEF DirectTimeout
<1>7. ASSUME NEW reply \in Replies, DirectSend(t, reply) PROVE CloudInv'
  BY <1>t, <1>7, CloudQuiet DEF DirectSend, Working, ApprovePcs, Call
<1>8. CASE DirectCommit(t)
  <2> DEFINE d == [status |-> Outcome(call[t].reply),
                   approval |-> IF call[t].txn # NoTxn /\ call[t].seen \in CLOUD_MODES
                                THEN "approved" ELSE "not_required",
                   staged |-> call[t].seen, txn |-> call[t].txn]
  <2>1. call[t].req \in Reqs /\ row[call[t].req] = NoRow
    BY <1>t, <1>8 DEF DirectCommit, LockInv, Holds, Sending
  <2>2. d.status # "pending" BY DEF Outcome
  <2>3. row' = [row EXCEPT ![call[t].req] = d] BY <1>8 DEF DirectCommit
  <2> HIDE DEF d
  <2>4. row'[call[t].req] = d /\ \A q \in Reqs \ {call[t].req} : row'[q] = row[q]
    BY <1>t, <2>1, <2>3 DEF TypeOK
  <2>5. RowsKeep BY <2>1, <2>2, <2>4 DEF CloudInv, RowsKeep, WaitingIsCloud, Pending
  <2>6. Becomes(t, Idle) /\ neverCloud' = neverCloud /\ late' = late BY <1>8 DEF DirectCommit
  <2> QED BY <1>t, <2>5, <2>6, IdleCloud, CloudMove
<1> QED BY <1>1, <1>2, <1>3, <1>4, <1>5, <1>6, <1>7, <1>8 DEF DirectStep

\* A staged row that its gate lets through is about no never-cloud transaction.
LEMMA GateOpens ==
  ASSUME NEW r \in Reqs, row[r].staged \in CLOUD_MODES, ~StagedBlocked(r)
  PROVE  row[r].txn \notin neverCloud
BY DEF StagedBlocked, CLOUD_MODES

\* Every step of an approval.
LEMMA CloudApprove == ASSUME TypeInv, CloudInv, NEW t \in Approvers, ApproveStep(t) PROVE CloudInv'
<1> USE DEF settings, store, history
<1>t. TypeOK /\ t \in Threads /\ call[t] \in Call /\ CloudHolds(call[t], row)
      /\ GateHolds(t, call[t], row, neverCloud, late)
  BY DEF TypeInv, CallsHold, CloudInv, Threads
<1>i. Idle.pc \notin Working /\ Idle.queue = {} BY DEF Idle, Working, ApprovePcs
<1>1. CASE ApproveGate(t)
  <2>1. call[t].req \in Reqs /\ row[call[t].req].staged \in CLOUD_MODES
    BY <1>t, <1>1, RefersToRows DEF ApproveGate, CloudHolds, Working, ApprovePcs
  <2>2. row' = row /\ neverCloud' = neverCloud /\ late' = late \ {t} BY <1>1 DEF ApproveGate
  <2>3. CASE StagedBlocked(call[t].req)
    <3>1. Becomes(t, Idle) BY <1>1, <2>3 DEF ApproveGate
    <3> QED BY <1>t, <2>2, <3>1, IdleCloud, CloudMove, SameRows
  <2>4. CASE ~StagedBlocked(call[t].req)
    <3>1. PICK c : c = [call[t] EXCEPT !.pc = "a_provider"] OBVIOUS
    <3>2. c.pc = "a_provider" /\ c.req = call[t].req /\ c.queue = call[t].queue
      BY <1>t, <3>1 DEF Call
    <3>3. Becomes(t, c) BY <1>1, <2>4, <3>1 DEF ApproveGate
    <3>4. CloudHolds(c, row') BY <1>t, <2>1, <2>2, <3>2 DEF CloudHolds
    <3>5. GateHolds(t, c, row', neverCloud, late') BY <2>1, <2>2, <2>4, <3>2, GateOpens DEF GateHolds
    <3> QED BY <1>t, <2>2, <3>3, <3>4, <3>5, CloudMove, SameRows
  <2> QED BY <2>3, <2>4
<1>2. CASE ApproveProvider(t)
  <2>1. row' = row /\ neverCloud' = neverCloud /\ late' = late BY <1>2 DEF ApproveProvider
  <2>2. CASE get_provider = "none"
    <3>1. Becomes(t, Idle) BY <1>2, <2>2 DEF ApproveProvider
    <3> QED BY <1>t, <2>1, <3>1, IdleCloud, CloudMove, SameRows
  <2>3. CASE get_provider # "none"
    <3>1. PICK c : c = [call[t] EXCEPT !.pc = "a_send", !.target = get_provider] OBVIOUS
    <3>2. c.pc = "a_send" /\ c.req = call[t].req /\ c.queue = call[t].queue
      BY <1>t, <3>1 DEF Call
    <3>3. Becomes(t, c) /\ call[t].pc = "a_provider" BY <1>2, <2>3, <3>1 DEF ApproveProvider
    <3>4. CloudHolds(c, row') BY <1>t, <2>1, <3>2, <3>3 DEF CloudHolds, Working, ApprovePcs
    <3>5. GateHolds(t, c, row', neverCloud, late') BY <1>t, <2>1, <3>2, <3>3 DEF GateHolds, PastGate
    <3> QED BY <1>t, <2>1, <3>3, <3>4, <3>5, CloudMove, SameRows
  <2> QED BY <2>2, <2>3
<1>3. ASSUME NEW reply \in Replies, ApproveSend(t, reply) PROVE CloudInv'
  <2>1. row' = row /\ neverCloud' = neverCloud /\ late' = late BY <1>3 DEF ApproveSend
  <2>2. PICK c : c = [call[t] EXCEPT !.pc = "a_commit", !.reply = reply] OBVIOUS
  <2>3. c.pc = "a_commit" /\ c.req = call[t].req /\ c.queue = call[t].queue
    BY <1>t, <2>2 DEF Call
  <2>4. Becomes(t, c) /\ call[t].pc = "a_send" BY <1>3, <2>2 DEF ApproveSend
  <2>5. CloudHolds(c, row') BY <1>t, <2>1, <2>3, <2>4 DEF CloudHolds, Working, ApprovePcs
  <2>6. GateHolds(t, c, row', neverCloud, late') BY <2>3 DEF GateHolds, PastGate
  <2> QED BY <1>t, <2>1, <2>4, <2>5, <2>6, CloudMove, SameRows
<1>4. CASE ApproveCommit(t)
  <2>1. call[t].req \in Reqs /\ row[call[t].req] \in Row
    BY <1>t, <1>4, RefersToRows DEF ApproveCommit, Working, ApprovePcs, TypeOK
  <2>2. RowsKeep BY <1>4, <2>1, Settling DEF ApproveCommit
  <2>3. Becomes(t, Idle) /\ neverCloud' = neverCloud /\ late' = late BY <1>4 DEF ApproveCommit
  <2> QED BY <1>t, <2>2, <2>3, IdleCloud, CloudMove
<1>5. CASE ApproveTimeout(t)
  BY <1>t, <1>5, <1>i, CloudQuiet DEF ApproveTimeout
<1> QED BY <1>1, <1>2, <1>3, <1>4, <1>5 DEF ApproveStep

\* Every step of a batch, its start and its worker.
LEMMA CloudBatch == ASSUME TypeInv, CloudInv, NEW t \in Starters, BatchStep(t) PROVE CloudInv'
<1> USE DEF settings, store, history
<1>t. TypeOK /\ t \in Threads /\ call[t] \in Call /\ Holds(call[t], row) /\ CloudHolds(call[t], row)
      /\ GateHolds(t, call[t], row, neverCloud, late)
  BY DEF TypeInv, CallsHold, CloudInv, Threads
<1>i. Idle.pc \notin Working /\ Idle.queue = {} BY DEF Idle, Working, ApprovePcs
<1>n. NextItem(t).pc = "w_next" /\ NextItem(t).queue \subseteq call[t].queue
  BY <1>t DEF NextItem, Call
<1>w. "w_next" \notin Working /\ "s_commit" \notin Working BY DEF Working, ApprovePcs
<1>1. CASE StartReserve(t)
  BY <1>t, <1>1, <1>w, CloudQuiet DEF StartReserve, Call
<1>2. CASE StartCommit(t)
  <2>1. PICK c : c = [call[t] EXCEPT !.pc = "w_next", !.drop = {}] OBVIOUS
  <2>2. c.pc = "w_next" /\ c.queue = call[t].queue BY <1>t, <2>1 DEF Call
  <2>3. Becomes(t, c) /\ neverCloud' = neverCloud /\ late' = late BY <1>2, <2>1 DEF StartCommit
  <2>4. ASSUME NEW r \in Reqs
        PROVE  row'[r] = row[r] \/ (/\ row'[r].staged = row[r].staged /\ row'[r].txn = row[r].txn
                                   /\ row'[r].status = "rejected")
    <3>1. CASE r \in call[t].drop
      <4>1. row[r] \in Row BY <1>t, <1>2, <3>1 DEF StartCommit, Holds, TypeOK
      <4>2. row'[r] = [row[r] EXCEPT !.status = "rejected", !.approval = "rejected"]
        BY <1>2, <3>1 DEF StartCommit
      <4> QED BY <4>1, <4>2 DEF Row
    <3>2. CASE r \notin call[t].drop BY <1>2, <3>2 DEF StartCommit
    <3> QED BY <3>1, <3>2
  <2>5. RowsKeep BY <2>4 DEF CloudInv, RowsKeep, WaitingIsCloud, Pending
  <2>6. CloudHolds(c, row')
    <3>1. ASSUME NEW r \in c.queue PROVE row'[r].staged \in CLOUD_MODES
      BY <1>t, <2>2, <2>5, <3>1, RefersToRows DEF CloudHolds, RowsKeep
    <3> QED BY <1>w, <2>2, <3>1 DEF CloudHolds
  <2>7. GateHolds(t, c, row', neverCloud, late') BY <2>2 DEF GateHolds, PastGate
  <2> QED BY <1>t, <2>3, <2>5, <2>6, <2>7, CloudMove
<1>3. CASE StartTimeout(t) BY <1>t, <1>3, <1>i, CloudQuiet DEF StartTimeout
<1>4. CASE WorkerTake(t)
  <2>1. PICK r \in call[t].queue :
          Becomes(t, [call[t] EXCEPT !.pc = "w_gate", !.req = r, !.target = get_provider])
    BY <1>4 DEF WorkerTake
  <2>2. PICK c : c = [call[t] EXCEPT !.pc = "w_gate", !.req = r, !.target = get_provider] OBVIOUS
  <2>3. c.pc = "w_gate" /\ c.req = r /\ c.queue = call[t].queue BY <1>t, <2>2 DEF Call
  <2>4. row' = row /\ neverCloud' = neverCloud /\ late' = late BY <1>4 DEF WorkerTake
  <2>5. CloudHolds(c, row') BY <1>t, <2>1, <2>3, <2>4 DEF CloudHolds
  <2>6. GateHolds(t, c, row', neverCloud, late') BY <2>3 DEF GateHolds, PastGate
  <2> QED BY <1>t, <2>1, <2>2, <2>4, <2>5, <2>6, CloudMove, SameRows
<1>5. CASE WorkerSkip(t) BY <1>t, <1>5, <1>n, <1>w, CloudQuiet DEF WorkerSkip
<1>6. CASE WorkerGate(t)
  <2>1. call[t].req \in Reqs /\ row[call[t].req].staged \in CLOUD_MODES
    BY <1>t, <1>6, RefersToRows DEF WorkerGate, CloudHolds, Working
  <2>2. row' = row /\ neverCloud' = neverCloud /\ late' = late \ {t} BY <1>6 DEF WorkerGate
  <2>3. CASE StagedBlocked(call[t].req)
    <3>1. PICK c : c = [call[t] EXCEPT !.pc = "w_commit", !.reply = "blocked"] OBVIOUS
    <3>2. c.pc = "w_commit" /\ c.req = call[t].req /\ c.queue = call[t].queue
      BY <1>t, <3>1 DEF Call
    <3>3. Becomes(t, c) BY <1>6, <2>3, <3>1 DEF WorkerGate
    <3>4. CloudHolds(c, row') BY <1>t, <2>1, <2>2, <3>2 DEF CloudHolds
    <3>5. GateHolds(t, c, row', neverCloud, late') BY <3>2 DEF GateHolds, PastGate
    <3> QED BY <1>t, <2>2, <3>3, <3>4, <3>5, CloudMove, SameRows
  <2>4. CASE ~StagedBlocked(call[t].req)
    <3>1. PICK c : c = [call[t] EXCEPT !.pc = "w_send"] OBVIOUS
    <3>2. c.pc = "w_send" /\ c.req = call[t].req /\ c.queue = call[t].queue
      BY <1>t, <3>1 DEF Call
    <3>3. Becomes(t, c) BY <1>6, <2>4, <3>1 DEF WorkerGate
    <3>4. CloudHolds(c, row') BY <1>t, <2>1, <2>2, <3>2 DEF CloudHolds
    <3>5. GateHolds(t, c, row', neverCloud, late') BY <2>1, <2>2, <2>4, <3>2, GateOpens DEF GateHolds
    <3> QED BY <1>t, <2>2, <3>3, <3>4, <3>5, CloudMove, SameRows
  <2> QED BY <2>3, <2>4
<1>7. ASSUME NEW reply \in Replies, WorkerSend(t, reply) PROVE CloudInv'
  <2>1. row' = row /\ neverCloud' = neverCloud /\ late' = late BY <1>7 DEF WorkerSend
  <2>2. PICK c : c = [call[t] EXCEPT !.pc = "w_commit", !.reply = reply] OBVIOUS
  <2>3. c.pc = "w_commit" /\ c.req = call[t].req /\ c.queue = call[t].queue
    BY <1>t, <2>2 DEF Call
  <2>4. Becomes(t, c) /\ call[t].pc = "w_send" BY <1>7, <2>2 DEF WorkerSend
  <2>5. CloudHolds(c, row') BY <1>t, <2>1, <2>3, <2>4 DEF CloudHolds, Working
  <2>6. GateHolds(t, c, row', neverCloud, late') BY <2>3 DEF GateHolds, PastGate
  <2> QED BY <1>t, <2>1, <2>4, <2>5, <2>6, CloudMove, SameRows
<1>8. CASE WorkerCommit(t)
  <2>1. call[t].req \in Reqs /\ row[call[t].req] \in Row
    BY <1>t, <1>8, RefersToRows DEF WorkerCommit, Working, TypeOK
  <2>2. RowsKeep
    <3>1. CASE call[t].reply = "blocked"
      <4>1. row' = [row EXCEPT ![call[t].req] = [@ EXCEPT !.status = "failed"]]
        BY <1>8, <3>1 DEF WorkerCommit
      <4>2. row'[call[t].req] = [row[call[t].req] EXCEPT !.status = "failed"]
            /\ \A r \in Reqs \ {call[t].req} : row'[r] = row[r]
        BY <1>t, <2>1, <4>1 DEF TypeOK
      <4>3. /\ row'[call[t].req].staged = row[call[t].req].staged
            /\ row'[call[t].req].txn = row[call[t].req].txn
            /\ row'[call[t].req].status = "failed"
        BY <2>1, <4>2 DEF Row
      <4> QED BY <4>2, <4>3 DEF CloudInv, RowsKeep, WaitingIsCloud, Pending
    <3>2. CASE call[t].reply # "blocked" BY <1>8, <2>1, <3>2, Settling DEF WorkerCommit
    <3> QED BY <3>1, <3>2
  <2>3. Becomes(t, NextItem(t)) /\ neverCloud' = neverCloud /\ late' = late BY <1>8 DEF WorkerCommit
  <2>4. CloudHolds(NextItem(t), row')
    <3>1. ASSUME NEW r \in NextItem(t).queue PROVE row'[r].staged \in CLOUD_MODES
      BY <1>t, <1>n, <2>2, <3>1, RefersToRows DEF CloudHolds, RowsKeep
    <3> QED BY <1>n, <1>w, <3>1 DEF CloudHolds
  <2>5. GateHolds(t, NextItem(t), row', neverCloud, late') BY <1>n DEF GateHolds, PastGate
  <2> QED BY <1>t, <2>2, <2>3, <2>4, <2>5, CloudMove
<1>9. CASE WorkerTimeout(t) BY <1>t, <1>9, <1>n, <1>w, CloudQuiet DEF WorkerTimeout
<1>10. CASE WorkerDone(t) BY <1>t, <1>10, <1>i, CloudQuiet DEF WorkerDone
<1> QED BY <1>1, <1>2, <1>3, <1>4, <1>5, <1>6, <1>7, <1>8, <1>9, <1>10 DEF BatchStep

\* Every step of the system.
LEMMA CloudStep == TypeInv /\ LockInv /\ CloudInv /\ [Next]_vars => CloudInv'
<1> SUFFICES ASSUME TypeInv, LockInv, CloudInv, [Next]_vars PROVE CloudInv' OBVIOUS
<1> USE DEF settings, store, history
<1>1. CASE SaveUrl \/ SaveUrlTimeout BY <1>1, CloudStay, SameRows DEF SaveUrl, SaveUrlTimeout
<1>2. CASE Restart
  <2>1. row' = row /\ neverCloud' = neverCloud /\ late' = late
        /\ \A u \in Threads : call'[u] = Idle
    BY <1>2 DEF Restart
  <2>2. ASSUME NEW t \in Threads
        PROVE  CloudHolds(call'[t], row') /\ GateHolds(t, call'[t], row', neverCloud', late')
    BY <2>1, <2>2, IdleCloud
  <2> QED BY <2>1, <2>2, SameRows DEF CloudInv, RowsKeep
<1>3. CASE UNCHANGED vars BY <1>3, CloudStay, SameRows DEF vars
<1> QED BY <1>1, <1>2, <1>3, CloudUser, CloudDirect, CloudApprove, CloudBatch DEF Next

\* At the start there is no row, and nobody is past a gate.
LEMMA CloudInit == Init => CloudInv
<1> SUFFICES ASSUME Init PROVE CloudInv OBVIOUS
<1>1. \A t \in Threads : call[t] = Idle BY DEF Init
<1> QED BY <1>1, IdleCloud DEF Init, CloudInv, WaitingIsCloud, Pending

\* A payload about to go to the cloud is about no transaction in a never-cloud
\* category, unless it was moved there after the call's gate: for every number of
\* approvals and batches, and whatever modes and endpoints are saved meanwhile
\* (_staged_request_block_reason).
THEOREM NeverCloudTheorem == Spec => []NeverCloudHonoured
<1>1. TypeInv /\ CloudInv => NeverCloudHonoured
  <2> SUFFICES ASSUME TypeInv, CloudInv, NEW t \in Approvers \cup Starters,
                      call[t].pc \in {"a_send", "w_send"}, TxnOf(t) \in neverCloud
               PROVE  t \in late
    BY DEF NeverCloudHonoured
  <2>1. t \in Threads BY DEF Threads
  <2>2. call[t].req \in Reqs /\ row[call[t].req] # NoRow
    BY <2>1, RefersToRows DEF Working, ApprovePcs
  <2> QED BY <2>1, <2>2 DEF CloudInv, GateHolds, PastGate, TxnOf
<1> QED BY <1>1, TypeCorrect, LockInit, LockStep, CloudInit, CloudStep, PTL DEF Spec

-----------------------------------------------------------------------------
(* The set _inflight_batch_ids keeps the queues of background workers apart.*)

Reserved == {"s_commit"} \cup WorkerPcs

\* The requests a batch is after, and those it has put into the set.
Claimed(c) == IF c.pc \in Reserved \cup {"s_reserve"} THEN c.queue ELSE {}
Taken(c) == IF c.pc \in Reserved THEN c.batch ELSE {}

Waits(rows, r) == rows[r] # NoRow /\ rows[r].status = "pending"

\* What a batch has taken is still in its queue, or done with, or in doubt; what is in
\* its queue is in the set, unless it is in doubt.
BatchHolds(c, rows, flying, lost) ==
  /\ \A r \in Taken(c) : /\ r \in Reqs /\ rows[r] # NoRow
                         /\ r \in c.queue \/ ~Waits(rows, r) \/ r \in lost
  /\ c.pc \in Reserved => c.queue \subseteq c.batch /\ c.queue \subseteq flying \cup lost
  /\ c.pc \in {"w_gate", "w_send", "w_commit"} => c.req \in c.queue

\* No batch is after what another has taken, and one at a time is about to take.
ExclusiveInv ==
  /\ \A t \in Starters : BatchHolds(call[t], row, inflight, unsaved)
  /\ \A t, u \in Starters : t # u => Claimed(call[t]) \cap Taken(call[u]) \subseteq unsaved
  /\ \A t, u \in Starters : Reserving(t) /\ Reserving(u) => t = u

\* Rows stay, do not begin to wait again, and stay in doubt.
Steady ==
  \A r \in Reqs : row[r] # NoRow =>
    /\ row'[r] # NoRow
    /\ ~Waits(row, r) => ~Waits(row', r)
    /\ r \in unsaved => r \in unsaved'

\* What a batch is after are rows.
LEMMA ClaimedRows ==
  ASSUME TypeInv, NEW t \in Threads
  PROVE  \A r \in Claimed(call[t]) : r \in Reqs /\ row[r] # NoRow
BY RefersToRows DEF Claimed

\* One call moves; what leaves the set is in no other queue, or in doubt.
LEMMA BatchMove ==
  ASSUME TypeInv, ExclusiveInv, Steady, NEW t \in Threads, NEW c, Becomes(t, c),
         \A u \in Starters \ {t} : \A r \in Claimed(call[u]) :
           (r \in inflight => r \in inflight') \/ r \in unsaved',
         BatchHolds(c, row', inflight', unsaved'),
         \A u \in Starters \ {t} : /\ Claimed(c) \cap Taken(call[u]) \subseteq unsaved'
                                   /\ Claimed(call[u]) \cap Taken(c) \subseteq unsaved',
         c.pc = "s_reserve" => \A u \in Starters \ {t} : ~Reserving(u)
  PROVE  ExclusiveInv'
<1>1. call'[t] = c /\ \A u \in Threads \ {t} : call'[u] = call[u]
  BY DEF Becomes, TypeInv, TypeOK
<1>s. Starters \subseteq Threads BY DEF Threads
<1>2. ASSUME NEW u \in Starters PROVE BatchHolds(call'[u], row', inflight', unsaved')
  <2>1. CASE u = t BY <1>1, <2>1
  <2>2. CASE u # t
    <3>1. call'[u] = call[u] BY <1>1, <1>s, <2>2
    <3>2. BatchHolds(call[u], row, inflight, unsaved) BY DEF ExclusiveInv
    <3>3. \A r \in Claimed(call[u]) : r \in Reqs /\ row[r] # NoRow BY <1>s, ClaimedRows
    <3>4. \A r \in Taken(call[u]) : /\ r \in Reqs /\ row'[r] # NoRow
                                    /\ r \in call[u].queue \/ ~Waits(row', r) \/ r \in unsaved'
      BY <3>2 DEF BatchHolds, Steady
    <3>5. call[u].pc \in Reserved => call[u].queue \subseteq inflight' \cup unsaved'
      BY <2>2, <3>2, <3>3 DEF BatchHolds, Steady, Claimed
    <3> QED BY <3>1, <3>2, <3>4, <3>5 DEF BatchHolds
  <2> QED BY <2>1, <2>2
<1>3. ASSUME NEW u \in Starters, NEW v \in Starters, u # v
      PROVE  Claimed(call'[u]) \cap Taken(call'[v]) \subseteq unsaved'
  <2>1. CASE u = t BY <1>1, <1>3, <1>s, <2>1
  <2>2. CASE v = t BY <1>1, <1>3, <1>s, <2>2
  <2>3. CASE u # t /\ v # t
    <3>1. call'[u] = call[u] /\ call'[v] = call[v] BY <1>1, <1>s, <2>3
    <3>2. Claimed(call[u]) \cap Taken(call[v]) \subseteq unsaved BY <1>3 DEF ExclusiveInv
    <3>3. \A r \in Claimed(call[u]) : r \in Reqs /\ row[r] # NoRow BY <1>s, ClaimedRows
    <3> QED BY <3>1, <3>2, <3>3 DEF Steady
  <2> QED BY <2>1, <2>2, <2>3
<1>4. ASSUME NEW u \in Starters, NEW v \in Starters, Reserving(u)', Reserving(v)' PROVE u = v
  BY <1>1, <1>4, <1>s DEF Reserving, ExclusiveInv
<1> QED BY <1>2, <1>3, <1>4 DEF ExclusiveInv

\* One call moves to where it is after nothing, and leaves the set alone.
LEMMA BatchNone ==
  ASSUME TypeInv, ExclusiveInv, Steady, NEW t \in Threads, NEW c, Becomes(t, c),
         inflight' = inflight, c.pc \notin Reserved \cup {"s_reserve"}
  PROVE  ExclusiveInv'
<1>1. Claimed(c) = {} /\ Taken(c) = {} BY DEF Claimed, Taken
<1>2. BatchHolds(c, row', inflight', unsaved') BY <1>1 DEF BatchHolds, Reserved, WorkerPcs
<1> QED BY <1>1, <1>2, BatchMove

\* No call moves.
LEMMA BatchStay ==
  ASSUME TypeInv, ExclusiveInv, Steady, call' = call, inflight' = inflight
  PROVE  ExclusiveInv'
<1>s. Starters \subseteq Threads BY DEF Threads
<1>1. ASSUME NEW t \in Starters PROVE BatchHolds(call[t], row', inflight', unsaved')
  <2>1. BatchHolds(call[t], row, inflight, unsaved) BY DEF ExclusiveInv
  <2>2. \A r \in Claimed(call[t]) : r \in Reqs /\ row[r] # NoRow BY <1>s, ClaimedRows
  <2> QED BY <2>1, <2>2 DEF BatchHolds, Steady, Claimed
<1>2. ASSUME NEW t \in Starters, NEW u \in Starters, t # u
      PROVE  Claimed(call[t]) \cap Taken(call[u]) \subseteq unsaved'
  <2>1. \A r \in Claimed(call[t]) : r \in Reqs /\ row[r] # NoRow BY <1>s, ClaimedRows
  <2> QED BY <1>2, <2>1 DEF ExclusiveInv, Steady
<1> QED BY <1>1, <1>2 DEF ExclusiveInv, Reserving

\* A step that leaves rows alone and forgets no doubt.
LEMMA SteadySame ==
  ASSUME row' = row, \A r \in Reqs : row[r] # NoRow /\ r \in unsaved => r \in unsaved'
  PROVE  Steady
BY DEF Steady

\* One row is settled.
LEMMA SteadyOne ==
  ASSUME TypeInv, NEW r \in Reqs, NEW d \in Row, d.status # "pending",
         row' = [row EXCEPT ![r] = d], unsaved \subseteq unsaved'
  PROVE  Steady /\ ~Waits(row', r)
<1>1. row'[r] = d /\ \A q \in Reqs \ {r} : row'[q] = row[q] BY DEF TypeInv, TypeOK
<1> QED BY <1>1, NothingAssumption DEF Steady, Waits

\* Settling a request writes a row that no longer waits.
LEMMA SteadySettle ==
  ASSUME TypeInv, NEW r \in Reqs, row[r] \in Row, NEW reply, Settle(r, reply), unsaved \subseteq unsaved'
  PROVE  Steady /\ ~Waits(row', r)
<1>1. PICK d : d = [row[r] EXCEPT !.status = Outcome(reply), !.approval = "approved"] OBVIOUS
<1>2. Outcome(reply) \in {"completed", "failed"} BY DEF Outcome
<1>3. d \in Row /\ d.status # "pending" BY <1>1, <1>2 DEF Row
<1>4. row' = [row EXCEPT ![r] = d] BY <1>1 DEF Settle
<1> QED BY <1>3, <1>4, SteadyOne

-----------------------------------------------------------------------------

\* What users start, save, reject or dismiss.
LEMMA BatchUser ==
  ASSUME OneSender, TypeInv, ExclusiveInv, UserStep
  PROVE  ExclusiveInv'
<1> USE DEF settings, store, history
<1>t. TypeOK BY DEF TypeInv
<1>1. ASSUME NEW p \in Profiles, SaveMode(p[1], p[2]) PROVE ExclusiveInv'
  BY <1>1, BatchStay, SteadySame DEF SaveMode
<1>2. ASSUME NEW x \in Moves, Recategorise(x) PROVE ExclusiveInv'
  BY <1>2, BatchStay, SteadySame DEF Recategorise
<1>3. ASSUME NEW t \in Approvers, NEW r \in Reqs, Reject(t, r) PROVE ExclusiveInv'
  <2>1. PICK d : d = [row[r] EXCEPT !.status = "rejected", !.approval = "rejected"] OBVIOUS
  <2>2. row[r] \in Row BY <1>t, <1>3 DEF Reject, TypeOK
  <2>3. d \in Row /\ d.status = "rejected" BY <2>1, <2>2 DEF Row
  <2>4. row' = [row EXCEPT ![r] = d] /\ unsaved' = unsaved BY <1>3, <2>1 DEF Reject
  <2>5. Steady BY <2>3, <2>4, SteadyOne
  <2> QED BY <1>3, <2>5, BatchStay DEF Reject
<1>4. ASSUME NEW t \in Approvers, NEW r \in Reqs, DismissItem(t, r) PROVE ExclusiveInv'
  BY <1>4, BatchStay, SteadySame DEF DismissItem
<1>5. CASE Prepare
  <2>1. PICK new \in SUBSET Free \ {{}} : \E of \in Injection(new, Txns) :
          /\ row' = [r \in Reqs |-> IF r \in new
                                    THEN [status |-> "pending", approval |-> "pending",
                                          staged |-> mode, txn |-> of[r]]
                                    ELSE row[r]]
          /\ unsaved' = unsaved \ new
    BY <1>5 DEF Prepare
  <2>2. Steady BY <2>1 DEF Steady, Waits, Free
  <2> QED BY <1>5, <2>2, BatchStay DEF Prepare
<1>6. ASSUME NEW t \in Directs, NEW x \in Txns, Classify(t, x) PROVE ExclusiveInv'
  <2>1. PICK c : c = [Idle EXCEPT !.pc = "c_provider", !.txn = x, !.seen = mode] OBVIOUS
  <2>2. c.pc \notin Reserved \cup {"s_reserve"} BY <2>1 DEF Idle, Reserved, WorkerPcs
  <2>3. Becomes(t, c) /\ inflight' = inflight BY <1>6, <2>1 DEF Classify
  <2> QED BY <1>6, <2>2, <2>3, BatchNone, SteadySame DEF Classify, Threads
<1>7. ASSUME NEW t \in Directs, NEW approved \in BOOLEAN, Image(t, approved) PROVE ExclusiveInv'
  <2>1. PICK c : c = [Idle EXCEPT !.pc = "i_provider", !.seen = mode] OBVIOUS
  <2>2. c.pc \notin Reserved \cup {"s_reserve"} BY <2>1 DEF Idle, Reserved, WorkerPcs
  <2>3. Becomes(t, c) /\ inflight' = inflight BY <1>7, <2>1 DEF Image
  <2> QED BY <1>7, <2>2, <2>3, BatchNone, SteadySame DEF Image, Threads
<1>8. ASSUME NEW t \in Approvers, NEW r \in Reqs, Approve(t, r) PROVE ExclusiveInv'
  <2>1. PICK c : c = [Idle EXCEPT !.pc = "a_gate", !.req = r] OBVIOUS
  <2>2. c.pc \notin Reserved \cup {"s_reserve"} BY <2>1 DEF Idle, Reserved, WorkerPcs
  <2>3. Becomes(t, c) /\ inflight' = inflight BY <1>8, <2>1 DEF Approve
  <2> QED BY <1>8, <2>2, <2>3, BatchNone, SteadySame DEF Approve, Threads
<1>9. ASSUME NEW t \in Starters, NEW A \in SUBSET Staged, NEW R, Start(t, A, R) PROVE ExclusiveInv'
  <2>1. PICK c : c = [Idle EXCEPT !.pc = "s_reserve", !.drop = R,
                        !.queue = {r \in A : r \notin inflight /\ Pending(r)}]
    OBVIOUS
  <2>2. c.pc = "s_reserve" /\ c.queue = {r \in A : r \notin inflight /\ Pending(r)}
    BY <2>1 DEF Idle
  <2>3. Becomes(t, c) /\ inflight' = inflight /\ row' = row /\ unsaved' = unsaved
    BY <1>9, <2>1 DEF Start
  <2>4. \A u \in Starters : ~Reserving(u) BY <1>9 DEF Start
  <2>5. Taken(c) = {} /\ Claimed(c) = c.queue BY <2>2 DEF Taken, Claimed, Reserved, WorkerPcs
  <2>6. BatchHolds(c, row', inflight', unsaved') BY <2>2, <2>5 DEF BatchHolds, Reserved, WorkerPcs
  <2>7. ASSUME NEW u \in Starters \ {t} PROVE Claimed(c) \cap Taken(call[u]) \subseteq unsaved'
    <3>1. BatchHolds(call[u], row, inflight, unsaved) BY DEF ExclusiveInv
    <3>2. SUFFICES ASSUME NEW r \in c.queue, r \in Taken(call[u]) PROVE r \in unsaved
      BY <2>3, <2>5
    <3>3. r \notin inflight /\ Waits(row, r) BY <2>2, <3>2 DEF Pending, Waits
    <3>4. call[u].pc \in Reserved BY <3>2 DEF Taken
    <3> QED BY <3>1, <3>2, <3>3, <3>4 DEF BatchHolds
  <2>8. Steady BY <2>3, SteadySame
  <2> QED BY <2>2, <2>3, <2>4, <2>5, <2>6, <2>7, <2>8, BatchMove DEF Threads
<1> QED BY <1>1, <1>2, <1>3, <1>4, <1>5, <1>6, <1>7, <1>8, <1>9 DEF UserStep

\* Every step of a direct call.
LEMMA BatchDirect ==
  ASSUME TypeInv, LockInv, ExclusiveInv, NEW t \in Directs, DirectStep(t)
  PROVE  ExclusiveInv'
<1> USE DEF settings, store, history
<1>t. TypeOK /\ t \in Threads /\ call[t] \in Call /\ Holds(call[t], row)
  BY DEF TypeInv, CallsHold, Threads
<1>i. Idle.pc \notin Reserved \cup {"s_reserve"} BY DEF Idle, Reserved, WorkerPcs
<1>1. CASE ClassifyProvider(t)
  BY <1>t, <1>1, <1>i, BatchNone, SteadySame DEF ClassifyProvider, Reserved, WorkerPcs, Call
<1>2. CASE ClassifyGate(t)
  BY <1>t, <1>2, <1>i, BatchNone, SteadySame DEF ClassifyGate, Reserved, WorkerPcs, Call
<1>3. CASE ImageProvider(t)
  BY <1>t, <1>3, <1>i, BatchNone, SteadySame DEF ImageProvider, Reserved, WorkerPcs, Call
<1>4. CASE ClassifyStage(t)
  <2>1. PICK r \in Free :
          /\ row' = [row EXCEPT ![r] = [status |-> "pending", approval |-> "pending",
                                        staged |-> call[t].seen, txn |-> call[t].txn]]
          /\ unsaved' = unsaved \ {r}
    BY <1>4 DEF ClassifyStage
  <2>2. Steady BY <1>t, <2>1 DEF Steady, Waits, Free, TypeOK
  <2> QED BY <1>t, <1>4, <1>i, <2>2, BatchNone DEF ClassifyStage
<1>5. CASE DirectFlush(t)
  <2>1. PICK r \in Free : /\ Becomes(t, [call[t] EXCEPT !.pc = "d_send", !.req = r])
                         /\ unsaved' = unsaved \ {r}
    BY <1>5 DEF DirectFlush
  <2>2. row' = row /\ inflight' = inflight BY <1>5 DEF DirectFlush
  <2>3. Steady BY <2>1, <2>2, SteadySame DEF Free
  <2> QED BY <1>t, <2>1, <2>2, <2>3, BatchNone DEF Reserved, WorkerPcs, Call
<1>6. CASE DirectTimeout(t) BY <1>t, <1>6, <1>i, BatchNone, SteadySame DEF DirectTimeout
<1>7. ASSUME NEW reply \in Replies, DirectSend(t, reply) PROVE ExclusiveInv'
  BY <1>t, <1>7, BatchNone, SteadySame DEF DirectSend, Reserved, WorkerPcs, Call
<1>8. CASE DirectCommit(t)
  <2> DEFINE d == [status |-> Outcome(call[t].reply),
                   approval |-> IF call[t].txn # NoTxn /\ call[t].seen \in CLOUD_MODES
                                THEN "approved" ELSE "not_required",
                   staged |-> call[t].seen, txn |-> call[t].txn]
  <2>1. call[t].req \in Reqs /\ call[t].seen \in PRIVACY_MODES
    BY <1>t, <1>8 DEF DirectCommit, Holds, DirectPcs
  <2>2. d \in Row /\ d.status # "pending" BY <1>t, <2>1 DEF Row, Call, Outcome
  <2>3. row' = [row EXCEPT ![call[t].req] = d] /\ unsaved' = unsaved BY <1>8 DEF DirectCommit
  <2> HIDE DEF d
  <2>4. Steady BY <2>1, <2>2, <2>3, SteadyOne
  <2> QED BY <1>t, <1>8, <1>i, <2>4, BatchNone DEF DirectCommit
<1> QED BY <1>1, <1>2, <1>3, <1>4, <1>5, <1>6, <1>7, <1>8 DEF DirectStep

\* Every step of an approval.
LEMMA BatchApprove == ASSUME TypeInv, ExclusiveInv, NEW t \in Approvers, ApproveStep(t) PROVE ExclusiveInv'
<1> USE DEF settings, store, history
<1>t. TypeOK /\ t \in Threads /\ call[t] \in Call BY DEF TypeInv, CallsHold, Threads
<1>i. Idle.pc \notin Reserved \cup {"s_reserve"} BY DEF Idle, Reserved, WorkerPcs
<1>1. CASE ApproveGate(t)
  BY <1>t, <1>1, <1>i, BatchNone, SteadySame DEF ApproveGate, Reserved, WorkerPcs, Call
<1>2. CASE ApproveProvider(t)
  BY <1>t, <1>2, <1>i, BatchNone, SteadySame DEF ApproveProvider, Reserved, WorkerPcs, Call
<1>3. ASSUME NEW reply \in Replies, ApproveSend(t, reply) PROVE ExclusiveInv'
  BY <1>t, <1>3, BatchNone, SteadySame DEF ApproveSend, Reserved, WorkerPcs, Call
<1>4. CASE ApproveCommit(t)
  <2>1. call[t].req \in Reqs /\ row[call[t].req] \in Row
    BY <1>t, <1>4, RefersToRows DEF ApproveCommit, Working, ApprovePcs, TypeOK
  <2>2. Steady BY <1>4, <2>1, SteadySettle DEF ApproveCommit
  <2> QED BY <1>t, <1>4, <1>i, <2>2, BatchNone DEF ApproveCommit
<1>5. CASE ApproveTimeout(t) BY <1>t, <1>5, <1>i, BatchNone, SteadySame DEF ApproveTimeout
<1> QED BY <1>1, <1>2, <1>3, <1>4, <1>5 DEF ApproveStep

-----------------------------------------------------------------------------

\* A batch goes on with the queue it has.
LEMMA BatchOn ==
  ASSUME TypeInv, ExclusiveInv, Steady, NEW t \in Starters, call[t].pc \in Reserved,
         NEW c, Becomes(t, c), c.pc \in Reserved, c.queue = call[t].queue, c.batch = call[t].batch,
         c.pc \in {"w_gate", "w_send", "w_commit"} => c.req \in c.queue, inflight' = inflight
  PROVE  ExclusiveInv'
<1>1. t \in Threads BY DEF Threads
<1>2. Claimed(c) = call[t].queue /\ Taken(c) = call[t].batch BY DEF Claimed, Taken
<1>3. Claimed(call[t]) = call[t].queue /\ Taken(call[t]) = call[t].batch BY DEF Claimed, Taken
<1>4. BatchHolds(call[t], row, inflight, unsaved) BY DEF ExclusiveInv
<1>5. \A r \in call[t].batch : r \in Reqs /\ row[r] # NoRow BY <1>3, <1>4 DEF BatchHolds
<1>6. c.queue \subseteq c.batch /\ c.queue \subseteq inflight' \cup unsaved'
  BY <1>4, <1>5 DEF BatchHolds, Steady
<1>7. \A r \in Taken(c) : /\ r \in Reqs /\ row'[r] # NoRow
                          /\ r \in c.queue \/ ~Waits(row', r) \/ r \in unsaved'
  BY <1>2, <1>3, <1>4 DEF BatchHolds, Steady
<1>8. BatchHolds(c, row', inflight', unsaved') BY <1>6, <1>7 DEF BatchHolds
<1>9. ASSUME NEW u \in Starters \ {t}
      PROVE  /\ Claimed(c) \cap Taken(call[u]) \subseteq unsaved'
             /\ Claimed(call[u]) \cap Taken(c) \subseteq unsaved'
  <2>1. /\ Claimed(call[t]) \cap Taken(call[u]) \subseteq unsaved
        /\ Claimed(call[u]) \cap Taken(call[t]) \subseteq unsaved
    BY <1>9 DEF ExclusiveInv
  <2>2. call[t].queue \subseteq call[t].batch BY <1>4 DEF BatchHolds
  <2> QED BY <1>2, <1>3, <1>5, <2>1, <2>2 DEF Steady
<1>10. c.pc # "s_reserve" BY DEF Reserved, WorkerPcs
<1> QED BY <1>1, <1>8, <1>9, <1>10, BatchMove

\* A worker is done with an item: it no longer waits, or its outcome is in doubt.
LEMMA BatchOff ==
  ASSUME TypeInv, ExclusiveInv, Steady, NEW t \in Starters,
         call[t].pc \in {"w_gate", "w_send", "w_commit"}, Becomes(t, NextItem(t)),
         inflight' = inflight \ {call[t].req},
         ~Waits(row', call[t].req) \/ call[t].req \in unsaved'
  PROVE  ExclusiveInv'
<1>1. t \in Threads /\ call[t] \in Call BY DEF Threads, TypeInv, TypeOK
<1> DEFINE c == NextItem(t)
           q == call[t].req
<1>2. c.pc = "w_next" /\ c.queue = call[t].queue \ {q} /\ c.batch = call[t].batch
  BY <1>1 DEF NextItem, Call
<1> HIDE DEF c
<1>r. call[t].pc \in Reserved /\ c.pc \in Reserved /\ c.pc # "s_reserve"
  BY <1>2 DEF Reserved, WorkerPcs
<1>3. /\ Claimed(c) = call[t].queue \ {q} /\ Taken(c) = call[t].batch
      /\ Claimed(call[t]) = call[t].queue /\ Taken(call[t]) = call[t].batch
  BY <1>2, <1>r DEF Claimed, Taken
<1>4. BatchHolds(call[t], row, inflight, unsaved) BY DEF ExclusiveInv
<1>5. q \in call[t].queue /\ call[t].queue \subseteq call[t].batch BY <1>4, <1>r DEF BatchHolds
<1>6. \A r \in call[t].batch : r \in Reqs /\ row[r] # NoRow BY <1>3, <1>4 DEF BatchHolds
<1>7. c.queue \subseteq c.batch /\ c.queue \subseteq inflight' \cup unsaved'
  BY <1>2, <1>4, <1>5, <1>6, <1>r DEF BatchHolds, Steady
<1>8. \A r \in Taken(c) : /\ r \in Reqs /\ row'[r] # NoRow
                          /\ r \in c.queue \/ ~Waits(row', r) \/ r \in unsaved'
  BY <1>2, <1>3, <1>4 DEF BatchHolds, Steady
<1>9. BatchHolds(c, row', inflight', unsaved') BY <1>2, <1>7, <1>8 DEF BatchHolds
<1>10. ASSUME NEW u \in Starters \ {t}
       PROVE  /\ Claimed(c) \cap Taken(call[u]) \subseteq unsaved'
              /\ Claimed(call[u]) \cap Taken(c) \subseteq unsaved'
              /\ q \in Claimed(call[u]) => q \in unsaved'
  <2>1. /\ Claimed(call[t]) \cap Taken(call[u]) \subseteq unsaved
        /\ Claimed(call[u]) \cap Taken(call[t]) \subseteq unsaved
    BY <1>10 DEF ExclusiveInv
  <2> QED BY <1>3, <1>5, <1>6, <2>1 DEF Steady
<1>11. \A u \in Starters \ {t} : \A r \in Claimed(call[u]) :
         (r \in inflight => r \in inflight') \/ r \in unsaved'
  BY <1>10
<1> QED BY <1>1, <1>9, <1>10, <1>11, <1>r, BatchMove DEF c

\* Every step of a batch.
LEMMA BatchBatch == ASSUME TypeInv, ExclusiveInv, NEW t \in Starters, BatchStep(t) PROVE ExclusiveInv'
<1> USE DEF settings, store, history
<1>t. TypeOK /\ t \in Threads /\ call[t] \in Call /\ Holds(call[t], row)
  BY DEF TypeInv, CallsHold, Threads
<1>h. BatchHolds(call[t], row, inflight, unsaved) BY DEF ExclusiveInv
<1>i. Idle.pc \notin Reserved \cup {"s_reserve"} BY DEF Idle, Reserved, WorkerPcs
<1>1. CASE StartReserve(t)
  <2> DEFINE c == [call[t] EXCEPT !.pc = "s_commit", !.batch = call[t].queue,
                     !.drop = {r \in call[t].drop : Pending(r)}]
  <2>1. c.pc = "s_commit" /\ c.queue = call[t].queue /\ c.batch = call[t].queue
    BY <1>t DEF Call
  <2>2. Becomes(t, c) /\ inflight' = inflight \cup call[t].queue /\ row' = row /\ unsaved' = unsaved
    BY <1>1 DEF StartReserve
  <2>3. call[t].pc = "s_reserve" BY <1>1 DEF StartReserve, Reserving
  <2> HIDE DEF c
  <2>4. Claimed(call[t]) = call[t].queue /\ Claimed(c) = call[t].queue /\ Taken(c) = call[t].queue
    BY <2>1, <2>3 DEF Claimed, Taken, Reserved
  <2>5. \A r \in call[t].queue : r \in Reqs /\ row[r] # NoRow BY <1>t, <2>4, ClaimedRows
  <2>6. BatchHolds(c, row', inflight', unsaved') BY <2>1, <2>2, <2>4, <2>5 DEF BatchHolds
  <2>7. ASSUME NEW u \in Starters \ {t}
        PROVE  /\ Claimed(c) \cap Taken(call[u]) \subseteq unsaved'
               /\ Claimed(call[u]) \cap Taken(c) \subseteq unsaved'
    <3>1. Claimed(call[t]) \cap Taken(call[u]) \subseteq unsaved BY <2>7 DEF ExclusiveInv
    <3>2. call[u].pc # "s_reserve" BY <2>3, <2>7 DEF ExclusiveInv, Reserving
    <3>3. BatchHolds(call[u], row, inflight, unsaved) BY DEF ExclusiveInv
    <3>4. Claimed(call[u]) \subseteq Taken(call[u]) BY <3>2, <3>3 DEF Claimed, Taken, BatchHolds
    <3> QED BY <2>2, <2>4, <3>1, <3>4
  <2>8. Steady BY <2>2, SteadySame
  <2> QED BY <1>t, <2>1, <2>2, <2>6, <2>7, <2>8, BatchMove
<1>2. CASE StartCommit(t)
  <2> DEFINE c == [call[t] EXCEPT !.pc = "w_next", !.drop = {}]
  <2>1. c.pc = "w_next" /\ c.queue = call[t].queue /\ c.batch = call[t].batch BY <1>t DEF Call
  <2>2. /\ call[t].pc = "s_commit" /\ Becomes(t, c) /\ inflight' = inflight /\ unsaved' = unsaved
        /\ row' = [r \in Reqs |-> IF r \in call[t].drop
                                  THEN [row[r] EXCEPT !.status = "rejected", !.approval = "rejected"]
                                  ELSE row[r]]
    BY <1>2 DEF StartCommit
  <2> HIDE DEF c
  <2>3. ASSUME NEW r \in Reqs, row[r] # NoRow
        PROVE  row'[r] # NoRow /\ (~Waits(row, r) => ~Waits(row', r))
    <3>1. CASE r \in call[t].drop
      <4>1. PICK d : d = [row[r] EXCEPT !.status = "rejected", !.approval = "rejected"] OBVIOUS
      <4>2. row[r] \in Row BY <1>t, <2>3 DEF TypeOK
      <4>3. d \in Row /\ d.status = "rejected" BY <4>1, <4>2 DEF Row
      <4>4. row'[r] = d BY <2>2, <3>1, <4>1
      <4> QED BY <4>3, <4>4, NothingAssumption DEF Waits
    <3>2. CASE r \notin call[t].drop BY <2>2, <2>3, <3>2 DEF Waits
    <3> QED BY <3>1, <3>2
  <2>4. Steady BY <2>2, <2>3 DEF Steady
  <2>5. call[t].pc \in Reserved /\ c.pc \in Reserved BY <2>1, <2>2 DEF Reserved, WorkerPcs
  <2> QED BY <2>1, <2>2, <2>4, <2>5, BatchOn
<1>3. CASE StartTimeout(t) BY <1>t, <1>3, <1>i, BatchNone, SteadySame DEF StartTimeout
<1>4. CASE WorkerTake(t)
  <2>1. PICK r \in call[t].queue :
          Becomes(t, [call[t] EXCEPT !.pc = "w_gate", !.req = r, !.target = get_provider])
    BY <1>4 DEF WorkerTake
  <2> DEFINE c == [call[t] EXCEPT !.pc = "w_gate", !.req = r, !.target = get_provider]
  <2>2. c.pc = "w_gate" /\ c.queue = call[t].queue /\ c.batch = call[t].batch /\ c.req = r
    BY <1>t DEF Call
  <2>3. /\ call[t].pc = "w_next" /\ Becomes(t, c) /\ inflight' = inflight
        /\ row' = row /\ unsaved' = unsaved
    BY <1>4, <2>1 DEF WorkerTake
  <2> HIDE DEF c
  <2>4. call[t].pc \in Reserved /\ c.pc \in Reserved BY <2>2, <2>3 DEF Reserved, WorkerPcs
  <2>5. Steady BY <2>3, SteadySame
  <2> QED BY <2>2, <2>3, <2>4, <2>5, BatchOn
<1>5. CASE WorkerSkip(t)
  <2>1. Steady BY <1>5, SteadySame DEF WorkerSkip
  <2>2. ~Waits(row', call[t].req) BY <1>5 DEF WorkerSkip, Pending, Waits
  <2> QED BY <1>5, <2>1, <2>2, BatchOff DEF WorkerSkip
<1>6. CASE WorkerGate(t)
  <2>1. PICK c : /\ Becomes(t, c)
                 /\ c = IF StagedBlocked(call[t].req)
                        THEN [call[t] EXCEPT !.pc = "w_commit", !.reply = "blocked"]
                        ELSE [call[t] EXCEPT !.pc = "w_send"]
    BY <1>6 DEF WorkerGate
  <2>2. /\ c.pc \in {"w_commit", "w_send"} /\ c.queue = call[t].queue
        /\ c.batch = call[t].batch /\ c.req = call[t].req
    BY <1>t, <2>1 DEF Call
  <2>3. call[t].pc = "w_gate" /\ inflight' = inflight /\ row' = row /\ unsaved' = unsaved
    BY <1>6 DEF WorkerGate
  <2>4. call[t].pc \in Reserved /\ c.pc \in Reserved BY <2>2, <2>3 DEF Reserved, WorkerPcs
  <2>5. Steady BY <2>3, SteadySame
  <2>6. c.req \in c.queue BY <1>h, <2>2, <2>3 DEF BatchHolds
  <2> QED BY <2>1, <2>2, <2>3, <2>4, <2>5, <2>6, BatchOn
<1>7. ASSUME NEW reply \in Replies, WorkerSend(t, reply) PROVE ExclusiveInv'
  <2> DEFINE c == [call[t] EXCEPT !.pc = "w_commit", !.reply = reply]
  <2>2. /\ c.pc = "w_commit" /\ c.queue = call[t].queue
        /\ c.batch = call[t].batch /\ c.req = call[t].req
    BY <1>t DEF Call
  <2>3. /\ call[t].pc = "w_send" /\ Becomes(t, c) /\ inflight' = inflight
        /\ row' = row /\ unsaved' = unsaved
    BY <1>7 DEF WorkerSend
  <2> HIDE DEF c
  <2>4. call[t].pc \in Reserved /\ c.pc \in Reserved BY <2>2, <2>3 DEF Reserved, WorkerPcs
  <2>5. Steady BY <2>3, SteadySame
  <2>6. c.req \in c.queue BY <1>h, <2>2, <2>3 DEF BatchHolds
  <2> QED BY <2>2, <2>3, <2>4, <2>5, <2>6, BatchOn
<1>8. CASE WorkerCommit(t)
  <2>1. call[t].req \in Reqs /\ row[call[t].req] \in Row
    BY <1>t, <1>8 DEF WorkerCommit, Holds, TypeOK
  <2>2. CASE call[t].reply = "blocked"
    <3>1. PICK d : d = [row[call[t].req] EXCEPT !.status = "failed"] OBVIOUS
    <3>2. d \in Row /\ d.status = "failed" BY <2>1, <3>1 DEF Row
    <3>3. row' = [row EXCEPT ![call[t].req] = d] /\ unsaved' = unsaved
      BY <1>8, <2>2, <3>1 DEF WorkerCommit
    <3>4. Steady /\ ~Waits(row', call[t].req) BY <2>1, <3>2, <3>3, SteadyOne
    <3> QED BY <1>8, <3>4, BatchOff DEF WorkerCommit
  <2>3. CASE call[t].reply # "blocked"
    <3>1. Steady /\ ~Waits(row', call[t].req)
      BY <1>8, <2>1, <2>3, SteadySettle DEF WorkerCommit
    <3> QED BY <1>8, <3>1, BatchOff DEF WorkerCommit
  <2> QED BY <2>2, <2>3
<1>9. CASE WorkerTimeout(t)
  <2>1. Steady BY <1>9, SteadySame DEF WorkerTimeout
  <2> QED BY <1>9, <2>1, BatchOff DEF WorkerTimeout
<1>10. CASE WorkerDone(t)
  <2>1. /\ call[t].pc = "w_next" /\ call[t].queue = {} /\ inflight' = inflight \ call[t].batch
        /\ Becomes(t, Idle) /\ row' = row /\ unsaved' = unsaved
    BY <1>10 DEF WorkerDone
  <2>2. Taken(call[t]) = call[t].batch BY <2>1 DEF Taken, Reserved, WorkerPcs
  <2>3. \A u \in Starters \ {t} : \A r \in Claimed(call[u]) :
          (r \in inflight => r \in inflight') \/ r \in unsaved'
    BY <2>1, <2>2 DEF ExclusiveInv
  <2>4. Claimed(Idle) = {} /\ Taken(Idle) = {} BY <1>i DEF Claimed, Taken
  <2>5. BatchHolds(Idle, row', inflight', unsaved') BY <1>i, <2>4 DEF BatchHolds, Reserved, WorkerPcs
  <2>6. Steady BY <2>1, SteadySame
  <2> QED BY <1>t, <1>i, <2>1, <2>3, <2>4, <2>5, <2>6, BatchMove
<1> QED BY <1>1, <1>2, <1>3, <1>4, <1>5, <1>6, <1>7, <1>8, <1>9, <1>10 DEF BatchStep

\* Every step of the system.
LEMMA ExclusiveStep == OneSender /\ TypeInv /\ LockInv /\ ExclusiveInv /\ [Next]_vars => ExclusiveInv'
<1> SUFFICES ASSUME OneSender, TypeInv, LockInv, ExclusiveInv, [Next]_vars PROVE ExclusiveInv' OBVIOUS
<1> USE DEF settings, store, history
<1>1. CASE SaveUrl \/ SaveUrlTimeout BY <1>1, BatchStay, SteadySame DEF SaveUrl, SaveUrlTimeout
<1>2. CASE Restart
  <2>1. \A u \in Starters : call'[u] = Idle BY <1>2 DEF Restart, Threads
  <2>2. Claimed(Idle) = {} /\ Taken(Idle) = {} /\ Idle.pc = "idle"
    BY DEF Claimed, Taken, Idle, Reserved, WorkerPcs
  <2>3. \A u \in Starters : BatchHolds(call'[u], row', inflight', unsaved')
    BY <2>1, <2>2 DEF BatchHolds, Reserved, WorkerPcs
  <2> QED BY <2>1, <2>2, <2>3 DEF ExclusiveInv, Reserving
<1>3. CASE UNCHANGED vars BY <1>3, BatchStay, SteadySame DEF vars
<1> QED BY <1>1, <1>2, <1>3, BatchUser, BatchDirect, BatchApprove, BatchBatch DEF Next

\* At the start no batch runs.
LEMMA BatchInit == Init => ExclusiveInv
<1> SUFFICES ASSUME Init PROVE ExclusiveInv OBVIOUS
<1>1. \A u \in Starters : call[u] = Idle BY DEF Init, Threads
<1>2. Claimed(Idle) = {} /\ Taken(Idle) = {} /\ Idle.pc = "idle"
  BY DEF Claimed, Taken, Idle, Reserved, WorkerPcs
<1> QED BY <1>1, <1>2 DEF ExclusiveInv, BatchHolds, Reserving, Reserved, WorkerPcs

\* While one panel sends, no request is queued on two background workers, except one
\* whose outcome an earlier worker failed to commit: for every number of batches, and
\* whatever restarts (_inflight_batch_ids, cloud_batch_start and run_cloud_batch).
THEOREM BatchTheorem == ASSUME OneSender PROVE Spec => []BatchExclusive
<1>1. ExclusiveInv => BatchExclusive
  <2> SUFFICES ASSUME ExclusiveInv, NEW t \in Starters, NEW u \in Starters, t # u
               PROVE  Queued(t) \cap Queued(u) \subseteq unsaved
    BY DEF BatchExclusive
  <2>1. Claimed(call[t]) \cap Taken(call[u]) \subseteq unsaved BY DEF ExclusiveInv
  <2>2. BatchHolds(call[u], row, inflight, unsaved) BY DEF ExclusiveInv
  <2> QED BY <2>1, <2>2 DEF Queued, Claimed, Taken, Reserved, BatchHolds
<1>2. TypeInv /\ LockInv /\ ExclusiveInv /\ [Next]_vars => ExclusiveInv' BY ExclusiveStep
<1> QED BY <1>1, <1>2, TypeCorrect, LockInit, LockStep, BatchInit, PTL DEF Spec

-----------------------------------------------------------------------------
(* Approvals in the review queue.                                          *)

\* What ApprovalItemKept says of one step.
ItemStep ==
  \A r \in openItem \ openItem' :
    \/ row' = row /\ call' = call
    \/ row'[r].status \in {"completed", "rejected"}

\* An item is closed by hand, by a rejection, or by the commit of an approved request
\* that was answered; every other step leaves the queue alone or adds to it.
LEMMA ItemNext == TypeInv /\ [Next]_vars => ItemStep
<1> SUFFICES ASSUME TypeInv, [Next]_vars PROVE ItemStep OBVIOUS
<1> USE DEF settings, store, history
<1>t. row \in [Reqs -> Row \cup {NoRow}] /\ openItem \subseteq Reqs BY DEF TypeInv, TypeOK
<1>q. openItem \subseteq openItem' => ItemStep BY DEF ItemStep
<1>1. CASE UserStep
  <2>1. ASSUME NEW t \in Approvers, NEW r \in Reqs, Reject(t, r) PROVE ItemStep
    <3>1. row'[r] = [row[r] EXCEPT !.status = "rejected", !.approval = "rejected"] BY <1>t, <2>1 DEF Reject
    <3>2. row[r] \in Row BY <1>t, <2>1 DEF Reject
    <3>3. row'[r].status = "rejected" BY <3>1, <3>2 DEF Row
    <3> QED BY <2>1, <3>3 DEF Reject, ItemStep
  <2>2. ASSUME NEW t \in Approvers, NEW r \in Reqs, DismissItem(t, r) PROVE ItemStep
    BY <2>2 DEF DismissItem, ItemStep
  <2> QED BY <1>1, <1>q, <2>1, <2>2 DEF UserStep, SaveMode, Recategorise, Prepare, Classify, Image, Approve, Start
<1>2. ASSUME NEW t \in Directs, DirectStep(t) PROVE ItemStep
  BY <1>2, <1>q DEF DirectStep, ClassifyProvider, ClassifyGate, ImageProvider, ClassifyStage, DirectFlush,
     DirectTimeout, DirectCommit, DirectSend
<1>3. ASSUME NEW t \in Approvers, ApproveStep(t) PROVE ItemStep
  <2>1. CASE ApproveCommit(t)
    <3>1. t \in Threads BY DEF Threads
    <3>2. call[t].req \in Reqs /\ row[call[t].req] \in Row
      BY <1>t, <2>1, <3>1 DEF TypeInv, CallsHold, Holds, ApproveCommit, ApprovePcs
    <3>3. CASE call[t].reply = "ok"
      <4>1. row'[call[t].req] = [row[call[t].req] EXCEPT !.status = "completed", !.approval = "approved"]
        BY <1>t, <2>1, <3>2, <3>3 DEF ApproveCommit, Settle, Outcome
      <4>2. row'[call[t].req].status = "completed" BY <3>2, <4>1 DEF Row
      <4> QED BY <2>1, <3>3, <4>2 DEF ApproveCommit, ItemStep
    <3> QED BY <1>q, <2>1, <3>3 DEF ApproveCommit
  <2> QED BY <1>3, <1>q, <2>1 DEF ApproveStep, ApproveGate, ApproveProvider, ApproveTimeout, ApproveSend
<1>4. ASSUME NEW t \in Starters, BatchStep(t) PROVE ItemStep
  BY <1>4, <1>q DEF BatchStep, StartReserve, StartCommit, StartTimeout, WorkerTake, WorkerSkip, WorkerGate,
     WorkerCommit, WorkerTimeout, WorkerDone, WorkerSend
<1>5. CASE SaveUrl \/ SaveUrlTimeout \/ Restart \/ UNCHANGED vars
  BY <1>5, <1>q DEF SaveUrl, SaveUrlTimeout, Restart, vars
<1> QED BY <1>1, <1>2, <1>3, <1>4, <1>5 DEF Next

\* An approval leaves the review queue by the user's own hand, or in the very commit that
\* completes or rejects its request, for any number of approvers, batches and restarts
\* (review_service.resolve_for, called after run_request has succeeded).
THEOREM ApprovalTheorem == Spec => ApprovalItemKept
<1>1. TypeInv /\ [Next]_vars => [ItemStep]_vars BY ItemNext
<1>2. [ItemStep]_vars => [\A r \in openItem \ openItem' :
                             \/ row' = row /\ call' = call
                             \/ row'[r].status \in {"completed", "rejected"}]_vars
  BY DEF ItemStep
<1> QED BY <1>1, <1>2, TypeCorrect, PTL DEF Spec, ApprovalItemKept

-----------------------------------------------------------------------------
(* ConsentKept: AIGateway implements Consent.                               *)

\* With AI off there is no provider and every gate is closed.
LEMMA OffMeansNone ==
  ASSUME mode \in OFF_MODES
  PROVE  get_provider = "none" /\ \A r \in Reqs : StagedBlocked(r)
BY DEF get_provider, StagedBlocked, OFF_MODES, CLOUD_MODES

\* A relation between threads and requests, given by what it says of each thread.
Pairs(F) == {p \in Threads \X Reqs : p[2] \in F[p[1]]}

\* One thread's part of such a relation changes.
LEMMA PairsMove ==
  ASSUME NEW F, NEW G, NEW t \in Threads, \A u \in Threads \ {t} : G[u] = F[u]
  PROVE  /\ G[t] = F[t] => Pairs(G) = Pairs(F)
         /\ G[t] \subseteq F[t] => Pairs(G) \subseteq Pairs(F)
         /\ \A r \in Reqs : G[t] = F[t] \ {r} => Pairs(G) = Pairs(F) \ {<<t, r>>}
         /\ \A S \in SUBSET Reqs : G[t] = F[t] \cup S => Pairs(G) = Pairs(F) \cup ({t} \X S)
<1>1. ASSUME NEW p \in Threads \X Reqs, p[1] # t PROVE p \in Pairs(G) <=> p \in Pairs(F)
  BY <1>1 DEF Pairs
<1>2. ASSUME NEW p \in Threads \X Reqs, p[1] = t
      PROVE  (p \in Pairs(G) <=> p[2] \in G[t]) /\ (p \in Pairs(F) <=> p[2] \in F[t]) /\ p = <<t, p[2]>>
  BY <1>2 DEF Pairs
<1>3. Pairs(G) \subseteq Threads \X Reqs /\ Pairs(F) \subseteq Threads \X Reqs BY DEF Pairs
<1>4. G[t] = F[t] => Pairs(G) = Pairs(F) BY <1>1, <1>2, <1>3
<1>5. G[t] \subseteq F[t] => Pairs(G) \subseteq Pairs(F) BY <1>1, <1>2, <1>3
<1>6. ASSUME NEW r \in Reqs, G[t] = F[t] \ {r} PROVE Pairs(G) = Pairs(F) \ {<<t, r>>}
  <2>1. ASSUME NEW p \in Threads \X Reqs PROVE p \in Pairs(G) <=> p \in Pairs(F) \ {<<t, r>>}
    BY <1>1, <1>2, <1>6
  <2> QED BY <2>1, <1>3
<1>7. ASSUME NEW S \in SUBSET Reqs, G[t] = F[t] \cup S PROVE Pairs(G) = Pairs(F) \cup ({t} \X S)
  <2>1. ASSUME NEW p \in Threads \X Reqs PROVE p \in Pairs(G) <=> p \in Pairs(F) \cup ({t} \X S)
    BY <1>1, <1>2, <1>7
  <2>2. {t} \X S \subseteq Threads \X Reqs OBVIOUS
  <2> QED BY <2>1, <2>2, <1>3
<1> QED BY <1>4, <1>5, <1>6, <1>7

\* One thread's call becomes c: what that is to the mapping.
LEMMA MappedMove ==
  ASSUME TypeInv, NEW t \in Threads, NEW c, Becomes(t, c)
  PROVE  /\ Cleared' = IF c.pc \in ClearedPcs THEN Cleared \cup {t} ELSE Cleared \ {t}
         /\ ToSend(c) = ToSend(call[t]) => Told' = Told
         /\ ToSend(c) \subseteq ToSend(call[t]) => Told' \subseteq Told
         /\ \A r \in Reqs : ToSend(c) = ToSend(call[t]) \ {r} => Told' = Told \ {<<t, r>>}
         /\ \A S \in SUBSET Reqs : ToSend(c) = ToSend(call[t]) \cup S => Told' = Told \cup ({t} \X S)
         /\ Owes(c) = Owes(call[t]) => Owed' = Owed
         /\ Owes(c) \subseteq Owes(call[t]) => Owed' \subseteq Owed
         /\ \A r \in Reqs : Owes(c) = Owes(call[t]) \ {r} => Owed' = Owed \ {<<t, r>>}
         /\ \A S \in SUBSET Reqs : Owes(c) = Owes(call[t]) \cup S => Owed' = Owed \cup ({t} \X S)
<1>1. \A u \in Threads : call'[u] = IF u = t THEN c ELSE call[u] BY DEF Becomes, TypeInv, TypeOK
<1>2. Cleared' = IF c.pc \in ClearedPcs THEN Cleared \cup {t} ELSE Cleared \ {t} BY <1>1 DEF Cleared
<1> DEFINE F == [u \in Threads |-> ToSend(call[u])]
           G == [u \in Threads |-> IF u = t THEN ToSend(c) ELSE ToSend(call[u])]
           H == [u \in Threads |-> Owes(call[u])]
           I == [u \in Threads |-> IF u = t THEN Owes(c) ELSE Owes(call[u])]
<1>3. Told = Pairs(F) /\ Owed = Pairs(H) BY DEF Told, Owed, Pairs
<1>4. Told' = Pairs(G)
  <2>1. ASSUME NEW u \in Threads PROVE ToSend(call'[u]) = G[u] BY <1>1
  <2> QED BY <2>1 DEF Told, Pairs, ToSend, Owes
<1>5. Owed' = Pairs(I)
  <2>1. ASSUME NEW u \in Threads PROVE Owes(call'[u]) = I[u] BY <1>1
  <2> QED BY <2>1 DEF Owed, Pairs, Owes
<1>6. /\ \A u \in Threads \ {t} : G[u] = F[u] /\ I[u] = H[u]
      /\ F[t] = ToSend(call[t]) /\ G[t] = ToSend(c) /\ H[t] = Owes(call[t]) /\ I[t] = Owes(c)
  OBVIOUS
<1> HIDE DEF F, G, H, I
<1>7. /\ G[t] = F[t] => Pairs(G) = Pairs(F)
      /\ G[t] \subseteq F[t] => Pairs(G) \subseteq Pairs(F)
      /\ \A r \in Reqs : G[t] = F[t] \ {r} => Pairs(G) = Pairs(F) \ {<<t, r>>}
      /\ \A S \in SUBSET Reqs : G[t] = F[t] \cup S => Pairs(G) = Pairs(F) \cup ({t} \X S)
  BY <1>6, PairsMove
<1>8. /\ I[t] = H[t] => Pairs(I) = Pairs(H)
      /\ I[t] \subseteq H[t] => Pairs(I) \subseteq Pairs(H)
      /\ \A r \in Reqs : I[t] = H[t] \ {r} => Pairs(I) = Pairs(H) \ {<<t, r>>}
      /\ \A S \in SUBSET Reqs : I[t] = H[t] \cup S => Pairs(I) = Pairs(H) \cup ({t} \X S)
  BY <1>6, PairsMove
<1> QED BY <1>2, <1>3, <1>4, <1>5, <1>6, <1>7, <1>8

\* No call moves.
LEMMA MappedStay == call' = call => Cleared' = Cleared /\ Told' = Told /\ Owed' = Owed
BY DEF Cleared, Told, Owed, ToSend, Owes

\* Neither the rows nor the setting that counts change.
LEMMA MappedRows ==
  /\ row' = row => Open' = Open /\ Closed' = Closed
  /\ sent' = sent => Gone' = Gone
  /\ mode' = mode => (mode \notin OFF_MODES)' = (mode \notin OFF_MODES)
BY DEF Open, Closed, Pending, Gone

\* The pairs of one thread.
LEMMA PairsOf ==
  ASSUME TypeInv, NEW t \in Threads
  PROVE  /\ Owes(call[t]) \subseteq Reqs
         /\ \A r \in Reqs : <<t, r>> \in Told <=> r \in ToSend(call[t])
         /\ \A r \in Reqs : <<t, r>> \in Owed <=> r \in Owes(call[t])
         /\ Owes(call[t]) = {} => Owed \cap ({t} \X Reqs) = {}
         /\ ToSend(call[t]) = {} => Told \cap ({t} \X Reqs) = {}
<1>1. Owes(call[t]) \subseteq Reqs
  BY DEF TypeInv, CallsHold, Holds, Owes, CommitPcs, ApprovePcs
<1> QED BY <1>1 DEF Told, Owed

\* A thread turns back, or goes on with nothing that counts.
LEMMA StepGiveUp ==
  ASSUME TypeInv, NEW t \in Threads, NEW c, Becomes(t, c), UNCHANGED <<row, sent, mode>>,
         c.pc \in ClearedPcs => call[t].pc \in ClearedPcs,
         ToSend(c) \subseteq ToSend(call[t]),
         \/ Owes(c) = Owes(call[t]) /\ unsaved' = unsaved
         \/ Owes(c) = {} /\ unsaved' = unsaved \cup Owes(call[t])
  PROVE  Promise!GiveUp
<1>1. Cleared' \subseteq Cleared /\ Told' \subseteq Told BY MappedMove DEF Cleared
<1>2. CASE Owes(c) = Owes(call[t]) /\ unsaved' = unsaved
  <2>1. Owed' = Owed BY <1>2, MappedMove
  <2> QED BY <1>1, <1>2, <2>1, MappedRows DEF Promise!GiveUp
<1>3. CASE Owes(c) = {} /\ Owes(call[t]) # {} /\ unsaved' = unsaved \cup Owes(call[t])
  <2>1. PICK r \in Reqs : Owes(call[t]) = {r} BY <1>3, PairsOf DEF Owes
  <2>2. Owed' = Owed \ {<<t, r>>} BY <1>3, <2>1, MappedMove
  <2>3. <<t, r>> \in Owed BY <2>1, PairsOf
  <2>4. {p[2] : p \in Owed \ Owed'} = {r} BY <2>2, <2>3
  <2> QED BY <1>1, <1>3, <2>1, <2>2, <2>4, MappedRows DEF Promise!GiveUp
<1> QED BY <1>2, <1>3

\* A step that is nothing to Consent.
LEMMA StepIdle ==
  ASSUME UNCHANGED <<row, sent, mode, call, unsaved>> PROVE Promise!GiveUp
<1>1. {p[2] : p \in Owed \ Owed} = {} OBVIOUS
<1> QED BY <1>1, MappedStay, MappedRows DEF Promise!GiveUp

\* A thread passes its gate.
LEMMA StepClear ==
  ASSUME TypeInv, NEW t \in Threads, NEW c, Becomes(t, c), UNCHANGED <<row, sent, mode, unsaved>>,
         mode \notin OFF_MODES, c.pc \in ClearedPcs, ToSend(c) = ToSend(call[t]),
         Owes(c) = {}, Owes(call[t]) = {}
  PROVE  Promise!Clear(t)
BY MappedMove, MappedRows, PairsOf DEF Promise!Clear

\* An idle thread is given requests that are open.
LEMMA StepTell ==
  ASSUME TypeInv, NEW t \in Threads, NEW c, NEW S \in SUBSET Open, Becomes(t, c),
         UNCHANGED <<row, sent, mode, unsaved>>,
         call[t].pc = "idle", c.pc \notin ClearedPcs, ToSend(c) = S, Owes(c) = {}
  PROVE  Promise!Tell(t, S)
<1>1. ToSend(call[t]) = {} /\ Owes(call[t]) = {} /\ t \notin Cleared
  BY DEF ToSend, Owes, SinglePcs, QueuePcs, StartPcs, WorkerPcs, CommitPcs, Cleared, ClearedPcs
<1>2. S \in SUBSET Reqs BY DEF Open
<1>3. Cleared' = Cleared \ {t} /\ Owed' = Owed BY <1>1, MappedMove
<1>6. Cleared' = Cleared BY <1>1, <1>3
<1>4. ToSend(c) = ToSend(call[t]) \cup S BY <1>1
<1>5. Told' = Told \cup ({t} \X S) BY <1>2, <1>4, MappedMove
<1> QED BY <1>1, <1>3, <1>5, <1>6, MappedRows, PairsOf DEF Promise!Tell, Promise!Busy

\* A thread has sent a request, or decided not to.
LEMMA StepTurn ==
  ASSUME TypeInv, NEW t \in Threads, NEW c, NEW r \in Reqs, Becomes(t, c),
         UNCHANGED <<row, mode, unsaved>>,
         r \in ToSend(call[t]), ToSend(c) = ToSend(call[t]) \ {r},
         c.pc \notin ClearedPcs, Owes(call[t]) = {}, Owes(c) = {r}
  PROVE  Promise!Turn(t, r)
<1>1. Cleared' = Cleared \ {t} /\ Told' = Told \ {<<t, r>>} BY MappedMove
<1>2. {r} \in SUBSET Reqs /\ Owes(c) = Owes(call[t]) \cup {r} OBVIOUS
<1>3. Owed' = Owed \cup ({t} \X {r}) BY <1>2, MappedMove
<1>4. {t} \X {r} = {<<t, r>>} OBVIOUS
<1> QED BY <1>1, <1>3, <1>4, MappedRows, PairsOf DEF Promise!Turn

\* The provider is called, or refuses before any socket opens.
LEMMA StepDispatch ==
  ASSUME TypeInv, NEW t \in Threads, NEW r \in Reqs, NEW target, NEW reply, Dispatch(r, target, reply),
         call[t].pc \in ClearedPcs, Promise!Turn(t, r)
  PROVE  Promise!Send(t, r) \/ Promise!Decline(t, r)
<1>1. sent \in [Reqs -> 0..2] BY DEF TypeInv, TypeOK
<1>2. t \in Cleared BY DEF Cleared
<1>3. CASE Reached(target)
  <2>1. \A q \in Reqs : sent'[q] > 0 <=> (sent[q] > 0 \/ q = r) BY <1>1, <1>3 DEF Dispatch
  <2>2. Gone' = Gone \cup {r} BY <2>1 DEF Gone
  <2> QED BY <1>2, <2>2 DEF Promise!Send
<1>4. CASE ~Reached(target)
  <2>1. sent' = sent BY <1>1, <1>4 DEF Dispatch
  <2> QED BY <2>1, MappedRows DEF Promise!Decline
<1> QED BY <1>3, <1>4

\* The outcome of one request is written.
LEMMA StepRecord ==
  ASSUME TypeInv, NEW t \in Threads, NEW c, NEW r \in Reqs, NEW d \in Row, Becomes(t, c),
         UNCHANGED <<mode, sent, unsaved>>,
         row' = [row EXCEPT ![r] = d], d.status # "pending",
         call[t].pc \in CommitPcs, r = call[t].req, ToSend(c) = ToSend(call[t]),
         c.pc \notin ClearedPcs, Owes(c) = {}
  PROVE  Promise!Record(t, r)
<1>1. Owes(call[t]) = {r} BY DEF Owes
<1>2. <<t, r>> \in Owed BY <1>1, PairsOf
<1>3. call[t].pc \notin ClearedPcs BY DEF CommitPcs, ClearedPcs
<1>4. Cleared' = Cleared /\ Told' = Told /\ Owed' = Owed \ {<<t, r>>} BY <1>1, <1>3, MappedMove DEF Cleared
<1>5. Open' = Open \ {r} /\ Closed' = Closed \cup {r}
  <2>1. row \in [Reqs -> Row \cup {NoRow}] BY DEF TypeInv, TypeOK
  <2> QED BY <2>1, NothingAssumption DEF Open, Closed, Pending
<1> QED BY <1>2, <1>4, <1>5, MappedRows DEF Promise!Record

\* A row is still free: nobody uses the id, and what was sent under it is known as lost.
LEMMA FreeUnused ==
  ASSUME TypeInv, LockInv, SentIsRecorded, Writable, NEW S \in SUBSET Free
  PROVE  Promise!Unused(S)
<1>1. \A r \in S : r \in Reqs /\ row[r] = NoRow BY DEF Free
<1>2. ASSUME NEW t \in Threads, NEW r \in S PROVE r \notin ToSend(call[t]) /\ r \notin Owes(call[t])
  <2>1. Holds(call[t], row) /\ call[t].pc \notin {"d_send", "d_commit"}
    BY NothingAssumption DEF TypeInv, CallsHold, LockInv, LockHeldAcrossSend, Writable
  <2> QED BY <1>1, <2>1 DEF Holds, ToSend, Owes, SinglePcs, CommitPcs, ApprovePcs
<1>3. (Told \cup Owed) \cap (Threads \X S) = {} BY <1>2 DEF Told, Owed
<1>4. ASSUME NEW r \in S, sent[r] > 0 PROVE r \in unsaved
  <2>1. r \in unsaved \cup InDoubt BY <1>1, <1>4 DEF SentIsRecorded
  <2>2. r \notin InDoubt BY <1>2 DEF InDoubt, Owes, CommitPcs
  <2> QED BY <2>1, <2>2
<1> QED BY <1>1, <1>3, <1>4 DEF Promise!Unused, Open, Closed, Pending, Gone

\* Requests are staged: new rows that wait.
LEMMA StepStage ==
  ASSUME TypeInv, LockInv, SentIsRecorded, Writable, NEW S \in SUBSET Free, UNCHANGED mode,
         \A r \in S : row'[r] # NoRow /\ row'[r].status = "pending",
         \A r \in Reqs \ S : row'[r] = row[r] /\ sent'[r] = sent[r],
         \A r \in S : sent'[r] = 0,
         unsaved' = unsaved \ S,
         Cleared' \subseteq Cleared, Told' = Told, Owed' = Owed
  PROVE  Promise!Stage(S)
<1>1. S \subseteq Reqs /\ \A r \in S : row[r] = NoRow BY DEF Free
<1>2. Open' = Open \cup S /\ Closed' = Closed BY <1>1 DEF Open, Closed, Pending
<1>3. Gone' = Gone \ S BY <1>1 DEF Gone
<1> QED BY <1>2, <1>3, FreeUnused, MappedRows DEF Promise!Stage

\* Settling a request replaces its row by one that does not wait.
LEMMA SettledRow ==
  ASSUME TypeOK, NEW r \in Reqs, row[r] \in Row, NEW reply, Settle(r, reply)
  PROVE  \E d \in Row : d.status # "pending" /\ row' = [row EXCEPT ![r] = d]
<1>1. PICK d : d = [row[r] EXCEPT !.status = Outcome(reply), !.approval = "approved"] OBVIOUS
<1>2. Outcome(reply) \in {"completed", "failed"} BY DEF Outcome
<1>3. d \in Row BY <1>1, <1>2, RowUpdate
<1>4. d.status = Outcome(reply) BY <1>1 DEF Row
<1>5. row' = [row EXCEPT ![r] = d] BY <1>1 DEF Settle, TypeOK
<1> QED BY <1>2, <1>3, <1>4, <1>5

\* Requests are rejected.
LEMMA StepReject ==
  ASSUME TypeInv, NEW S \in SUBSET Reqs, UNCHANGED <<mode, sent, unsaved>>,
         \A r \in S : row[r] # NoRow /\ row'[r] # NoRow /\ row'[r].status # "pending",
         \A r \in Reqs \ S : row'[r] = row[r],
         Cleared' = Cleared, Told' = Told, Owed' = Owed
  PROVE  Promise!Reject(S)
<1>1. S \subseteq Open \cup Closed BY DEF Open, Closed, Pending
<1>2. Open' = Open \ S /\ Closed' = Closed \cup S BY DEF Open, Closed, Pending
<1> QED BY <1>1, <1>2, MappedRows DEF Promise!Reject

-----------------------------------------------------------------------------

\* What users start or save is a step of Consent.
LEMMA ConsentUser ==
  ASSUME TypeInv, LockInv, SentIsRecorded, UserStep PROVE Promise!Next
<1> USE DEF settings, store, history
<1>t. TypeOK /\ CallsHold BY DEF TypeInv
<1>1. ASSUME NEW p \in Profiles, SaveMode(p[1], p[2]) PROVE Promise!GiveUp \/ Promise!Switch
  <2>1. CASE (mode' \notin OFF_MODES) <=> (mode \notin OFF_MODES)
    <3>1. {p2[2] : p2 \in Owed \ Owed} = {} OBVIOUS
    <3> QED BY <1>1, <2>1, <3>1, MappedStay, MappedRows DEF SaveMode, Promise!GiveUp
  <2>2. CASE ~((mode' \notin OFF_MODES) <=> (mode \notin OFF_MODES))
    BY <1>1, <2>2, MappedStay, MappedRows DEF SaveMode, Promise!Switch
  <2> QED BY <2>1, <2>2
<1>2. ASSUME NEW x \in Moves, Recategorise(x) PROVE Promise!GiveUp
  BY <1>2, StepIdle DEF Recategorise
<1>3. ASSUME NEW t \in Approvers, NEW r \in Reqs, Reject(t, r) PROVE Promise!Reject({r})
  <2>1. row[r] \in Row /\ row \in [Reqs -> Row \cup {NoRow}] BY <1>t, <1>3 DEF Reject, TypeOK
  <2>2. PICK d : d = [row[r] EXCEPT !.status = "rejected", !.approval = "rejected"] OBVIOUS
  <2>3. d \in Row BY <2>1, <2>2, RowUpdate
  <2>6. d.status = "rejected" BY <2>1, <2>2 DEF Row
  <2>4. row' = [row EXCEPT ![r] = d] BY <1>3, <2>1, <2>2 DEF Reject
  <2>5. row'[r] = d /\ \A q \in Reqs \ {r} : row'[q] = row[q] BY <2>1, <2>4
  <2> QED BY <1>3, <2>3, <2>5, <2>6, StepReject, MappedStay, NothingAssumption DEF Reject
<1>4. ASSUME NEW t \in Approvers, NEW r \in Reqs, DismissItem(t, r) PROVE Promise!GiveUp
  BY <1>4, StepIdle DEF DismissItem
<1>5. CASE Prepare
  <2>0. PICK new \in SUBSET Free : \E of \in Injection(new, Txns) :
          /\ row' = [r \in Reqs |-> IF r \in new
                                    THEN [status |-> "pending", approval |-> "pending",
                                          staged |-> mode, txn |-> of[r]]
                                    ELSE row[r]]
          /\ sent' = [r \in Reqs |-> IF r \in new THEN 0 ELSE sent[r]]
          /\ unsaved' = unsaved \ new
    BY <1>5 DEF Prepare
  <2>1. PICK of \in Injection(new, Txns) :
          /\ row' = [r \in Reqs |-> IF r \in new
                                    THEN [status |-> "pending", approval |-> "pending",
                                          staged |-> mode, txn |-> of[r]]
                                    ELSE row[r]]
          /\ sent' = [r \in Reqs |-> IF r \in new THEN 0 ELSE sent[r]]
          /\ unsaved' = unsaved \ new
    BY <2>0
  <2>2. new \subseteq Reqs BY DEF Free
  <2>3. \A r \in new : row'[r] \in Row /\ row'[r].status = "pending" /\ sent'[r] = 0
    BY <1>t, <2>1, <2>2 DEF Row, TypeOK, Injection
  <2>4. \A r \in Reqs \ new : row'[r] = row[r] /\ sent'[r] = sent[r] BY <2>1
  <2>5. Promise!Stage(new)
    BY <1>5, <2>1, <2>3, <2>4, StepStage, MappedStay, NothingAssumption DEF Prepare
  <2> QED BY <2>2, <2>5 DEF Promise!Next
<1>6. ASSUME NEW t \in Directs, NEW x \in Txns, Classify(t, x) PROVE Promise!GiveUp
  <2>1. PICK c : c = [Idle EXCEPT !.pc = "c_provider", !.txn = x, !.seen = mode] OBVIOUS
  <2>2. c.pc = "c_provider" BY <2>1 DEF Idle
  <2>3. ToSend(c) = {} /\ Owes(c) = {} /\ c.pc \notin ClearedPcs
    BY <2>2 DEF ToSend, Owes, SinglePcs, QueuePcs, StartPcs, WorkerPcs, CommitPcs, ClearedPcs
  <2>4. Owes(call[t]) = {} BY <1>6 DEF Classify, Owes, CommitPcs
  <2> QED BY <1>6, <2>1, <2>3, <2>4, StepGiveUp DEF Classify, Threads
<1>7. ASSUME NEW t \in Directs, NEW approved \in BOOLEAN, Image(t, approved) PROVE Promise!GiveUp
  <2>1. PICK c : c = [Idle EXCEPT !.pc = "i_provider", !.seen = mode] OBVIOUS
  <2>2. c.pc = "i_provider" BY <2>1 DEF Idle
  <2>3. ToSend(c) = {} /\ Owes(c) = {} /\ c.pc \notin ClearedPcs
    BY <2>2 DEF ToSend, Owes, SinglePcs, QueuePcs, StartPcs, WorkerPcs, CommitPcs, ClearedPcs
  <2>4. Owes(call[t]) = {} BY <1>7 DEF Image, Owes, CommitPcs
  <2> QED BY <1>7, <2>1, <2>3, <2>4, StepGiveUp DEF Image, Threads
<1>8. ASSUME NEW t \in Approvers, NEW r \in Reqs, Approve(t, r) PROVE Promise!Tell(t, {r})
  <2>1. PICK c : c = [Idle EXCEPT !.pc = "a_gate", !.req = r] OBVIOUS
  <2>2. c.pc = "a_gate" /\ c.req = r BY <2>1 DEF Idle
  <2>3. ToSend(c) = {r} /\ Owes(c) = {} /\ c.pc \notin ClearedPcs
    BY <2>2 DEF ToSend, Owes, SinglePcs, QueuePcs, StartPcs, WorkerPcs, CommitPcs, ClearedPcs
  <2>4. {r} \in SUBSET Open BY <1>8 DEF Approve, Open
  <2> QED BY <1>8, <2>1, <2>3, <2>4, StepTell DEF Approve, Threads
<1>9. ASSUME NEW t \in Starters, NEW approve \in SUBSET Staged,
             NEW reject \in SUBSET (Staged \ approve), Start(t, approve, reject)
      PROVE  \E S \in SUBSET Reqs : Promise!Tell(t, S)
  <2>1. PICK S : S = {r \in approve : r \notin inflight /\ Pending(r)} OBVIOUS
  <2>2. PICK c : c = [Idle EXCEPT !.pc = "s_reserve", !.drop = reject, !.queue = S] OBVIOUS
  <2>3. c.pc = "s_reserve" /\ c.queue = S BY <2>2 DEF Idle
  <2>4. ToSend(c) = S /\ Owes(c) = {} /\ c.pc \notin ClearedPcs
    BY <2>3 DEF ToSend, Owes, SinglePcs, QueuePcs, StartPcs, CommitPcs, ClearedPcs
  <2>5. S \in SUBSET Open /\ S \in SUBSET Reqs BY <2>1 DEF Staged, Open
  <2>6. Becomes(t, c) BY <1>9, <2>1, <2>2 DEF Start
  <2> QED BY <1>9, <2>4, <2>5, <2>6, StepTell DEF Start, Threads
<1> QED BY <1>1, <1>2, <1>3, <1>4, <1>5, <1>6, <1>7, <1>8, <1>9 DEF UserStep, Promise!Next, Threads

\* An idle call is nothing to Consent.
LEMMA IdleMapped == Idle.pc \notin ClearedPcs /\ ToSend(Idle) = {} /\ Owes(Idle) = {}
BY DEF Idle, ToSend, Owes, SinglePcs, QueuePcs, StartPcs, WorkerPcs, CommitPcs, ClearedPcs

\* A call turns back before it owes anything, or its outcome cannot be written.
LEMMA TurnsBack ==
  ASSUME TypeInv, NEW t \in Threads, Becomes(t, Idle), UNCHANGED <<row, sent, mode>>,
         unsaved' = unsaved \cup Owes(call[t])
  PROVE  Promise!GiveUp
BY IdleMapped, StepGiveUp

\* Every step of a direct call is a step of Consent.
LEMMA ConsentDirect ==
  ASSUME TypeInv, LockInv, SentIsRecorded, NEW t \in Directs, DirectStep(t) PROVE Promise!Next
<1> USE DEF settings, store, history
<1>0. TypeOK /\ CallsHold /\ call[t] \in Call /\ Holds(call[t], row) /\ t \in Threads
  BY DEF TypeInv, CallsHold, Threads
<1>f. call[t].pc \in DirectPcs \ {"d_commit"} => Owes(call[t]) = {} BY DEF Owes, CommitPcs, DirectPcs, ApprovePcs, WorkerPcs
<1>n. call[t].pc \in DirectPcs \ {"d_send"} => ToSend(call[t]) = {}
  BY DEF ToSend, SinglePcs, QueuePcs, StartPcs, WorkerPcs, DirectPcs
<1>1. CASE ClassifyProvider(t)
  <2>1. CASE get_provider = "none"
    <3>1. Owes(call[t]) = {} BY <1>1, <1>f DEF ClassifyProvider, DirectPcs
    <3>2. Promise!GiveUp BY <1>0, <1>1, <2>1, <3>1, TurnsBack DEF ClassifyProvider
    <3> QED BY <3>2 DEF Promise!Next
  <2>2. CASE get_provider # "none"
    <3>1. PICK c : c = [call[t] EXCEPT !.pc = "c_gate", !.target = get_provider] OBVIOUS
    <3>2. c.pc = "c_gate" BY <1>0, <3>1 DEF Call
    <3>3. ToSend(c) = {} /\ Owes(c) = {} /\ c.pc \in ClearedPcs
      BY <3>2 DEF ToSend, Owes, SinglePcs, QueuePcs, StartPcs, WorkerPcs, CommitPcs, ClearedPcs
    <3>4. mode \notin OFF_MODES BY <2>2, OffMeansNone
    <3>5. Becomes(t, c) BY <1>1, <2>2, <3>1 DEF ClassifyProvider
    <3>6. ToSend(call[t]) = {} /\ Owes(call[t]) = {} BY <1>1, <1>f, <1>n DEF ClassifyProvider, DirectPcs
    <3>7. Promise!Clear(t)
      BY <1>0, <1>1, <3>3, <3>4, <3>5, <3>6, StepClear DEF ClassifyProvider
    <3> QED BY <1>0, <3>7 DEF Promise!Next
  <2> QED BY <2>1, <2>2
<1>2. CASE ClassifyGate(t)
  <2>1. CASE CloudBlocked(call[t].txn, call[t].seen)
    <3>1. Owes(call[t]) = {} BY <1>2, <1>f DEF ClassifyGate, DirectPcs
    <3>2. Promise!GiveUp BY <1>0, <1>2, <2>1, <3>1, TurnsBack DEF ClassifyGate
    <3> QED BY <3>2 DEF Promise!Next
  <2>2. CASE ~CloudBlocked(call[t].txn, call[t].seen)
    <3>1. PICK c : c = [call[t] EXCEPT !.pc = "d_flush"] OBVIOUS
    <3>2. c.pc = "d_flush" BY <1>0, <3>1 DEF Call
    <3>3. ToSend(c) = {} /\ Owes(c) = {} /\ c.pc \in ClearedPcs
      BY <3>2 DEF ToSend, Owes, SinglePcs, QueuePcs, StartPcs, WorkerPcs, CommitPcs, ClearedPcs
    <3>4. Becomes(t, c) BY <1>2, <2>2, <3>1 DEF ClassifyGate
    <3>5. ToSend(call[t]) = {} /\ Owes(call[t]) = {} BY <1>2, <1>f, <1>n DEF ClassifyGate, DirectPcs
    <3>6. call[t].pc \in ClearedPcs BY <1>2 DEF ClassifyGate, ClearedPcs
    <3>7. Promise!GiveUp BY <1>0, <1>2, <3>3, <3>4, <3>5, <3>6, StepGiveUp DEF ClassifyGate
    <3> QED BY <3>7 DEF Promise!Next
  <2> QED BY <2>1, <2>2
<1>3. CASE ImageProvider(t)
  <2>1. CASE get_provider = "none"
    <3>1. Owes(call[t]) = {} BY <1>3, <1>f DEF ImageProvider, DirectPcs
    <3>2. Promise!GiveUp BY <1>0, <1>3, <2>1, <3>1, TurnsBack DEF ImageProvider
    <3> QED BY <3>2 DEF Promise!Next
  <2>2. CASE get_provider # "none"
    <3>1. PICK c : c = [call[t] EXCEPT !.pc = "d_flush", !.target = get_provider] OBVIOUS
    <3>2. c.pc = "d_flush" BY <1>0, <3>1 DEF Call
    <3>3. ToSend(c) = {} /\ Owes(c) = {} /\ c.pc \in ClearedPcs
      BY <3>2 DEF ToSend, Owes, SinglePcs, QueuePcs, StartPcs, WorkerPcs, CommitPcs, ClearedPcs
    <3>4. mode \notin OFF_MODES BY <2>2, OffMeansNone
    <3>5. Becomes(t, c) BY <1>3, <2>2, <3>1 DEF ImageProvider
    <3>6. ToSend(call[t]) = {} /\ Owes(call[t]) = {} BY <1>3, <1>f, <1>n DEF ImageProvider, DirectPcs
    <3>7. Promise!Clear(t)
      BY <1>0, <1>3, <3>3, <3>4, <3>5, <3>6, StepClear DEF ImageProvider
    <3> QED BY <1>0, <3>7 DEF Promise!Next
  <2> QED BY <2>1, <2>2
<1>4. CASE ClassifyStage(t)
  <2>1. PICK r \in Free :
          /\ row' = [row EXCEPT ![r] = [status |-> "pending", approval |-> "pending",
                                        staged |-> call[t].seen, txn |-> call[t].txn]]
          /\ openItem' = openItem \cup {r}
          /\ sent' = [sent EXCEPT ![r] = 0] /\ unsaved' = unsaved \ {r}
    BY <1>4 DEF ClassifyStage
  <2>2. r \in Reqs BY DEF Free
  <2>3. row'[r].status = "pending" /\ row'[r] # NoRow /\ sent'[r] = 0
    <3>1. call[t].seen \in PRIVACY_MODES /\ call[t].txn \in Txns \cup {NoTxn}
      BY <1>0, <1>4 DEF ClassifyStage, Holds, Call, DirectPcs
    <3>2. row'[r] \in Row BY <1>0, <2>1, <2>2, <3>1 DEF Row, TypeOK
    <3> QED BY <1>0, <2>1, <2>2, <3>2, NothingAssumption DEF TypeOK
  <2>4. \A q \in Reqs \ {r} : row'[q] = row[q] /\ sent'[q] = sent[q] BY <1>0, <2>1 DEF TypeOK
  <2>5. ToSend(call[t]) = {} /\ Owes(call[t]) = {} /\ Becomes(t, Idle)
    BY <1>4, <1>f, <1>n DEF ClassifyStage, DirectPcs
  <2>6. Cleared' = Cleared \ {t} /\ Told' = Told /\ Owed' = Owed BY <1>0, <2>5, IdleMapped, MappedMove
  <2>7. Cleared' \subseteq Cleared BY <2>6
  <2>8. {r} \in SUBSET Free OBVIOUS
  <2>9. Promise!Stage({r})
    BY <1>4, <2>1, <2>3, <2>4, <2>6, <2>7, <2>8, StepStage DEF ClassifyStage
  <2> QED BY <2>2, <2>9 DEF Promise!Next
<1>5. CASE DirectFlush(t)
  <2>1. PICK r \in Free :
          /\ Becomes(t, [call[t] EXCEPT !.pc = "d_send", !.req = r])
          /\ sent' = [sent EXCEPT ![r] = 0] /\ unsaved' = unsaved \ {r}
    BY <1>5 DEF DirectFlush
  <2>2. r \in Reqs /\ {r} \in SUBSET Free /\ {r} \in SUBSET Reqs BY DEF Free
  <2>3. PICK c : c = [call[t] EXCEPT !.pc = "d_send", !.req = r] OBVIOUS
  <2>4. c.pc = "d_send" /\ c.req = r BY <1>0, <2>3 DEF Call
  <2>5. ToSend(c) = {r} /\ Owes(c) = {} /\ c.pc \in ClearedPcs
    BY <2>4 DEF ToSend, Owes, SinglePcs, QueuePcs, StartPcs, WorkerPcs, CommitPcs, ClearedPcs
  <2>6. ToSend(call[t]) = {} /\ Owes(call[t]) = {} /\ t \in Cleared
    BY <1>0, <1>5, <1>f, <1>n DEF DirectFlush, DirectPcs, Cleared, ClearedPcs
  <2>7. Cleared' = Cleared \cup {t} /\ Owed' = Owed BY <1>0, <2>1, <2>3, <2>5, <2>6, MappedMove
  <2>8. Told' = Told \cup ({t} \X {r})
    <3>1. PICK S \in SUBSET Reqs : S = {r} BY <2>2
    <3>2. ToSend(c) = ToSend(call[t]) \cup S BY <2>5, <2>6, <3>1
    <3>3. Becomes(t, c) BY <2>1, <2>3
    <3>4. Told' = Told \cup ({t} \X S) BY <1>0, <3>2, <3>3, MappedMove
    <3> QED BY <3>1, <3>4
  <2>9. {t} \X {r} = {<<t, r>>} OBVIOUS
  <2>10. Gone' = Gone \ {r} BY <1>0, <2>1, <2>2 DEF Gone, TypeOK
  <2>11. Promise!Unused({r}) BY <1>5, <2>2, FreeUnused DEF DirectFlush
  <2>12. (Told \cup Owed) \cap ({t} \X Reqs) = {} BY <1>0, <2>6, PairsOf
  <2>13. Promise!Own(t, r)
    BY <1>5, <2>1, <2>6, <2>7, <2>8, <2>9, <2>10, <2>11, <2>12, MappedRows DEF DirectFlush, Promise!Own
  <2> QED BY <1>0, <2>2, <2>13 DEF Promise!Next
<1>6. CASE DirectTimeout(t)
  <2>1. Owes(call[t]) = {} BY <1>6, <1>f DEF DirectTimeout, DirectPcs
  <2>2. Promise!GiveUp BY <1>0, <1>6, <2>1, TurnsBack DEF DirectTimeout
  <2> QED BY <2>2 DEF Promise!Next
<1>7. ASSUME NEW reply \in Replies, DirectSend(t, reply) PROVE Promise!Next
  <2>1. call[t].req \in Reqs BY <1>0, <1>7 DEF DirectSend, Holds
  <2>2. PICK c : c = [call[t] EXCEPT !.pc = "d_commit", !.reply = reply] OBVIOUS
  <2>3. c.pc = "d_commit" /\ c.req = call[t].req BY <1>0, <2>2 DEF Call
  <2>4. ToSend(c) = {} /\ Owes(c) = {call[t].req} /\ c.pc \notin ClearedPcs
    BY <2>3 DEF ToSend, Owes, SinglePcs, QueuePcs, StartPcs, WorkerPcs, CommitPcs, ClearedPcs
  <2>5. ToSend(call[t]) = {call[t].req} /\ Owes(call[t]) = {} /\ call[t].pc \in ClearedPcs
    BY <1>7 DEF DirectSend, ToSend, Owes, SinglePcs, QueuePcs, StartPcs, WorkerPcs, CommitPcs, ClearedPcs
  <2>6. ToSend(c) = ToSend(call[t]) \ {call[t].req} /\ call[t].req \in ToSend(call[t]) BY <2>4, <2>5
  <2>7. Promise!Turn(t, call[t].req)
    BY <1>0, <1>7, <2>1, <2>2, <2>4, <2>5, <2>6, StepTurn DEF DirectSend
  <2>8. Promise!Send(t, call[t].req) \/ Promise!Decline(t, call[t].req)
    BY <1>0, <1>7, <2>1, <2>5, <2>7, StepDispatch DEF DirectSend
  <2> QED BY <1>0, <2>1, <2>8 DEF Promise!Next
<1>8. CASE DirectCommit(t)
  <2>1. call[t].req \in Reqs /\ call[t].seen \in PRIVACY_MODES
    BY <1>0, <1>8 DEF DirectCommit, Holds, DirectPcs
  <2>2. PICK d : d = [status |-> Outcome(call[t].reply),
                      approval |-> IF call[t].txn # NoTxn /\ call[t].seen \in CLOUD_MODES
                                   THEN "approved" ELSE "not_required",
                      staged |-> call[t].seen, txn |-> call[t].txn]
    OBVIOUS
  <2>3. d \in Row /\ d.status # "pending" BY <1>0, <2>1, <2>2 DEF Row, Call, Outcome
  <2>4. row' = [row EXCEPT ![call[t].req] = d] BY <1>8, <2>2 DEF DirectCommit
  <2>5. call[t].pc \in CommitPcs /\ ToSend(call[t]) = {}
    BY <1>8, <1>n DEF DirectCommit, CommitPcs, DirectPcs
  <2>6. Promise!Record(t, call[t].req)
    BY <1>0, <1>8, <2>1, <2>3, <2>4, <2>5, IdleMapped, StepRecord DEF DirectCommit
  <2> QED BY <1>0, <2>1, <2>6 DEF Promise!Next
<1> QED BY <1>1, <1>2, <1>3, <1>4, <1>5, <1>6, <1>7, <1>8 DEF DirectStep

\* Every step of an approval is a step of Consent.
LEMMA ConsentApprove ==
  ASSUME TypeInv, NEW t \in Approvers, ApproveStep(t) PROVE Promise!Next
<1> USE DEF settings, store, history
<1>0. TypeOK /\ CallsHold /\ call[t] \in Call /\ Holds(call[t], row) /\ t \in Threads
  BY DEF TypeInv, CallsHold, Threads
<1>r. call[t].pc \in ApprovePcs => call[t].req \in Reqs /\ row[call[t].req] # NoRow BY <1>0 DEF Holds
<1>f. call[t].pc \in {"a_gate", "a_provider", "a_send"} => Owes(call[t]) = {} /\ ToSend(call[t]) = {call[t].req}
  BY DEF Owes, CommitPcs, ToSend, SinglePcs, QueuePcs, StartPcs, WorkerPcs
<1>n. call[t].pc = "a_commit" => Owes(call[t]) = {call[t].req} /\ ToSend(call[t]) = {}
  BY DEF Owes, CommitPcs, ToSend, SinglePcs, QueuePcs, StartPcs, WorkerPcs
<1>1. CASE ApproveGate(t)
  <2>1. CASE StagedBlocked(call[t].req)
    <3>1. Owes(call[t]) = {} BY <1>1, <1>f DEF ApproveGate
    <3>2. Promise!GiveUp BY <1>0, <1>1, <2>1, <3>1, TurnsBack DEF ApproveGate
    <3> QED BY <3>2 DEF Promise!Next
  <2>2. CASE ~StagedBlocked(call[t].req)
    <3>1. PICK c : c = [call[t] EXCEPT !.pc = "a_provider"] OBVIOUS
    <3>2. c.pc = "a_provider" /\ c.req = call[t].req BY <1>0, <3>1 DEF Call
    <3>3. ToSend(c) = {call[t].req} /\ Owes(c) = {} /\ c.pc \notin ClearedPcs
      BY <3>2 DEF ToSend, Owes, SinglePcs, QueuePcs, StartPcs, WorkerPcs, CommitPcs, ClearedPcs
    <3>4. Becomes(t, c) BY <1>1, <2>2, <3>1 DEF ApproveGate
    <3>5. ToSend(call[t]) = {call[t].req} /\ Owes(call[t]) = {} BY <1>1, <1>f DEF ApproveGate
    <3>6. Promise!GiveUp BY <1>0, <1>1, <3>3, <3>4, <3>5, StepGiveUp DEF ApproveGate
    <3> QED BY <3>6 DEF Promise!Next
  <2> QED BY <2>1, <2>2
<1>2. CASE ApproveProvider(t)
  <2>1. CASE get_provider = "none"
    <3>1. Owes(call[t]) = {} BY <1>2, <1>f DEF ApproveProvider
    <3>2. Promise!GiveUp BY <1>0, <1>2, <2>1, <3>1, TurnsBack DEF ApproveProvider
    <3> QED BY <3>2 DEF Promise!Next
  <2>2. CASE get_provider # "none"
    <3>1. PICK c : c = [call[t] EXCEPT !.pc = "a_send", !.target = get_provider] OBVIOUS
    <3>2. c.pc = "a_send" /\ c.req = call[t].req BY <1>0, <3>1 DEF Call
    <3>3. ToSend(c) = {call[t].req} /\ Owes(c) = {} /\ c.pc \in ClearedPcs
      BY <3>2 DEF ToSend, Owes, SinglePcs, QueuePcs, StartPcs, WorkerPcs, CommitPcs, ClearedPcs
    <3>4. mode \notin OFF_MODES BY <2>2, OffMeansNone
    <3>5. Becomes(t, c) BY <1>2, <2>2, <3>1 DEF ApproveProvider
    <3>6. ToSend(call[t]) = {call[t].req} /\ Owes(call[t]) = {} BY <1>2, <1>f DEF ApproveProvider
    <3>7. Promise!Clear(t)
      BY <1>0, <1>2, <3>3, <3>4, <3>5, <3>6, StepClear DEF ApproveProvider
    <3> QED BY <1>0, <3>7 DEF Promise!Next
  <2> QED BY <2>1, <2>2
<1>3. ASSUME NEW reply \in Replies, ApproveSend(t, reply) PROVE Promise!Next
  <2>1. call[t].req \in Reqs BY <1>3, <1>r DEF ApproveSend, ApprovePcs
  <2>2. PICK c : c = [call[t] EXCEPT !.pc = "a_commit", !.reply = reply] OBVIOUS
  <2>3. c.pc = "a_commit" /\ c.req = call[t].req BY <1>0, <2>2 DEF Call
  <2>4. ToSend(c) = {} /\ Owes(c) = {call[t].req} /\ c.pc \notin ClearedPcs
    BY <2>3 DEF ToSend, Owes, SinglePcs, QueuePcs, StartPcs, WorkerPcs, CommitPcs, ClearedPcs
  <2>5. ToSend(call[t]) = {call[t].req} /\ Owes(call[t]) = {} /\ call[t].pc \in ClearedPcs
    BY <1>3, <1>f DEF ApproveSend, ClearedPcs
  <2>6. ToSend(c) = ToSend(call[t]) \ {call[t].req} /\ call[t].req \in ToSend(call[t]) BY <2>4, <2>5
  <2>7. Promise!Turn(t, call[t].req)
    BY <1>0, <1>3, <2>1, <2>2, <2>4, <2>5, <2>6, StepTurn DEF ApproveSend
  <2>8. Promise!Send(t, call[t].req) \/ Promise!Decline(t, call[t].req)
    BY <1>0, <1>3, <2>1, <2>5, <2>7, StepDispatch DEF ApproveSend
  <2> QED BY <1>0, <2>1, <2>8 DEF Promise!Next
<1>4. CASE ApproveCommit(t)
  <2>1. call[t].req \in Reqs /\ row[call[t].req] \in Row BY <1>0, <1>4, <1>r DEF ApproveCommit, ApprovePcs, TypeOK
  <2>2. PICK d \in Row : d.status # "pending" /\ row' = [row EXCEPT ![call[t].req] = d]
    BY <1>0, <1>4, <2>1, SettledRow DEF ApproveCommit
  <2>3. call[t].pc \in CommitPcs /\ ToSend(call[t]) = {} BY <1>4, <1>n DEF ApproveCommit, CommitPcs
  <2>4. Promise!Record(t, call[t].req)
    BY <1>0, <1>4, <2>1, <2>2, <2>3, IdleMapped, StepRecord DEF ApproveCommit
  <2> QED BY <1>0, <2>1, <2>4 DEF Promise!Next
<1>5. CASE ApproveTimeout(t)
  <2>1. unsaved' = unsaved \cup Owes(call[t]) BY <1>5, <1>n DEF ApproveTimeout
  <2>2. Promise!GiveUp BY <1>0, <1>5, <2>1, TurnsBack DEF ApproveTimeout
  <2> QED BY <2>2 DEF Promise!Next
<1> QED BY <1>1, <1>2, <1>3, <1>4, <1>5 DEF ApproveStep

\* Every step of a batch is a step of Consent.
LEMMA ConsentBatch ==
  ASSUME TypeInv, NEW t \in Starters, BatchStep(t) PROVE Promise!Next
<1> USE DEF settings, store, history
<1>0. TypeOK /\ CallsHold /\ call[t] \in Call /\ Holds(call[t], row) /\ t \in Threads
  BY DEF TypeInv, CallsHold, Threads
<1>r. call[t].pc \in {"w_gate", "w_send", "w_commit"} =>
        call[t].req \in Reqs /\ row[call[t].req] # NoRow /\ call[t].req \in call[t].queue
  BY <1>0 DEF Holds
<1>f. call[t].pc \in QueuePcs \ {"w_commit"} => Owes(call[t]) = {} /\ ToSend(call[t]) = call[t].queue
  BY DEF Owes, CommitPcs, ToSend, SinglePcs, QueuePcs, StartPcs, WorkerPcs
<1>n. call[t].pc = "w_commit" =>
        Owes(call[t]) = {call[t].req} /\ ToSend(call[t]) = call[t].queue \ {call[t].req}
  BY DEF Owes, CommitPcs, ToSend, SinglePcs, QueuePcs, StartPcs, WorkerPcs
<1>q. ASSUME NEW c, c.pc \in {"s_commit", "w_next", "w_gate", "w_send"}
      PROVE  Owes(c) = {} /\ ToSend(c) = c.queue /\ (c.pc # "w_send" => c.pc \notin ClearedPcs)
  BY <1>q DEF Owes, CommitPcs, ToSend, SinglePcs, QueuePcs, StartPcs, WorkerPcs, ClearedPcs
<1>x. NextItem(t).pc = "w_next" /\ NextItem(t).queue = call[t].queue \ {call[t].req}
  BY <1>0 DEF NextItem, Call
<1>1. CASE StartReserve(t)
  <2>1. PICK c : c = [call[t] EXCEPT !.pc = "s_commit", !.batch = call[t].queue,
                        !.drop = {r \in call[t].drop : Pending(r)}]
    OBVIOUS
  <2>2. c.pc = "s_commit" /\ c.queue = call[t].queue BY <1>0, <2>1 DEF Call
  <2>3. Becomes(t, c) BY <1>1, <2>1 DEF StartReserve
  <2>4. ToSend(c) = ToSend(call[t]) /\ Owes(c) = Owes(call[t]) /\ c.pc \notin ClearedPcs
    BY <1>1, <1>f, <1>q, <2>2 DEF StartReserve, Reserving, QueuePcs, StartPcs
  <2>5. Promise!GiveUp BY <1>0, <1>1, <2>3, <2>4, StepGiveUp DEF StartReserve
  <2> QED BY <2>5 DEF Promise!Next
<1>2. CASE StartCommit(t)
  <2>1. PICK c : c = [call[t] EXCEPT !.pc = "w_next", !.drop = {}] OBVIOUS
  <2>2. c.pc = "w_next" /\ c.queue = call[t].queue BY <1>0, <2>1 DEF Call
  <2>3. Becomes(t, c) BY <1>2, <2>1 DEF StartCommit
  <2>4. ToSend(c) = ToSend(call[t]) /\ Owes(c) = Owes(call[t]) /\ c.pc \notin ClearedPcs
    <3>1. Owes(call[t]) = {} /\ ToSend(call[t]) = call[t].queue
      BY <1>2, <1>f DEF StartCommit, QueuePcs, StartPcs
    <3> QED BY <1>q, <2>2, <3>1
  <2>5. t \notin Cleared BY <1>2 DEF StartCommit, Cleared, ClearedPcs
  <2>6. Cleared' = Cleared \ {t} /\ Told' = Told /\ Owed' = Owed BY <1>0, <2>3, <2>4, MappedMove
  <2>7. Cleared' = Cleared BY <2>5, <2>6
  <2>8. call[t].drop \in SUBSET Reqs BY <1>0 DEF Call
  <2>9. ASSUME NEW r \in call[t].drop
        PROVE  row[r] # NoRow /\ row'[r] # NoRow /\ row'[r].status # "pending"
    <3>1. row[r] # NoRow /\ row[r] \in Row BY <1>0, <1>2, <2>8 DEF StartCommit, Holds, TypeOK
    <3>2. PICK d : d = [row[r] EXCEPT !.status = "rejected", !.approval = "rejected"] OBVIOUS
    <3>3. d \in Row BY <3>1, <3>2, RowUpdate
    <3>4. d.status = "rejected" BY <3>1, <3>2 DEF Row
    <3>5. row'[r] = d BY <1>2, <2>8, <3>2 DEF StartCommit
    <3> QED BY <3>1, <3>3, <3>4, <3>5, NothingAssumption
  <2>10. \A r \in Reqs \ call[t].drop : row'[r] = row[r] BY <1>2 DEF StartCommit
  <2>11. Promise!Reject(call[t].drop)
    BY <1>2, <2>6, <2>7, <2>8, <2>9, <2>10, StepReject DEF StartCommit
  <2> QED BY <2>8, <2>11 DEF Promise!Next
<1>3. CASE StartTimeout(t)
  <2>1. Owes(call[t]) = {} BY <1>3, <1>f DEF StartTimeout, QueuePcs, StartPcs
  <2>2. Promise!GiveUp BY <1>0, <1>3, <2>1, TurnsBack DEF StartTimeout
  <2> QED BY <2>2 DEF Promise!Next
<1>4. CASE WorkerTake(t)
  <2>1. PICK r \in call[t].queue :
          Becomes(t, [call[t] EXCEPT !.pc = "w_gate", !.req = r, !.target = get_provider])
    BY <1>4 DEF WorkerTake
  <2>2. PICK c : c = [call[t] EXCEPT !.pc = "w_gate", !.req = r, !.target = get_provider] OBVIOUS
  <2>3. c.pc = "w_gate" /\ c.queue = call[t].queue /\ Becomes(t, c) BY <1>0, <2>1, <2>2 DEF Call
  <2>4. ToSend(c) = ToSend(call[t]) /\ Owes(c) = Owes(call[t]) /\ c.pc \notin ClearedPcs
    BY <1>4, <1>f, <1>q, <2>3 DEF WorkerTake, QueuePcs, WorkerPcs
  <2>5. Promise!GiveUp BY <1>0, <1>4, <2>3, <2>4, StepGiveUp DEF WorkerTake
  <2> QED BY <2>5 DEF Promise!Next
<1>5. CASE WorkerSkip(t)
  <2>1. PICK c : c = NextItem(t) OBVIOUS
  <2>2. ToSend(c) \subseteq ToSend(call[t]) /\ Owes(c) = Owes(call[t]) /\ c.pc \notin ClearedPcs
    BY <1>5, <1>f, <1>q, <1>x, <2>1 DEF WorkerSkip, QueuePcs, WorkerPcs
  <2>3. Promise!GiveUp BY <1>0, <1>5, <2>1, <2>2, StepGiveUp DEF WorkerSkip
  <2> QED BY <2>3 DEF Promise!Next
<1>6. CASE WorkerGate(t)
  <2>1. call[t].req \in Reqs /\ call[t].req \in call[t].queue BY <1>6, <1>r DEF WorkerGate
  <2>2. Owes(call[t]) = {} /\ ToSend(call[t]) = call[t].queue
    BY <1>6, <1>f DEF WorkerGate, QueuePcs, WorkerPcs
  <2>3. CASE StagedBlocked(call[t].req)
    <3>1. PICK c : c = [call[t] EXCEPT !.pc = "w_commit", !.reply = "blocked"] OBVIOUS
    <3>2. c.pc = "w_commit" /\ c.req = call[t].req /\ c.queue = call[t].queue BY <1>0, <3>1 DEF Call
    <3>3. ToSend(c) = call[t].queue \ {call[t].req} /\ Owes(c) = {call[t].req} /\ c.pc \notin ClearedPcs
      BY <3>2 DEF Owes, CommitPcs, ToSend, SinglePcs, QueuePcs, StartPcs, WorkerPcs, ClearedPcs
    <3>4. Becomes(t, c) BY <1>6, <2>3, <3>1 DEF WorkerGate
    <3>5. Promise!Turn(t, call[t].req)
      BY <1>0, <1>6, <2>1, <2>2, <3>3, <3>4, StepTurn DEF WorkerGate
    <3>6. Promise!Decline(t, call[t].req) BY <1>6, <3>5, MappedRows DEF WorkerGate, Promise!Decline
    <3> QED BY <1>0, <2>1, <3>6 DEF Promise!Next
  <2>4. CASE ~StagedBlocked(call[t].req)
    <3>1. PICK c : c = [call[t] EXCEPT !.pc = "w_send"] OBVIOUS
    <3>2. c.pc = "w_send" /\ c.queue = call[t].queue BY <1>0, <3>1 DEF Call
    <3>3. ToSend(c) = ToSend(call[t]) /\ Owes(c) = {} /\ c.pc \in ClearedPcs
      BY <1>q, <2>2, <3>2 DEF ClearedPcs
    <3>4. mode \notin OFF_MODES BY <2>1, <2>4, OffMeansNone
    <3>5. Becomes(t, c) BY <1>6, <2>4, <3>1 DEF WorkerGate
    <3>6. Promise!Clear(t) BY <1>0, <1>6, <2>2, <3>3, <3>4, <3>5, StepClear DEF WorkerGate
    <3> QED BY <1>0, <3>6 DEF Promise!Next
  <2> QED BY <2>3, <2>4
<1>7. ASSUME NEW reply \in Replies, WorkerSend(t, reply) PROVE Promise!Next
  <2>1. call[t].req \in Reqs /\ call[t].req \in call[t].queue BY <1>7, <1>r DEF WorkerSend
  <2>2. PICK c : c = [call[t] EXCEPT !.pc = "w_commit", !.reply = reply] OBVIOUS
  <2>3. c.pc = "w_commit" /\ c.req = call[t].req /\ c.queue = call[t].queue BY <1>0, <2>2 DEF Call
  <2>4. ToSend(c) = call[t].queue \ {call[t].req} /\ Owes(c) = {call[t].req} /\ c.pc \notin ClearedPcs
    BY <2>3 DEF Owes, CommitPcs, ToSend, SinglePcs, QueuePcs, StartPcs, WorkerPcs, ClearedPcs
  <2>5. ToSend(call[t]) = call[t].queue /\ Owes(call[t]) = {} /\ call[t].pc \in ClearedPcs
    BY <1>7, <1>f DEF WorkerSend, ClearedPcs, QueuePcs, WorkerPcs
  <2>6. Promise!Turn(t, call[t].req)
    BY <1>0, <1>7, <2>1, <2>2, <2>4, <2>5, StepTurn DEF WorkerSend
  <2>7. Promise!Send(t, call[t].req) \/ Promise!Decline(t, call[t].req)
    BY <1>0, <1>7, <2>1, <2>5, <2>6, StepDispatch DEF WorkerSend
  <2> QED BY <1>0, <2>1, <2>7 DEF Promise!Next
<1>8. CASE WorkerCommit(t)
  <2>1. call[t].req \in Reqs /\ row[call[t].req] \in Row BY <1>0, <1>8, <1>r DEF WorkerCommit, TypeOK
  <2>2. PICK d \in Row : d.status # "pending" /\ row' = [row EXCEPT ![call[t].req] = d]
    <3>1. CASE call[t].reply = "blocked"
      <4>1. PICK d : d = [row[call[t].req] EXCEPT !.status = "failed"] OBVIOUS
      <4>2. d \in Row
        <5>1. "not_required" \in {"not_required", "pending", "approved", "rejected"} OBVIOUS
        <5> QED BY <2>1, <4>1, <5>1, RowUpdate
      <4>3. d.status = "failed" BY <2>1, <4>1 DEF Row
      <4>4. row' = [row EXCEPT ![call[t].req] = d] BY <1>0, <1>8, <2>1, <3>1, <4>1 DEF WorkerCommit, TypeOK
      <4> QED BY <4>2, <4>3, <4>4
    <3>2. CASE call[t].reply # "blocked"
      BY <1>0, <1>8, <2>1, <3>2, SettledRow DEF WorkerCommit
    <3> QED BY <3>1, <3>2
  <2>3. PICK c : c = NextItem(t) OBVIOUS
  <2>4. ToSend(c) = ToSend(call[t]) /\ Owes(c) = {} /\ c.pc \notin ClearedPcs
    BY <1>8, <1>n, <1>q, <1>x, <2>3 DEF WorkerCommit
  <2>5. call[t].pc \in CommitPcs /\ Becomes(t, c) BY <1>8, <2>3 DEF WorkerCommit, CommitPcs
  <2>6. Promise!Record(t, call[t].req)
    BY <1>0, <1>8, <2>1, <2>2, <2>4, <2>5, StepRecord DEF WorkerCommit
  <2> QED BY <1>0, <2>1, <2>6 DEF Promise!Next
<1>9. CASE WorkerTimeout(t)
  <2>1. PICK c : c = NextItem(t) OBVIOUS
  <2>2. ToSend(c) = ToSend(call[t]) /\ Owes(c) = {} /\ c.pc \notin ClearedPcs
    BY <1>9, <1>n, <1>q, <1>x, <2>1 DEF WorkerTimeout
  <2>3. unsaved' = unsaved \cup Owes(call[t]) BY <1>9, <1>n DEF WorkerTimeout
  <2>4. Promise!GiveUp BY <1>0, <1>9, <2>1, <2>2, <2>3, StepGiveUp DEF WorkerTimeout
  <2> QED BY <2>4 DEF Promise!Next
<1>10. CASE WorkerDone(t)
  <2>1. Owes(call[t]) = {} BY <1>10, <1>f DEF WorkerDone, QueuePcs, WorkerPcs
  <2>2. Promise!GiveUp BY <1>0, <1>10, <2>1, TurnsBack DEF WorkerDone
  <2> QED BY <2>2 DEF Promise!Next
<1> QED BY <1>1, <1>2, <1>3, <1>4, <1>5, <1>6, <1>7, <1>8, <1>9, <1>10 DEF BatchStep

\* Every step of the gateway is a step of Consent, or none.
LEMMA ConsentNext ==
  ASSUME TypeInv, LockInv, SentIsRecorded, [Next]_vars PROVE [Promise!Next]_(Promise!vars)
<1> USE DEF settings, store, history
<1>1. CASE UserStep BY <1>1, ConsentUser
<1>2. CASE SaveUrl \/ SaveUrlTimeout \/ UNCHANGED vars
  <2>1. Promise!GiveUp BY <1>2, StepIdle DEF SaveUrl, SaveUrlTimeout, vars
  <2> QED BY <2>1 DEF Promise!Next
<1>3. ASSUME NEW t \in Directs, DirectStep(t) PROVE Promise!Next BY <1>3, ConsentDirect
<1>4. ASSUME NEW t \in Approvers, ApproveStep(t) PROVE Promise!Next BY <1>4, ConsentApprove
<1>5. ASSUME NEW t \in Starters, BatchStep(t) PROVE Promise!Next BY <1>5, ConsentBatch
<1>6. CASE Restart
  <2>1. \A t \in Threads : call'[t] = Idle BY <1>6 DEF Restart
  <2>2. Cleared' = {} /\ Told' = {} /\ Owed' = {}
    <3>1. ASSUME NEW t \in Threads
          PROVE  call'[t].pc \notin ClearedPcs /\ ToSend(call'[t]) = {} /\ Owes(call'[t]) = {}
      BY <2>1, IdleMapped
    <3>2. Cleared' = {} BY <3>1 DEF Cleared
    <3>3. Told' = {} BY <3>1 DEF Told, ToSend, Owes
    <3>4. Owed' = {} BY <3>1 DEF Owed, Owes
    <3> QED BY <3>2, <3>3, <3>4
  <2>3. {p[2] : p \in Owed} = InDoubt
    <3>1. ASSUME NEW t \in Threads, call[t].pc \in CommitPcs PROVE <<t, call[t].req>> \in Owed
      <4>1. Owes(call[t]) = {call[t].req} BY <3>1 DEF Owes
      <4> QED BY <4>1, PairsOf
    <3>2. ASSUME NEW p \in Owed PROVE p[1] \in Threads /\ call[p[1]].pc \in CommitPcs /\ p[2] = call[p[1]].req
      BY DEF Owed, Owes
    <3>3. InDoubt = {call[t].req : t \in {u \in Threads : call[u].pc \in CommitPcs}}
      BY DEF InDoubt, CommitPcs
    <3>4. ASSUME NEW r \in InDoubt PROVE r \in {p[2] : p \in Owed}
      <4>1. PICK t \in Threads : call[t].pc \in CommitPcs /\ r = call[t].req BY <3>3
      <4>2. <<t, r>> \in Owed BY <3>1, <4>1
      <4>3. r = <<t, r>>[2] OBVIOUS
      <4> QED BY <4>2, <4>3
    <3> QED BY <3>2, <3>3, <3>4
  <2>4. Owed \ Owed' = Owed BY <2>2
  <2>5. Promise!GiveUp BY <1>6, <2>2, <2>3, <2>4, MappedRows DEF Restart, Promise!GiveUp
  <2> QED BY <2>5 DEF Promise!Next
<1> QED BY <1>1, <1>2, <1>3, <1>4, <1>5, <1>6 DEF Next

\* The gateway keeps the promise of Consent, whatever the number of threads, requests
\* and settings saved: no payload leaves through a thread that was not cleared while AI
\* was on, for a request that was not put to the user or on record, and none leaves
\* without an outcome that is recorded or known as lost.
THEOREM ConsentTheorem == Spec => ConsentKept
<1>1. Init => Promise!Init
  <2> SUFFICES ASSUME Init PROVE Promise!Init OBVIOUS
  <2>1. \A t \in Threads : call[t] = Idle BY DEF Init
  <2>2. Cleared = {} /\ Told = {} /\ Owed = {} BY <2>1, IdleMapped DEF Cleared, Told, Owed
  <2>3. Open = {} /\ Closed = {} /\ Gone = {} BY DEF Init, Open, Closed, Pending, Gone
  <2>4. mode \in OFF_MODES /\ unsaved = {} BY DEF Init, OFF_MODES
  <2> QED BY <2>2, <2>3, <2>4 DEF Promise!Init
<1>2. TypeInv /\ LockInv /\ SentIsRecorded /\ [Next]_vars => [Promise!Next]_(Promise!vars)
  BY ConsentNext
<1>3. Spec => []LockInv BY TypeCorrect, LockInit, LockStep, PTL DEF Spec
<1> QED BY <1>1, <1>2, <1>3, TypeCorrect, SentTheorem, PTL DEF Spec, ConsentKept, Promise!Spec

\* Consent clears nobody while AI is off.
LEMMA OffClearsNobody ==
  ASSUME [Promise!Next]_(Promise!vars), mode \in OFF_MODES PROVE Cleared' \subseteq Cleared
BY DEF Promise!Next, Promise!vars, Promise!GiveUp, Promise!Switch, Promise!Clear, Promise!Stage, Promise!Tell,
       Promise!Own, Promise!Turn, Promise!Send, Promise!Decline, Promise!Record, Promise!Reject

\* Once AI is off no call gets past its gate: what may still leave is what had
\* passed before, whatever the number of threads and pending requests.
THEOREM SwitchOff == Spec => SwitchOffDrains
<1>1. [Promise!Next]_(Promise!vars) => [(mode \in OFF_MODES) => Cleared' \subseteq Cleared]_vars
  BY OffClearsNobody
<1> QED BY <1>1, ConsentTheorem, PTL DEF ConsentKept, Promise!Spec, SwitchOffDrains
=============================================================================
