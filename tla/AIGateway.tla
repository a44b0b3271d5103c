------------------------------ MODULE AIGateway ------------------------------
(***************************************************************************)
(* The AI gateway (services/ai_service.py, api/routes_ai.py): which        *)
(* payload may leave the device, who approved it, and what the audit row   *)
(* (AIRequest) says afterwards.                                            *)
(*                                                                         *)
(* A request thread runs one handler at a time.  Every read of the         *)
(* database is an autocommit SELECT, so two reads of one handler may see   *)
(* different commits; all the writes of a handler become visible at once,  *)
(* at its commit.  SQLite has one writer: "lock" is the thread that has    *)
(* flushed an INSERT and not yet committed.  A writer that waits longer    *)
(* than busy_timeout gives up: its handler rolls back.                     *)
(***************************************************************************)
EXTENDS Naturals, FiniteSets, Functions

CONSTANTS
  Approvers,    \* threads that may serve the requests of the review queue (approve, reject, dismiss)
  Starters,     \* threads that may serve POST /ai/cloud-batch/send, and its background task
  Directs,      \* threads that may serve /ai/classify and the image extraction
  Reqs,         \* ids of AIRequest rows
  Txns,         \* transactions
  Moves,        \* the transactions the user moves between categories
  Sensitive,    \* the transactions whose text redaction.contains_sensitive flags
  Profiles,     \* the <<privacy mode, AI base URL>> pairs a user saves
  Replies,      \* how the provider may answer: "ok", "error"
  OneSender,    \* TRUE: one browser panel, whose Send button waits for the reply
  MayCrash,     \* TRUE: the process may be restarted
  NoReq, NoTxn, NoRow, Nobody, NoUrl

Threads == Approvers \cup Starters \cup Directs

OFF_MODES == {"strict_local", "no_ai"}
CLOUD_MODES == {"cloud_manual", "cloud_auto"}
PRIVACY_MODES == OFF_MODES \cup CLOUD_MODES \cup {"local_llm"}
Urls == {"unset", "local", "public"}

ASSUME ProfilesAssumption == Profiles \subseteq PRIVACY_MODES \X Urls
ASSUME SensitiveAssumption == Sensitive \subseteq Txns /\ Moves \subseteq Txns
ASSUME RepliesAssumption == Replies \subseteq {"ok", "error"}
ASSUME SwitchesAssumption == OneSender \in BOOLEAN /\ MayCrash \in BOOLEAN

VARIABLES
  mode, url,    \* the committed settings rows privacy_mode and ai_base_url
  draft,        \* the base URL a PATCH /settings has still to commit, or NoUrl
  neverCloud,   \* transactions whose category is marked never_cloud
  row,          \* the committed AIRequest rows
  openItem,     \* requests with an open "cloud_ai_approval_required" review item
  inflight,     \* _inflight_batch_ids
  lock,         \* the thread that holds SQLite's writer lock, or Nobody
  call,         \* what each thread is doing
  sent,         \* history: how often a row's payload has left (0, 1, 2 = more)
  unsaved,      \* history: rows whose outcome was lost with a failed commit or a crash
  late          \* history: threads whose transaction became never-cloud after their gate

settings == <<mode, url, draft>>
store == <<row, openItem>>
history == <<sent, unsaved, late>>
vars == <<settings, neverCloud, store, inflight, lock, call, history>>

Row == [status : {"pending", "completed", "failed", "rejected"},
        approval : {"not_required", "pending", "approved", "rejected"},
        staged : PRIVACY_MODES,
        txn : Txns \cup {NoTxn}]

ASSUME NothingAssumption ==
  /\ NoRow \notin Row /\ NoReq \notin Reqs /\ NoTxn \notin Txns
  /\ Nobody \notin Threads /\ NoUrl \notin Urls

\* Where a provider built by get_provider sends: "exposed" is a public URL used
\* without the public-host check, "refused" a private URL in a cloud mode.
Targets == {"none", "device", "exposed", "cloud", "refused"}

ApprovePcs == {"a_gate", "a_provider", "a_send", "a_commit"}
WorkerPcs == {"w_next", "w_gate", "w_send", "w_commit"}
StartPcs == {"s_reserve", "s_commit"}
DirectPcs == {"c_provider", "c_gate", "i_provider", "d_flush", "d_send", "d_commit"}

Call == [pc : {"idle"} \cup ApprovePcs \cup WorkerPcs \cup StartPcs \cup DirectPcs,
         req : Reqs \cup {NoReq},
         txn : Txns \cup {NoTxn},
         seen : PRIVACY_MODES \cup {"unread"},  \* the privacy mode the handler has read
         target : Targets,
         reply : {"none", "ok", "error", "blocked"},
         queue : SUBSET Reqs,                   \* ids still to dispatch
         drop : SUBSET Reqs,                    \* ids to reject
         batch : SUBSET Reqs]                   \* the request_ids of run_cloud_batch

Idle == [pc |-> "idle", req |-> NoReq, txn |-> NoTxn, seen |-> "unread", target |-> "none",
         reply |-> "none", queue |-> {}, drop |-> {}, batch |-> {}]

Becomes(t, c) == call' = [call EXCEPT ![t] = c]
Free == {r \in Reqs : row[r] = NoRow}
Pending(r) == row[r] # NoRow /\ row[r].status = "pending"
Writable == lock = Nobody

-----------------------------------------------------------------------------
(* Settings and categories.                                                *)

\* PATCH /settings commits the privacy mode, then the URL: one commit each.
SaveMode(m, u) ==
  /\ draft = NoUrl /\ Writable
  /\ mode' = m /\ draft' = u
  /\ UNCHANGED <<url, neverCloud, store, inflight, lock, call, history>>

SaveUrl ==
  /\ draft # NoUrl /\ Writable
  /\ url' = draft /\ draft' = NoUrl
  /\ UNCHANGED <<mode, neverCloud, store, inflight, lock, call, history>>

SaveUrlTimeout ==
  /\ draft # NoUrl /\ ~Writable
  /\ draft' = NoUrl
  /\ UNCHANGED <<mode, url, neverCloud, store, inflight, lock, call, history>>

\* The transaction a thread is working on.
TxnOf(t) == IF call[t].req \in Reqs /\ row[call[t].req] # NoRow THEN row[call[t].req].txn ELSE call[t].txn

PastGate == {"a_provider", "a_send", "w_send"}

\* The user moves a transaction into or out of a never-cloud category.
Recategorise(x) ==
  /\ Writable
  /\ neverCloud' = IF x \in neverCloud THEN neverCloud \ {x} ELSE neverCloud \cup {x}
  /\ late' = late \cup {t \in Threads : call[t].pc \in PastGate /\ TxnOf(t) = x}
  /\ UNCHANGED <<settings, store, inflight, lock, call, sent, unsaved>>

-----------------------------------------------------------------------------
(* The gates.                                                              *)

\* Mutant: the provider is built without looking at the off modes.
get_provider_OffIgnored ==
  IF url = "unset" THEN "none" ELSE IF url = "public" THEN "cloud" ELSE "device"

\* get_provider: which endpoint the settings, as they are now, lead to.
get_provider ==
  CASE mode \in OFF_MODES \/ url = "unset"       -> "none"
    [] mode \in CLOUD_MODES /\ url = "public"    -> "cloud"
    [] mode \in CLOUD_MODES /\ url = "local"     -> "refused"
    [] mode = "local_llm" /\ url = "public"      -> "exposed"
    [] mode = "local_llm" /\ url = "local"       -> "device"

Reached(target) == target \in {"device", "exposed", "cloud"}

\* _cloud_block_reason, under the mode the handler read earlier.
CloudBlocked(x, m) ==
  /\ m \in CLOUD_MODES
  /\ x \in neverCloud \/ (m = "cloud_auto" /\ x \in Sensitive)

\* Mutant: the staged request is re-validated against the mode only.
StagedBlocked_NoCategory(r) ==
  \/ mode \in OFF_MODES
  \/ row[r].staged \in CLOUD_MODES /\ mode \notin CLOUD_MODES

\* _staged_request_block_reason, under the current mode.
StagedBlocked(r) ==
  \/ mode \in OFF_MODES
  \/ row[r].staged \in CLOUD_MODES /\ mode \notin CLOUD_MODES
  \/ mode \in CLOUD_MODES /\ row[r].txn \in neverCloud

\* A payload goes out (or the provider refuses before any socket opens).
Dispatch(r, target, reply) ==
  /\ ~Reached(target) => reply = "error"
  /\ sent' = [sent EXCEPT ![r] = IF Reached(target) THEN (IF @ = 0 THEN 1 ELSE 2) ELSE @]

Outcome(reply) == IF reply = "ok" THEN "completed" ELSE "failed"

-----------------------------------------------------------------------------
(* Classifying one transaction, and extracting an image: the direct calls. *)

Classify(t, x) ==
  /\ call[t].pc = "idle" /\ mode \notin OFF_MODES
  /\ Becomes(t, [Idle EXCEPT !.pc = "c_provider", !.txn = x, !.seen = mode])
  /\ UNCHANGED <<settings, neverCloud, store, inflight, lock, history>>

ClassifyProvider(t) ==
  /\ call[t].pc = "c_provider"
  /\ Becomes(t, IF get_provider = "none" THEN Idle
                ELSE [call[t] EXCEPT !.pc = "c_gate", !.target = get_provider])
  /\ UNCHANGED <<settings, neverCloud, store, inflight, lock, history>>

ClassifyGate(t) ==
  /\ call[t].pc = "c_gate"
  /\ Becomes(t, IF CloudBlocked(call[t].txn, call[t].seen) THEN Idle
                ELSE [call[t] EXCEPT !.pc = "d_flush"])
  /\ UNCHANGED <<settings, neverCloud, store, inflight, lock, history>>

\* _require_vision: a raw image goes to an automatic cloud only if approved.
Image(t, approved) ==
  /\ call[t].pc = "idle" /\ mode \notin OFF_MODES
  /\ mode = "cloud_auto" => approved
  /\ Becomes(t, [Idle EXCEPT !.pc = "i_provider", !.seen = mode])
  /\ UNCHANGED <<settings, neverCloud, store, inflight, lock, history>>

ImageProvider(t) ==
  /\ call[t].pc = "i_provider"
  /\ Becomes(t, IF get_provider = "none" THEN Idle
                ELSE [call[t] EXCEPT !.pc = "d_flush", !.target = get_provider])
  /\ UNCHANGED <<settings, neverCloud, store, inflight, lock, history>>

NeedsApproval(t) == call[t].txn # NoTxn /\ call[t].seen = "cloud_manual"

\* cloud_manual: the payload is staged for approval, with its review item.
ClassifyStage(t) ==
  /\ call[t].pc = "d_flush" /\ NeedsApproval(t) /\ Writable
  /\ \E r \in Free :
       /\ row' = [row EXCEPT ![r] = [status |-> "pending", approval |-> "pending",
                                     staged |-> call[t].seen, txn |-> call[t].txn]]
       /\ openItem' = openItem \cup {r}
       /\ sent' = [sent EXCEPT ![r] = 0] /\ unsaved' = unsaved \ {r}
  /\ Becomes(t, Idle)
  /\ UNCHANGED <<settings, neverCloud, inflight, lock, late>>

\* Otherwise the audit row is flushed before the call goes out: the thread
\* holds the writer lock until the provider has answered.
DirectFlush(t) ==
  /\ call[t].pc = "d_flush" /\ ~NeedsApproval(t) /\ Writable
  /\ \E r \in Free :
       /\ Becomes(t, [call[t] EXCEPT !.pc = "d_send", !.req = r])
       /\ sent' = [sent EXCEPT ![r] = 0] /\ unsaved' = unsaved \ {r}
  /\ lock' = t
  /\ UNCHANGED <<settings, neverCloud, store, inflight, late>>

DirectTimeout(t) ==
  /\ call[t].pc = "d_flush" /\ ~Writable
  /\ Becomes(t, Idle)
  /\ UNCHANGED <<settings, neverCloud, store, inflight, lock, history>>

DirectSend(t, reply) ==
  /\ call[t].pc = "d_send"
  /\ Dispatch(call[t].req, call[t].target, reply)
  /\ Becomes(t, [call[t] EXCEPT !.pc = "d_commit", !.reply = reply])
  /\ UNCHANGED <<settings, neverCloud, store, inflight, lock, unsaved, late>>

\* classify_transaction and _run_image commit the row on success and on AIError.
DirectCommit(t) ==
  /\ call[t].pc = "d_commit"
  /\ row' = [row EXCEPT ![call[t].req] =
               [status |-> Outcome(call[t].reply),
                approval |-> IF call[t].txn # NoTxn /\ call[t].seen \in CLOUD_MODES
                             THEN "approved" ELSE "not_required",
                staged |-> call[t].seen, txn |-> call[t].txn]]
  /\ lock' = Nobody
  /\ Becomes(t, Idle)
  /\ UNCHANGED <<settings, neverCloud, openItem, inflight, history>>

-----------------------------------------------------------------------------
(* Approving and rejecting one staged request.                             *)

\* run_request, on the row the route has just loaded.
Approve(t, r) ==
  /\ call[t].pc = "idle" /\ Pending(r)
  /\ Becomes(t, [Idle EXCEPT !.pc = "a_gate", !.req = r])
  /\ UNCHANGED <<settings, neverCloud, store, inflight, lock, history>>

ApproveGate(t) ==
  /\ call[t].pc = "a_gate"
  /\ Becomes(t, IF StagedBlocked(call[t].req) THEN Idle ELSE [call[t] EXCEPT !.pc = "a_provider"])
  /\ late' = late \ {t}
  /\ UNCHANGED <<settings, neverCloud, store, inflight, lock, sent, unsaved>>

ApproveProvider(t) ==
  /\ call[t].pc = "a_provider"
  /\ Becomes(t, IF get_provider = "none" THEN Idle
                ELSE [call[t] EXCEPT !.pc = "a_send", !.target = get_provider])
  /\ UNCHANGED <<settings, neverCloud, store, inflight, lock, history>>

ApproveSend(t, reply) ==
  /\ call[t].pc = "a_send"
  /\ Dispatch(call[t].req, call[t].target, reply)
  /\ Becomes(t, [call[t] EXCEPT !.pc = "a_commit", !.reply = reply])
  /\ UNCHANGED <<settings, neverCloud, store, inflight, lock, unsaved, late>>

\* Mutant: a provider error leaves the row as it was.
Settle_ErrorForgotten(r, reply) ==
  row' = IF reply = "ok" THEN [row EXCEPT ![r] = [@ EXCEPT !.status = "completed", !.approval = "approved"]]
         ELSE row

\* Mutant: the approval is recorded, the status is not.
Settle_StatusForgotten(r, reply) == row' = [row EXCEPT ![r] = [@ EXCEPT !.approval = "approved"]]

Settle(r, reply) ==
  row' = [row EXCEPT ![r] = [@ EXCEPT !.status = Outcome(reply), !.approval = "approved"]]

\* Mutant: the review item is resolved before the outcome is known.
ApproveCommit_AlwaysResolves(t) ==
  /\ call[t].pc = "a_commit" /\ Writable
  /\ Settle(call[t].req, call[t].reply)
  /\ openItem' = openItem \ {call[t].req}
  /\ Becomes(t, Idle)
  /\ UNCHANGED <<settings, neverCloud, inflight, lock, history>>

\* The review item is resolved on success only.
ApproveCommit(t) ==
  /\ call[t].pc = "a_commit" /\ Writable
  /\ Settle(call[t].req, call[t].reply)
  /\ openItem' = IF call[t].reply = "ok" THEN openItem \ {call[t].req} ELSE openItem
  /\ Becomes(t, Idle)
  /\ UNCHANGED <<settings, neverCloud, inflight, lock, history>>

ApproveTimeout(t) ==
  /\ call[t].pc = "a_commit" /\ ~Writable
  /\ unsaved' = unsaved \cup {call[t].req}
  /\ Becomes(t, Idle)
  /\ UNCHANGED <<settings, neverCloud, store, inflight, lock, sent, late>>

\* reject_request looks at no status: load, overwrite, commit.
Reject(t, r) ==
  /\ call[t].pc = "idle" /\ row[r] # NoRow /\ Writable
  /\ row' = [row EXCEPT ![r] = [@ EXCEPT !.status = "rejected", !.approval = "rejected"]]
  /\ openItem' = openItem \ {r}
  /\ UNCHANGED <<settings, neverCloud, inflight, lock, call, history>>

\* The user closes the review item by hand (PATCH /review, bulk resolve).
DismissItem(t, r) ==
  /\ call[t].pc = "idle" /\ r \in openItem /\ Writable
  /\ openItem' = openItem \ {r}
  /\ UNCHANGED <<settings, neverCloud, row, inflight, lock, call, history>>

-----------------------------------------------------------------------------
(* The cloud batch: prepare, start, and the background worker.             *)

\* cloud_batch_prepare stages one pending row per selected transaction.
Prepare ==
  /\ mode \in CLOUD_MODES /\ get_provider # "none" /\ Writable
  /\ \E new \in SUBSET Free \ {{}} : \E of \in Injection(new, Txns) :
       /\ row' = [r \in Reqs |-> IF r \in new
                                 THEN [status |-> "pending", approval |-> "pending",
                                       staged |-> mode, txn |-> of[r]]
                                 ELSE row[r]]
       /\ sent' = [r \in Reqs |-> IF r \in new THEN 0 ELSE sent[r]]
       /\ unsaved' = unsaved \ new
  /\ UNCHANGED <<settings, neverCloud, openItem, inflight, lock, call, late>>

\* The ids a panel can hold: it has them from a reply of cloud_batch_prepare.
Staged == {r \in Reqs : row[r] # NoRow /\ row[r].approval # "not_required"}

Reserving(t) == call[t].pc = "s_reserve"

\* Mutant: the ids already being dispatched are not filtered out.
Start_NoInflightFilter(t, approve, reject) ==
  /\ call[t].pc = "idle" /\ get_provider # "none"
  /\ OneSender => \A u \in Starters : ~Reserving(u)
  /\ Becomes(t, [Idle EXCEPT !.pc = "s_reserve", !.drop = reject,
                   !.queue = {r \in approve : Pending(r)}])
  /\ UNCHANGED <<settings, neverCloud, store, inflight, lock, history>>

\* cloud_batch_start, up to _dispatchable_ids.
Start(t, approve, reject) ==
  /\ call[t].pc = "idle" /\ get_provider # "none"
  /\ OneSender => \A u \in Starters : ~Reserving(u)
  /\ Becomes(t, [Idle EXCEPT !.pc = "s_reserve", !.drop = reject,
                   !.queue = {r \in approve : r \notin inflight /\ Pending(r)}])
  /\ UNCHANGED <<settings, neverCloud, store, inflight, lock, history>>

\* The reservation, and the reads of _reject_pending.
StartReserve(t) ==
  /\ Reserving(t)
  /\ inflight' = inflight \cup call[t].queue
  /\ Becomes(t, [call[t] EXCEPT !.pc = "s_commit", !.batch = call[t].queue,
                   !.drop = {r \in call[t].drop : Pending(r)}])
  /\ UNCHANGED <<settings, neverCloud, store, lock, history>>

StartCommit(t) ==
  /\ call[t].pc = "s_commit" /\ (call[t].drop = {} \/ Writable)
  /\ row' = [r \in Reqs |-> IF r \in call[t].drop
                            THEN [row[r] EXCEPT !.status = "rejected", !.approval = "rejected"]
                            ELSE row[r]]
  /\ Becomes(t, [call[t] EXCEPT !.pc = "w_next", !.drop = {}])
  /\ UNCHANGED <<settings, neverCloud, openItem, inflight, lock, history>>

\* The commit fails: no background task is added, the ids stay reserved.
StartTimeout(t) ==
  /\ call[t].pc = "s_commit" /\ call[t].drop # {} /\ ~Writable
  /\ Becomes(t, Idle)
  /\ UNCHANGED <<settings, neverCloud, store, inflight, lock, history>>

\* run_cloud_batch: a fresh session per item; the provider is built first.
WorkerTake(t) ==
  /\ call[t].pc = "w_next"
  /\ \E r \in call[t].queue :
       Becomes(t, [call[t] EXCEPT !.pc = "w_gate", !.req = r, !.target = get_provider])
  /\ UNCHANGED <<settings, neverCloud, store, inflight, lock, history>>

\* Mutant: an item that is no longer pending is taken again and again.
NextItem_Retried(t) == [call[t] EXCEPT !.pc = "w_next", !.req = NoReq, !.target = "none", !.reply = "none"]

NextItem(t) == [call[t] EXCEPT !.pc = "w_next", !.req = NoReq, !.target = "none", !.reply = "none",
                  !.queue = @ \ {call[t].req}]

\* _send_one_approved finds the row no longer pending: nothing to write.
WorkerSkip(t) ==
  /\ call[t].pc = "w_gate" /\ ~Pending(call[t].req)
  /\ inflight' = inflight \ {call[t].req}
  /\ Becomes(t, NextItem(t))
  /\ UNCHANGED <<settings, neverCloud, store, lock, history>>

WorkerGate(t) ==
  /\ call[t].pc = "w_gate" /\ Pending(call[t].req)
  /\ Becomes(t, IF StagedBlocked(call[t].req)
                THEN [call[t] EXCEPT !.pc = "w_commit", !.reply = "blocked"]
                ELSE [call[t] EXCEPT !.pc = "w_send"])
  /\ late' = late \ {t}
  /\ UNCHANGED <<settings, neverCloud, store, inflight, lock, sent, unsaved>>

WorkerSend(t, reply) ==
  /\ call[t].pc = "w_send"
  /\ Dispatch(call[t].req, call[t].target, reply)
  /\ Becomes(t, [call[t] EXCEPT !.pc = "w_commit", !.reply = reply])
  /\ UNCHANGED <<settings, neverCloud, store, inflight, lock, unsaved, late>>

\* A blocked row is marked failed and keeps its approval status.
WorkerCommit(t) ==
  /\ call[t].pc = "w_commit" /\ Writable
  /\ IF call[t].reply = "blocked"
     THEN row' = [row EXCEPT ![call[t].req] = [@ EXCEPT !.status = "failed"]]
     ELSE Settle(call[t].req, call[t].reply)
  /\ inflight' = inflight \ {call[t].req}
  /\ Becomes(t, NextItem(t))
  /\ UNCHANGED <<settings, neverCloud, openItem, lock, history>>

\* The commit fails: the error is logged, the id released all the same.
WorkerTimeout(t) ==
  /\ call[t].pc = "w_commit" /\ ~Writable
  /\ unsaved' = unsaved \cup {call[t].req}
  /\ inflight' = inflight \ {call[t].req}
  /\ Becomes(t, NextItem(t))
  /\ UNCHANGED <<settings, neverCloud, store, lock, sent, late>>

\* The finally clause releases every id of the batch once more.
WorkerDone(t) ==
  /\ call[t].pc = "w_next" /\ call[t].queue = {}
  /\ inflight' = inflight \ call[t].batch
  /\ Becomes(t, Idle)
  /\ UNCHANGED <<settings, neverCloud, store, lock, history>>

-----------------------------------------------------------------------------
(* The process is restarted: memory and open transactions are gone.        *)
InDoubt == {call[t].req : t \in {u \in Threads : call[u].pc \in {"a_commit", "w_commit", "d_commit"}}}

Restart ==
  /\ MayCrash
  /\ call' = [t \in Threads |-> Idle]
  /\ inflight' = {} /\ lock' = Nobody /\ draft' = NoUrl
  /\ unsaved' = unsaved \cup InDoubt
  /\ UNCHANGED <<mode, url, neverCloud, store, sent, late>>

-----------------------------------------------------------------------------
Init ==
  /\ mode = "strict_local" /\ url = "unset" /\ draft = NoUrl
  /\ neverCloud = {}
  /\ row = [r \in Reqs |-> NoRow] /\ openItem = {}
  /\ inflight = {} /\ lock = Nobody
  /\ call = [t \in Threads |-> Idle]
  /\ sent = [r \in Reqs |-> 0] /\ unsaved = {} /\ late = {}

DirectStep(t) ==
  \/ ClassifyProvider(t) \/ ClassifyGate(t) \/ ImageProvider(t) \/ ClassifyStage(t)
  \/ DirectFlush(t) \/ DirectTimeout(t) \/ DirectCommit(t)
  \/ \E reply \in Replies : DirectSend(t, reply)

ApproveStep(t) ==
  \/ ApproveGate(t) \/ ApproveProvider(t) \/ ApproveCommit(t) \/ ApproveTimeout(t)
  \/ \E reply \in Replies : ApproveSend(t, reply)

BatchStep(t) ==
  \/ StartReserve(t) \/ StartCommit(t) \/ StartTimeout(t)
  \/ WorkerTake(t) \/ WorkerSkip(t) \/ WorkerGate(t) \/ WorkerCommit(t) \/ WorkerTimeout(t)
  \/ WorkerDone(t)
  \/ \E reply \in Replies : WorkerSend(t, reply)

UserStep ==
  \/ \E p \in Profiles : SaveMode(p[1], p[2])
  \/ \E x \in Moves : Recategorise(x)
  \/ \E t \in Approvers : \E r \in Reqs : Reject(t, r) \/ DismissItem(t, r)
  \/ Prepare
  \/ \E t \in Directs : \E x \in Txns : Classify(t, x)
  \/ \E t \in Directs : \E approved \in BOOLEAN : Image(t, approved)
  \/ \E t \in Approvers : \E r \in Reqs : Approve(t, r)
  \/ \E t \in Starters : \E approve \in SUBSET Staged :
       \E reject \in SUBSET (Staged \ approve) :
         approve \cup reject # {} /\ Start(t, approve, reject)

Next ==
  \/ UserStep
  \/ SaveUrl \/ SaveUrlTimeout
  \/ \E t \in Directs : DirectStep(t)
  \/ \E t \in Approvers : ApproveStep(t)
  \/ \E t \in Starters : BatchStep(t)
  \/ Restart

Spec == Init /\ [][Next]_vars

\* A handler that has started runs on: the provider call has a timeout, and a
\* wait for the writer lock ends with the lock or with busy_timeout.
Fairness ==
  /\ \A t \in Directs : WF_vars(DirectStep(t))
  /\ \A t \in Approvers : WF_vars(ApproveStep(t))
  /\ \A t \in Starters : WF_vars(BatchStep(t))
  /\ WF_vars(SaveUrl \/ SaveUrlTimeout)

FairSpec == Spec /\ Fairness
-----------------------------------------------------------------------------
(* Properties.                                                             *)

\* Every variable keeps its type.
TypeOK ==
  /\ mode \in PRIVACY_MODES /\ url \in Urls /\ draft \in Urls \cup {NoUrl}
  /\ neverCloud \subseteq Txns
  /\ row \in [Reqs -> Row \cup {NoRow}]
  /\ openItem \subseteq Reqs /\ inflight \subseteq Reqs
  /\ lock \in Threads \cup {Nobody}
  /\ call \in [Threads -> Call]
  /\ sent \in [Reqs -> 0..2]
  /\ unsaved \subseteq Reqs /\ late \subseteq Threads

\* The threads that will send without looking at the privacy mode again.
ClearedPcs == {"a_send", "w_send", "c_gate", "d_flush", "d_send"}
Cleared == {t \in Threads : call[t].pc \in ClearedPcs}

\* The request a call has sent, or decided not to send, and whose outcome it must write.
CommitPcs == {"a_commit", "w_commit", "d_commit"}
Owes(c) == IF c.pc \in CommitPcs THEN {c.req} ELSE {}

\* The requests a call is to send: its one request, or the rest of its batch.
SinglePcs == {"a_gate", "a_provider", "a_send", "d_send"}
QueuePcs == StartPcs \cup WorkerPcs
ToSend(c) ==
  CASE c.pc \in SinglePcs -> {c.req}
    [] c.pc \in QueuePcs -> c.queue \ Owes(c)
    [] OTHER -> {}

\* The gateway as Consent sees it.
Told == {p \in Threads \X Reqs : p[2] \in ToSend(call[p[1]])}
Owed == {p \in Threads \X Reqs : p[2] \in Owes(call[p[1]])}
Open == {r \in Reqs : Pending(r)}
Closed == {r \in Reqs : row[r] # NoRow /\ ~Pending(r)}
Gone == {r \in Reqs : sent[r] > 0}

Promise ==
  INSTANCE Consent WITH
    on <- mode \notin OFF_MODES, cleared <- Cleared, told <- Told, owes <- Owed,
    open <- Open, closed <- Closed, gone <- Gone, lost <- unsaved

\* A payload leaves the device only through a thread that passed its gate while AI
\* was on, and only for a request the user sent there while it was open, or for one
\* the call itself put on record first; the call then writes the outcome on the row
\* before it does anything else (the gates of run_request, _send_one_approved,
\* classify_transaction and _require_vision, with get_provider's own reading of the
\* mode; _audit, _audit_image, _run).
ConsentKept == Promise!Spec

\* In particular: once the user has turned AI off, no further call gets past its
\* gate while it stays off; what may still leave is what had passed before.
SwitchOffDrains == [][(mode \in OFF_MODES) => Cleared' \subseteq Cleared]_vars

\* A staged payload about to go to the cloud is about no transaction in a
\* never-cloud category, unless the user moved it there after the call's gate
\* (_staged_request_block_reason, re-run at send time on both send paths).
NeverCloudHonoured ==
  \A t \in Approvers \cup Starters :
    /\ call[t].pc \in {"a_send", "w_send"}
    /\ call[t].target = "cloud"
    /\ TxnOf(t) \in neverCloud
    => t \in late

\* A payload that has left has its outcome on its audit row, or a thread is
\* about to write it, or that write was lost (a failed commit, a restart): no
\* interleaving of approvals, batches and rejections puts a sent row back.
SentIsRecorded ==
  \A r \in Reqs :
    sent[r] > 0 /\ (row[r] = NoRow \/ Pending(r)) =>
      r \in unsaved \cup InDoubt

\* While one browser panel sends, no request is queued on two background
\* workers, except one whose outcome an earlier worker failed to commit
\* (_inflight_batch_ids, reserved in cloud_batch_start, released by the worker).
Queued(t) == IF call[t].pc \in WorkerPcs THEN call[t].queue ELSE {}
BatchExclusive ==
  \A t, u \in Starters : t # u => Queued(t) \cap Queued(u) \subseteq unsaved

\* An approval waiting in the review queue leaves it only by the user's own hand,
\* or in the very commit that completes or rejects the request: a failed send, a
\* blocked batch item or a lost commit leave it (review_service.resolve_for).
ApprovalItemKept ==
  [][\A r \in openItem \ openItem' :
       \/ row' = row /\ call' = call
       \/ row'[r].status \in {"completed", "rejected"}]_vars

\* The writer lock is held by exactly the direct call that has flushed its audit
\* row and not yet committed it (_audit and _audit_image flush before the send).
LockHeldAcrossSend ==
  \A t \in Threads : (lock = t) <=> (call[t].pc \in {"d_send", "d_commit"})

\* Whatever a background worker has taken on is released, and by then the request
\* has an outcome or its commit has failed: the panel that polls
\* cloud_batch_status sees the batch end.
TakenOn(r) == \E t \in Starters : call[t].pc \in WorkerPcs /\ r \in call[t].batch
BatchSettles ==
  \A r \in Reqs : TakenOn(r) ~> (r \notin inflight /\ (Pending(r) => r \in unsaved))

\* Every call ends, whatever the provider and the writer lock do (or the bounded
\* instance has run out of row ids).
CallsEnd == \A t \in Threads : call[t].pc # "idle" ~> (call[t].pc = "idle" \/ Free = {})
=============================================================================
