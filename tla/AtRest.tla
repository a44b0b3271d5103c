-------------------------------- MODULE AtRest --------------------------------
(***************************************************************************)
(* At-rest encryption and restore: services/security_service.py,           *)
(* services/backup_service.py (restore), db/session.py and the lifespan    *)
(* of main.py.                                                             *)
(*                                                                         *)
(* What is on disk: the database file and its -wal, the two export         *)
(* targets, the .bak copy, the marker encryption.json and the key file.    *)
(* What is in memory: the engine, its pool of connections and the locked   *)
(* flag.  A connection is to an inode: after os.replace it goes on reading *)
(* and writing the file that was there when it was opened.  enable,        *)
(* disable and unlock are sync routes, run by threads beside the requests; *)
(* restore is an async route and keeps the event loop to itself, so that   *)
(* no request starts while it runs, but those in flight go on.             *)
(***************************************************************************)
EXTENDS Naturals, FiniteSets

CONSTANTS
  Admins,      \* threads that serve the security and restore routes
  Requests,    \* threads that serve data requests
  Keys,        \* passphrases
  Inodes,      \* files that may be the database file
  Writes,      \* the changes requests commit, each at most once
  Modes,       \* the unlock modes the owner chooses: a set of "prompt", "stored"
  EnvKey,      \* HAFI_DB_KEY, or NoKey
  Days,        \* what a behaviour allows: see Day
  NoKey, NoFile, NoInode

ASSUME KeysAssumption == EnvKey \in Keys \cup {NoKey} /\ NoKey \notin Keys
ASSUME NamesAssumption == (Keys \cup {NoKey}) \cap {"plain", "junk", "none"} = {}
ASSUME ChoicesAssumption == Modes \subseteq {"prompt", "stored"}

Day == [oneAdmin : BOOLEAN,  \* one security or restore call at a time
        quiet : BOOLEAN,     \* no data request runs beside a security or restore call
        stops : BOOLEAN,     \* the process may stop at any point and is started again
        upgrades : BOOLEAN,  \* it may be started again as a newer version
        failures : BOOLEAN,  \* exports may come out bad, the disk may fill, a migration may fail
        uploads : SUBSET {"head", "old"}]  \* the schema of the backups the owner restores

ASSUME DaysAssumption == Days \subseteq Day

VARIABLES
  may,      \* the member of Days this behaviour is one of
  file,     \* the inodes: what each database file holds
  path,     \* the inode at settings.database_file
  wal,      \* the -wal beside it: whose it is, and the changes only it holds
  tmp,      \* the export targets .enctmp and .plaintmp
  bak,      \* the .bak copy
  marker,   \* the unlock mode in encryption.json, or "none"
  keyFile,  \* the passphrase in .db_key, or NoKey
  engine,   \* what the engine opens files with: "plain", a key, or "none"
  locked,   \* _locked
  up,       \* FALSE: startup has refused to serve
  pool,     \* the inodes of the idle connections in the engine's pool
  admin,    \* what each admin thread is doing
  req,      \* what each data request is doing
  acked,    \* history: changes whose commit was acknowledged
  kept,     \* history: those of acked committed to the database file while no export of it was running
  before,   \* history: what the last restore has replaced
  crossed   \* history: a new file was opened beside the -wal and connections of the old one

disk == <<file, path, wal, tmp, bak>>
secrets == <<marker, keyFile>>
memory == <<engine, locked, up, pool>>
history == <<acked, kept, before, crossed>>
vars == <<may, disk, secrets, memory, admin, req, history>>

File == [enc : {"plain", "junk"} \cup Keys, rows : SUBSET Writes, schema : {"head", "old"}]

ASSUME NothingAssumption == NoFile \notin File /\ NoInode \notin Inodes

RestorePcs == {"r_quiesce", "r_bak", "r_swap", "r_wal", "r_marker", "r_key", "r_configure"}

\* A security call: where it is, its passphrase, its key mode, the schema it restores.
AtRest == [pc |-> "idle", key |-> NoKey, mode |-> "none", schema |-> "head"]
\* A data request: the inode its connection is open to, what its session's engine opens
\* files with, and whether the connection goes back to the pool in use.
NoReq == [pc |-> "idle", inode |-> NoInode, key |-> "none", current |-> FALSE]

AdminsIdle == \A a \in Admins : admin[a].pc = "idle"
RequestsIdle == \A q \in Requests : req[q].pc = "idle"

\* restore_database is called on the event loop itself.
LoopFree == \A a \in Admins : admin[a].pc \notin RestorePcs

MayBegin == up /\ LoopFree /\ (may.oneAdmin => AdminsIdle) /\ (may.quiet => RequestsIdle)

\* require_owner has read the owner's row: the engine opens the file.
OwnerSeen == ~locked /\ engine = file[path].enc

Step(a, next) == admin' = [admin EXCEPT ![a].pc = next]
Abort(a) == admin' = [admin EXCEPT ![a] = AtRest]

\* The inodes some connection is open to, given the pool and the requests.
Open(p, rs) == p \cup {rs[q].inode : q \in Requests}

\* SQLite checkpoints and deletes the -wal when its last connection closes.
WalAfter(p, rs) ==
  IF wal.of \in Open(p, rs) THEN wal ELSE [of |-> path, rows |-> {}]

\* engine.dispose(): idle connections close, the ones in use will not come back.
Dispose ==
  /\ pool' = {}
  /\ req' = [q \in Requests |-> [req[q] EXCEPT !.current = FALSE]]
  /\ wal' = WalAfter({}, req)

\* Mutant: the locked flag is not taken back.
Configure_FlagKept(key) == engine' = key /\ locked' = locked /\ Dispose

\* dbsession.configure.
Configure(key) == engine' = key /\ locked' = FALSE /\ Dispose

\* dbsession.lock.
Lock == engine' = "none" /\ locked' = TRUE /\ Dispose

-----------------------------------------------------------------------------
(* Data requests.                                                          *)

\* _lock_guard and get_db, then SessionLocal().
RequestOpen(q) ==
  /\ req[q].pc = "idle" /\ up /\ ~locked /\ LoopFree
  /\ may.quiet => AdminsIdle
  /\ req' = [req EXCEPT ![q] = [pc |-> "open", inode |-> NoInode, key |-> engine, current |-> TRUE]]
  /\ UNCHANGED <<disk, secrets, memory, admin, history>>

\* The session's first query takes an idle connection of the pool.
RequestReuse(q) ==
  /\ req[q].pc = "open" /\ req[q].current
  /\ \E i \in pool : req' = [req EXCEPT ![q].pc = "connected", ![q].inode = i]
  /\ UNCHANGED <<disk, secrets, memory, admin, history>>

\* A -wal left by another file is replayed over this one: it may be ruined.
Opened ==
  IF wal.of # path /\ wal.rows # {}
  THEN {file[path], [file[path] EXCEPT !.enc = "junk"]}
  ELSE {file[path]}

\* A new file has taken the path, the -wal of the one it replaced is still beside it,
\* and so are connections to that one.
Crossing ==
  /\ \E a \in Admins : admin[a].pc \in {"e_wal", "d_wal", "r_wal"}
  /\ ~ Open(pool, req) \subseteq {path, NoInode}

\* Or it opens a connection of its own, to the file at the path now.
RequestConnect(q) ==
  /\ req[q].pc = "open" /\ req[q].key = file[path].enc
  /\ \E f \in Opened : file' = [file EXCEPT ![path] = f]
  /\ wal' = IF wal.of = path THEN wal ELSE [of |-> path, rows |-> {}]
  /\ crossed' = (crossed \/ Crossing)
  /\ req' = [req EXCEPT ![q].pc = "connected", ![q].inode = path]
  /\ UNCHANGED <<path, tmp, bak, secrets, memory, admin, acked, kept, before>>

\* The file does not open with the session's key: HTTP 500.
RequestFail(q) ==
  /\ req[q].pc = "open" /\ req[q].key # file[path].enc
  /\ req' = [req EXCEPT ![q] = NoReq]
  /\ UNCHANGED <<disk, secrets, memory, admin, history>>

\* An export of the database file is on its way to replace it.
Exporting == \E a \in Admins : admin[a].pc \in {"e_verify", "e_swap", "d_swap"}

RequestCommit(q, x) ==
  /\ req[q].pc = "connected" /\ x \notin acked
  /\ LET i == req[q].inode IN
       /\ file' = [file EXCEPT ![i].rows = @ \cup {x}]
       /\ wal' = IF wal.of = i THEN [wal EXCEPT !.rows = @ \cup {x}] ELSE wal
       /\ kept' = IF i = path /\ ~Exporting THEN kept \cup {x} ELSE kept
  /\ acked' = acked \cup {x}
  /\ req' = [req EXCEPT ![q].pc = "answered"]
  /\ UNCHANGED <<path, tmp, bak, secrets, memory, admin, before, crossed>>

\* db.close(): the connection returns to its pool, or closes with a disposed one.
RequestClose(q) ==
  /\ req[q].pc \in {"connected", "answered"}
  /\ req' = [req EXCEPT ![q] = NoReq]
  /\ pool' = IF req[q].current THEN pool \cup {req[q].inode} ELSE pool
  /\ wal' = WalAfter(pool', req')
  /\ UNCHANGED <<file, path, tmp, bak, secrets, engine, locked, up, admin, history>>

-----------------------------------------------------------------------------
(* Steps the security and restore calls share.                             *)

\* os.replace: another inode takes the path.  Inodes nobody has open are gone.
Replace(f) ==
  \E i \in Inodes \ (Open(pool, req) \cup {path}) :
    /\ path' = i
    /\ file' = [j \in Inodes |-> IF j = i THEN f
                                 ELSE IF j \in Open(pool, req) THEN file[j] ELSE NoFile]

\* Mutant: the -wal of the replaced file stays.
DropWal_Left(a, at, next) ==
  /\ admin[a].pc = at
  /\ Step(a, next)
  /\ UNCHANGED <<disk, secrets, memory, req, history>>

\* The -wal and -shm are unlinked by name.
DropWal(a, at, next) ==
  /\ admin[a].pc = at
  /\ wal' = [of |-> path, rows |-> {}]
  /\ Step(a, next)
  /\ UNCHANGED <<file, path, tmp, bak, secrets, memory, req, history>>

DeleteMarker(a, at, next) ==
  /\ admin[a].pc = at
  /\ marker' = "none"
  /\ Step(a, next)
  /\ UNCHANGED <<disk, keyFile, memory, req, history>>

ClearKey(a, at, next) ==
  /\ admin[a].pc = at
  /\ keyFile' = NoKey
  /\ Step(a, next)
  /\ UNCHANGED <<disk, marker, memory, req, history>>

ConfigurePlain(a, at) ==
  /\ admin[a].pc = at
  /\ Configure("plain")
  /\ Abort(a)
  /\ UNCHANGED <<file, path, tmp, bak, secrets, up, history>>

\* The export or the copy runs out of disk: the call ends with an error.
DiskFull(a) ==
  /\ may.failures /\ admin[a].pc \in {"e_export", "d_export", "r_bak", "r_swap"}
  /\ Abort(a)
  /\ UNCHANGED <<disk, secrets, memory, req, history>>

-----------------------------------------------------------------------------
(* enable_encryption.                                                      *)

EnableStart(a, key, mode) ==
  /\ admin[a].pc = "idle" /\ MayBegin /\ OwnerSeen /\ marker = "none"
  /\ admin' = [admin EXCEPT ![a] = [pc |-> "e_export", key |-> key, mode |-> mode, schema |-> "head"]]
  /\ tmp' = [tmp EXCEPT !.enc = NoFile]
  /\ Dispose
  /\ UNCHANGED <<file, path, bak, secrets, engine, locked, up, history>>

\* Mutant: the main file is copied, without what only the -wal holds.
EnableExport_FileCopy(a) ==
  /\ admin[a].pc = "e_export" /\ file[path].enc = "plain" /\ tmp.enc = NoFile
  /\ tmp' = [tmp EXCEPT !.enc = [file[path] EXCEPT !.enc = admin[a].key, !.rows = @ \ wal.rows]]
  /\ Step(a, "e_verify")
  /\ UNCHANGED <<file, path, wal, bak, secrets, memory, req, history>>

EnableExport(a) ==
  /\ admin[a].pc = "e_export" /\ file[path].enc = "plain" /\ tmp.enc = NoFile
  /\ \E enc \in {admin[a].key} \cup (IF may.failures THEN {"junk"} ELSE {}) :
       tmp' = [tmp EXCEPT !.enc = [file[path] EXCEPT !.enc = enc]]
  /\ Step(a, "e_verify")
  /\ UNCHANGED <<file, path, wal, bak, secrets, memory, req, history>>

\* The file is no longer plaintext, or the target has tables already.
EnableExportFails(a) ==
  /\ admin[a].pc = "e_export" /\ (file[path].enc # "plain" \/ tmp.enc # NoFile)
  /\ Abort(a)
  /\ UNCHANGED <<disk, secrets, memory, req, history>>

\* Mutant: the copy is moved into place before anything opens it.
EnableVerify_Skipped(a) ==
  /\ admin[a].pc = "e_verify"
  /\ Step(a, "e_swap")
  /\ UNCHANGED <<disk, secrets, memory, req, history>>

\* _passphrase_opens on the copy; opening a file that is not there creates an
\* empty database, which opens with any passphrase.
EnableVerify(a) ==
  /\ admin[a].pc = "e_verify"
  /\ LET copy == IF tmp.enc = NoFile
                 THEN [enc |-> admin[a].key, rows |-> {}, schema |-> "old"] ELSE tmp.enc
     IN  IF copy.enc = admin[a].key
         THEN tmp' = [tmp EXCEPT !.enc = copy] /\ Step(a, "e_swap")
         ELSE tmp' = [tmp EXCEPT !.enc = NoFile] /\ Abort(a)
  /\ UNCHANGED <<file, path, wal, bak, secrets, memory, req, history>>

EnableSwap(a) ==
  /\ admin[a].pc = "e_swap" /\ tmp.enc # NoFile
  /\ Replace(tmp.enc)
  /\ tmp' = [tmp EXCEPT !.enc = NoFile]
  /\ Step(a, "e_wal")
  /\ UNCHANGED <<wal, bak, secrets, memory, req, history>>

EnableSwapFails(a) ==
  /\ admin[a].pc = "e_swap" /\ tmp.enc = NoFile
  /\ Abort(a)
  /\ UNCHANGED <<disk, secrets, memory, req, history>>

EnableMarker(a) ==
  /\ admin[a].pc = "e_marker"
  /\ marker' = admin[a].mode
  /\ Step(a, "e_key")
  /\ UNCHANGED <<disk, keyFile, memory, req, history>>

\* save_stored_key, or clear_stored_key.
EnableKey(a) ==
  /\ admin[a].pc = "e_key"
  /\ keyFile' = IF admin[a].mode = "stored" /\ EnvKey = NoKey THEN admin[a].key ELSE NoKey
  /\ Step(a, "e_configure")
  /\ UNCHANGED <<disk, marker, memory, req, history>>

\* Mutant: the old plaintext engine stays.
EnableConfigure_Forgotten(a) ==
  /\ admin[a].pc = "e_configure"
  /\ Abort(a)
  /\ UNCHANGED <<disk, secrets, memory, req, history>>

EnableConfigure(a) ==
  /\ admin[a].pc = "e_configure"
  /\ Configure(admin[a].key)
  /\ Abort(a)
  /\ UNCHANGED <<file, path, tmp, bak, secrets, up, history>>

-----------------------------------------------------------------------------
(* disable_encryption.                                                     *)

DisableStart(a, key) ==
  /\ admin[a].pc = "idle" /\ MayBegin /\ OwnerSeen /\ marker # "none"
  /\ file[path].enc = key
  /\ admin' = [admin EXCEPT ![a] = [AtRest EXCEPT !.pc = "d_export", !.key = key]]
  /\ tmp' = [tmp EXCEPT !.plain = NoFile]
  /\ Dispose
  /\ UNCHANGED <<file, path, bak, secrets, engine, locked, up, history>>

DisableExport(a) ==
  /\ admin[a].pc = "d_export" /\ file[path].enc = admin[a].key /\ tmp.plain = NoFile
  /\ tmp' = [tmp EXCEPT !.plain = [file[path] EXCEPT !.enc = "plain"]]
  /\ Step(a, "d_swap")
  /\ UNCHANGED <<file, path, wal, bak, secrets, memory, req, history>>

DisableExportFails(a) ==
  /\ admin[a].pc = "d_export" /\ (file[path].enc # admin[a].key \/ tmp.plain # NoFile)
  /\ Abort(a)
  /\ UNCHANGED <<disk, secrets, memory, req, history>>

DisableSwap(a) ==
  /\ admin[a].pc = "d_swap" /\ tmp.plain # NoFile
  /\ Replace(tmp.plain)
  /\ tmp' = [tmp EXCEPT !.plain = NoFile]
  /\ Step(a, "d_wal")
  /\ UNCHANGED <<wal, bak, secrets, memory, req, history>>

DisableSwapFails(a) ==
  /\ admin[a].pc = "d_swap" /\ tmp.plain = NoFile
  /\ Abort(a)
  /\ UNCHANGED <<disk, secrets, memory, req, history>>

-----------------------------------------------------------------------------
(* restore_database.                                                       *)

\* The upload has passed _validate_restore_candidate: it is a plaintext backup.
RestoreStart(a, schema) ==
  /\ admin[a].pc = "idle" /\ MayBegin /\ OwnerSeen
  /\ admin' = [admin EXCEPT ![a] = [AtRest EXCEPT !.pc = "r_quiesce", !.schema = schema]]
  /\ Dispose
  /\ UNCHANGED <<file, path, tmp, bak, secrets, engine, locked, up, history>>

\* _quiesce_database: a plaintext file is checkpointed, an encrypted one is not.
RestoreQuiesce(a) ==
  /\ admin[a].pc = "r_quiesce"
  /\ wal' = IF marker = "none" /\ wal.of = path THEN [wal EXCEPT !.rows = {}] ELSE wal
  /\ Step(a, "r_bak")
  /\ UNCHANGED <<file, path, tmp, bak, secrets, memory, req, history>>

\* Mutant: the copy is made only where the live file is plaintext.
RestoreBak_PlainOnly(a) ==
  /\ admin[a].pc = "r_bak"
  /\ bak' = IF marker = "none" THEN file[path] ELSE bak
  /\ before' = {}
  /\ Step(a, "r_swap")
  /\ UNCHANGED <<file, path, wal, tmp, secrets, memory, req, acked, kept, crossed>>

\* shutil.copy2 copies the main file, not what only the -wal holds.
RestoreBak(a) ==
  /\ admin[a].pc = "r_bak"
  /\ bak' = [file[path] EXCEPT !.rows = IF wal.of = path THEN @ \ wal.rows ELSE @]
  /\ before' = {}
  /\ Step(a, "r_swap")
  /\ UNCHANGED <<file, path, wal, tmp, secrets, memory, req, acked, kept, crossed>>

\* The backup is older than every change of this run.
RestoreSwap(a) ==
  /\ admin[a].pc = "r_swap"
  /\ Replace([enc |-> "plain", rows |-> {}, schema |-> admin[a].schema])
  /\ before' = file[path].rows /\ kept' = {}
  /\ Step(a, "r_wal")
  /\ UNCHANGED <<wal, tmp, bak, secrets, memory, req, acked, crossed>>

\* Mutant: the marker survives the restore.
RestoreMarker_Left(a) ==
  /\ admin[a].pc = "r_marker"
  /\ Step(a, "r_configure")
  /\ UNCHANGED <<disk, secrets, memory, req, history>>

\* Mutant: the stored key survives the restore.
RestoreMarker_KeyLeft(a) ==
  /\ admin[a].pc = "r_marker"
  /\ marker' = "none"
  /\ Step(a, "r_configure")
  /\ UNCHANGED <<disk, keyFile, memory, req, history>>

\* _reconcile_encryption_after_restore: with no marker there is no key to clear.
RestoreMarker(a) ==
  /\ admin[a].pc = "r_marker"
  /\ marker' = "none"
  /\ Step(a, IF marker = "none" THEN "r_configure" ELSE "r_key")
  /\ UNCHANGED <<disk, keyFile, memory, req, history>>

-----------------------------------------------------------------------------
(* unlock.                                                                 *)

\* verify_passphrase; a wrong one is recorded as a failed attempt and refused.
UnlockStart(a, key) ==
  /\ admin[a].pc = "idle" /\ MayBegin /\ file[path].enc = key
  /\ admin' = [admin EXCEPT ![a] = [AtRest EXCEPT !.pc = "u_configure", !.key = key]]
  /\ UNCHANGED <<disk, secrets, memory, req, history>>

UnlockConfigure(a) ==
  /\ admin[a].pc = "u_configure"
  /\ Configure(admin[a].key)
  /\ Step(a, "u_migrate")
  /\ UNCHANGED <<file, path, tmp, bak, secrets, up, history>>

\* _migrate_after_unlock, then create_all and the default categories.
UnlockMigrate(a) ==
  /\ admin[a].pc = "u_migrate" /\ engine = file[path].enc
  /\ file' = [file EXCEPT ![path].schema = "head"]
  /\ Abort(a)
  /\ UNCHANGED <<path, wal, tmp, bak, secrets, memory, req, history>>

UnlockMigrateFails(a) ==
  /\ admin[a].pc = "u_migrate" /\ (may.failures \/ engine # file[path].enc)
  /\ Lock
  /\ Abort(a)
  /\ UNCHANGED <<file, path, tmp, bak, secrets, up, history>>

-----------------------------------------------------------------------------
(* The process stops and starts again.                                     *)

\* resolve_stored_key: the environment wins over the key file.
StoredKey == IF EnvKey # NoKey THEN EnvKey ELSE keyFile

\* dbsession.init on the file f: what the engine opens it with.
InitialEngine(f) ==
  CASE marker = "none"                      -> "plain"
    [] marker # "none" /\ StoredKey = f.enc -> StoredKey
    [] OTHER                                -> "none"

\* The lifespan: init, and the migrations unless locked; if they fail the
\* process refuses to serve.
Restart(upgraded) ==
  /\ may.stops
  /\ \E f \in Opened :
       LET old == IF upgraded THEN [f EXCEPT !.schema = "old"] ELSE f
           key == InitialEngine(f)
           opens == key = f.enc
       IN  /\ file' = [i \in Inodes |-> IF i = path THEN IF opens THEN [old EXCEPT !.schema = "head"] ELSE old
                                        ELSE NoFile]
           /\ engine' = key /\ locked' = (key = "none")
           /\ up' = (key = "none" \/ opens)
  /\ wal' = [of |-> path, rows |-> {}]
  /\ pool' = {}
  /\ admin' = [a \in Admins |-> AtRest] /\ req' = [q \in Requests |-> NoReq]
  /\ crossed' = (crossed \/ Crossing)
  /\ UNCHANGED <<path, tmp, bak, secrets, acked, kept, before>>

-----------------------------------------------------------------------------
Empty == [enc |-> "plain", rows |-> {}, schema |-> "head"]

Init ==
  /\ may \in Days
  /\ path \in Inodes /\ file = [i \in Inodes |-> IF i = path THEN Empty ELSE NoFile]
  /\ wal = [of |-> path, rows |-> {}]
  /\ tmp = [enc |-> NoFile, plain |-> NoFile] /\ bak = NoFile
  /\ marker = "none" /\ keyFile = NoKey
  /\ engine = "plain" /\ locked = FALSE /\ up = TRUE /\ pool = {}
  /\ admin = [a \in Admins |-> AtRest] /\ req = [q \in Requests |-> NoReq]
  /\ acked = {} /\ kept = {} /\ before = {} /\ crossed = FALSE

EnableStep(a) ==
  \/ EnableExport(a) \/ EnableExportFails(a) \/ EnableVerify(a)
  \/ EnableSwap(a) \/ EnableSwapFails(a) \/ DropWal(a, "e_wal", "e_marker")
  \/ EnableMarker(a) \/ EnableKey(a) \/ EnableConfigure(a)

DisableStep(a) ==
  \/ DisableExport(a) \/ DisableExportFails(a) \/ DisableSwap(a) \/ DisableSwapFails(a)
  \/ DropWal(a, "d_wal", "d_marker") \/ DeleteMarker(a, "d_marker", "d_key")
  \/ ClearKey(a, "d_key", "d_configure") \/ ConfigurePlain(a, "d_configure")

RestoreStep(a) ==
  \/ RestoreQuiesce(a) \/ RestoreBak(a) \/ RestoreSwap(a)
  \/ DropWal(a, "r_wal", "r_marker") \/ RestoreMarker(a)
  \/ ClearKey(a, "r_key", "r_configure") \/ ConfigurePlain(a, "r_configure")

UnlockStep(a) == UnlockConfigure(a) \/ UnlockMigrate(a) \/ UnlockMigrateFails(a)

AdminStep(a) == EnableStep(a) \/ DisableStep(a) \/ RestoreStep(a) \/ UnlockStep(a) \/ DiskFull(a)

AdminBegin(a) ==
  \/ \E key \in Keys : \E mode \in Modes : EnableStart(a, key, mode)
  \/ \E key \in Keys : DisableStart(a, key) \/ UnlockStart(a, key)
  \/ \E schema \in may.uploads : RestoreStart(a, schema)

RequestStep(q) ==
  \/ RequestReuse(q) \/ RequestConnect(q) \/ RequestFail(q) \/ RequestClose(q)
  \/ \E x \in Writes : RequestCommit(q, x)

Next ==
  /\ \/ \E a \in Admins : AdminBegin(a) \/ AdminStep(a)
     \/ \E q \in Requests : RequestOpen(q) \/ RequestStep(q)
     \/ \E upgraded \in {FALSE, may.upgrades} : Restart(upgraded)
  /\ UNCHANGED may

Spec == Init /\ [][Next]_vars

\* A call that has begun runs on, and a household that is locked out tries its
\* passphrase again.
Fairness ==
  \A a \in Admins :
    /\ WF_vars(AdminStep(a) /\ UNCHANGED may)
    /\ WF_vars((\E key \in Keys : locked /\ UnlockStart(a, key)) /\ UNCHANGED may)

FairSpec == Spec /\ Fairness
-----------------------------------------------------------------------------
(* Properties.                                                             *)

\* A change committed to the database file before an export of it began, or
\* after the export took its place, is in the file at the path, and its passphrase
\* opens that file: through bad exports, full disks and failed migrations, wherever
\* the process is stopped, and whatever requests do meanwhile; unless a new connection
\* has found the -wal of a replaced file, which a request still wrote, not yet unlinked.
KeptSurvives == kept \subseteq file[path].rows /\ (file[path].enc # "junk" \/ crossed)

\* Between two security calls the keys fit the database file: the engine opens it with
\* what it is encrypted with, or the database is locked, or startup has refused to serve;
\* and, unless the process was stopped in a call, an encrypted file has its marker and a
\* plaintext file none, and the auto-unlock key is on disk only while the owner's choice
\* is "stored", and opens it (the order of os.replace, marker, key file and configure).
KeysFit ==
  AdminsIdle /\ file[path].enc # "junk" =>
    /\ up /\ ~locked => engine = file[path].enc
    /\ may.stops \/ (marker = "none") = (file[path].enc = "plain")
    /\ may.stops \/ keyFile = NoKey \/ (marker = "stored" /\ keyFile = file[path].enc)

\* What a restore replaces in a quiet household is in .bak, wherever it is stopped.
BakHoldsPrevious == may.quiet /\ before # {} => bak # NoFile /\ before \subseteq bak.rows

\* A household that has the passphrase gets back in, unless the process is
\* restarted for ever: every locked encrypted database is unlocked.
UnlockOpens ==
  <>[][~ \E upgraded \in BOOLEAN : Restart(upgraded)]_vars
    => ((locked /\ file[path].enc \in Keys) ~> ~locked)
=============================================================================
