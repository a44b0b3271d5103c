----------------------------- MODULE AtRestProofs -----------------------------
(***************************************************************************)
(* Proofs about AtRest, for any number of requests, passphrases, inodes    *)
(* and changes, and every day: busy or quiet, stopped at any point,        *)
(* upgraded, with bad exports, full disks and failing migrations.          *)
(***************************************************************************)
EXTENDS AtRest, TLAPS

\* The owner makes one security or restore call at a time.  Nothing in the routes enforces
\* it: two calls share the export targets, the marker and the key file.
OneCallAtATime == \A d \in Days : d.oneAdmin

\* How far a call is: before os.replace, in unlock, between os.replace and the unlink of
\* the -wal, and after os.replace of an encrypted or of a plaintext file.
EarlyPcs == {"e_export", "e_verify", "e_swap", "d_export", "d_swap", "r_quiesce", "r_bak", "r_swap"}
UnlockPcs == {"u_configure", "u_migrate"}
UnlinkPcs == {"e_wal", "d_wal", "r_wal"}
EnabledPcs == {"e_wal", "e_marker", "e_key", "e_configure"}
PlainPcs == {"d_wal", "d_marker", "d_key", "d_configure", "r_wal", "r_marker", "r_key", "r_configure"}
ReplacingPcs == EarlyPcs \cup EnabledPcs \cup PlainPcs

FileOrNone == File \cup {NoFile}
Engines == {"plain", "none"} \cup Keys
Markers == {"none", "prompt", "stored"}
Calls == [pc : {"idle"} \cup UnlockPcs \cup ReplacingPcs, key : Keys \cup {NoKey},
          mode : Markers, schema : {"head", "old"}]
DataRequests == [pc : {"idle", "open", "connected", "answered"}, inode : Inodes \cup {NoInode},
                 key : Engines, current : BOOLEAN]

TypeOK ==
  /\ may \in Days
  /\ path \in Inodes /\ file \in [Inodes -> FileOrNone] /\ file[path] \in File
  /\ wal \in [of : Inodes, rows : SUBSET Writes]
  /\ tmp \in [enc : FileOrNone, plain : FileOrNone] /\ bak \in FileOrNone
  /\ marker \in Markers /\ keyFile \in Keys \cup {NoKey}
  /\ engine \in Engines /\ locked \in BOOLEAN /\ up \in BOOLEAN /\ pool \subseteq Inodes
  /\ admin \in [Admins -> Calls] /\ req \in [Requests -> DataRequests]
  /\ acked \subseteq Writes /\ kept \subseteq Writes /\ before \subseteq Writes /\ crossed \in BOOLEAN

\* At most one security or restore call is under way.
Alone == \A a, b \in Admins : admin[a].pc # "idle" /\ admin[b].pc # "idle" => a = b

\* A request has a connection from its first query to its close, and every file a
\* connection is open to is there, whether or not it still has the path.
Connections ==
  /\ \A q \in Requests : req[q].inode # NoInode <=> req[q].pc \in {"connected", "answered"}
  /\ \A q \in Requests : req[q].inode # NoInode => file[req[q].inode] \in File
  /\ \A i \in pool : file[i] \in File

\* The -wal is the one of the file at the path, except between os.replace and the unlink,
\* and has changes only while some connection is open to its file.
WalFits ==
  /\ wal.of = path \/ \E a \in Admins : admin[a].pc \in UnlinkPcs
  /\ wal.rows # {} => wal.of \in Open(pool, req)

\* In a quiet household a call that replaces the file has closed every connection, and no
\* file is opened beside another's -wal.
Quiet ==
  may.quiet =>
    /\ AdminsIdle \/ RequestsIdle
    /\ (\E a \in Admins : admin[a].pc \in ReplacingPcs) => pool = {}
    /\ ~crossed

\* What a call that has got so far has seen to.
CallFits(a) ==
  LET c == admin[a]
      f == file[path]
  IN  /\ c.pc \in {"e_export", "e_verify", "e_swap", "d_export", "d_swap"} \cup EnabledPcs \cup UnlockPcs =>
           c.key \in Keys
      /\ c.pc \in {"e_export", "e_verify", "e_swap"} \cup EnabledPcs => c.mode # "none"
      /\ c.pc \in EarlyPcs \cup {"u_migrate"} => engine = f.enc
      /\ c.pc \in UnlockPcs => c.key = f.enc
      /\ c.pc = "e_verify" => tmp.enc # NoFile /\ kept \subseteq tmp.enc.rows
      /\ c.pc = "e_swap" => tmp.enc # NoFile /\ kept \subseteq tmp.enc.rows /\ tmp.enc.enc = c.key
      /\ c.pc = "d_swap" => tmp.plain # NoFile /\ kept \subseteq tmp.plain.rows /\ tmp.plain.enc = "plain"
      /\ c.pc = "r_swap" /\ may.quiet => bak # NoFile /\ f.rows \subseteq bak.rows
      /\ c.pc \in EnabledPcs => f.enc \in {c.key, "junk"}
      /\ c.pc \in PlainPcs => f.enc \in {"plain", "junk"}
      /\ c.pc \in {"e_export", "e_verify", "e_swap", "e_wal", "e_marker"} => marker = "none"
      /\ c.pc \in {"e_key", "e_configure"} => marker = c.mode
      /\ c.pc \in {"d_key", "d_configure", "r_key", "r_configure"} => marker = "none"

\* The auto-unlock key on disk, in a process that is not stopped.
KeyFits(a) ==
  LET c == admin[a]
  IN  ~may.stops =>
        /\ c.pc \in {"e_wal", "e_marker", "e_key", "d_configure", "r_configure"} => keyFile = NoKey
        /\ c.pc = "e_configure" => keyFile = NoKey \/ (marker = "stored" /\ keyFile = c.key)
        /\ c.pc \in {"r_wal", "r_marker"} => keyFile = NoKey \/ marker = "stored"

\* Until a call has replaced the file, and after it has ended, the keys fit the file.
SettledFits ==
  (\A a \in Admins : admin[a].pc \in {"idle"} \cup EarlyPcs \cup UnlockPcs) /\ file[path].enc # "junk" =>
    /\ up /\ ~locked => engine = file[path].enc
    /\ may.stops \/ (marker = "none") = (file[path].enc = "plain")
    /\ may.stops \/ keyFile = NoKey \/ (marker = "stored" /\ keyFile = file[path].enc)

IInv ==
  /\ TypeOK /\ Alone /\ Connections /\ WalFits /\ Quiet /\ SettledFits
  /\ \A a \in Admins : CallFits(a) /\ KeyFits(a)
  /\ KeptSurvives /\ BakHoldsPrevious

-------------------------------------------------------------------------------
\* engine.dispose() leaves the pool empty and the requests and the -wal well formed.
LEMMA DisposeTypes ==
  ASSUME TypeOK, Dispose
  PROVE  /\ pool' = {} /\ req' \in [Requests -> DataRequests]
         /\ wal' \in [of : Inodes, rows : SUBSET Writes]
<1>1. pool' = {} BY DEF Dispose
<1>2. req' \in [Requests -> DataRequests] BY DEF Dispose, TypeOK, DataRequests
<1>3. wal' \in [of : Inodes, rows : SUBSET Writes] BY DEF Dispose, TypeOK, WalAfter
<1> QED BY <1>1, <1>2, <1>3

\* Every step keeps the state well formed, one lemma for each operation.  First enable_encryption.
LEMMA EnableTypes ==
  ASSUME TypeOK, NEW a \in Admins, CallFits(a), EnableStep(a), UNCHANGED may
  PROVE  TypeOK'
<1> USE DEF TypeOK, Calls, FileOrNone, Markers, EarlyPcs, UnlockPcs, EnabledPcs, PlainPcs,
             ReplacingPcs, CallFits, Step, Abort, AtRest, disk, secrets, memory, history
<1>1. CASE EnableExport(a)
  <2>1. PICK f \in File : tmp' = [tmp EXCEPT !.enc = f]
    BY <1>1 DEF EnableExport, File
  <2> QED BY <1>1, <2>1 DEF EnableExport
<1>2. CASE EnableExportFails(a) BY <1>2 DEF EnableExportFails
<1>3. CASE EnableVerify(a)
  <2>1. PICK f \in FileOrNone : tmp' = [tmp EXCEPT !.enc = f]
    BY <1>3 DEF EnableVerify, File
  <2> QED BY <1>3, <2>1 DEF EnableVerify
<1>4. CASE EnableSwap(a) BY <1>4 DEF EnableSwap, Replace, Open
<1>5. CASE EnableSwapFails(a) BY <1>5 DEF EnableSwapFails
<1>6. CASE DropWal(a, "e_wal", "e_marker") BY <1>6 DEF DropWal
<1>7. CASE EnableMarker(a) BY <1>7 DEF EnableMarker
<1>8. CASE EnableKey(a) BY <1>8 DEF EnableKey
<1>9. CASE EnableConfigure(a)
  <2>1. engine' \in Engines /\ locked' \in BOOLEAN BY <1>9 DEF EnableConfigure, Configure, Engines
  <2> QED BY <1>9, <2>1, DisposeTypes DEF EnableConfigure, Configure
<1> QED BY <1>1, <1>2, <1>3, <1>4, <1>5, <1>6, <1>7, <1>8, <1>9 DEF EnableStep

\* disable_encryption.
LEMMA DisableTypes ==
  ASSUME TypeOK, NEW a \in Admins, DisableStep(a), UNCHANGED may
  PROVE  TypeOK'
<1> USE DEF TypeOK, Calls, FileOrNone, Markers, EarlyPcs, UnlockPcs, EnabledPcs, PlainPcs,
             ReplacingPcs, Step, Abort, AtRest, disk, secrets, memory, history
<1>1. CASE DisableExport(a)
  <2>1. PICK f \in File : tmp' = [tmp EXCEPT !.plain = f]
    BY <1>1 DEF DisableExport, File
  <2> QED BY <1>1, <2>1 DEF DisableExport
<1>2. CASE DisableExportFails(a) BY <1>2 DEF DisableExportFails
<1>3. CASE DisableSwap(a) BY <1>3 DEF DisableSwap, Replace, Open
<1>4. CASE DisableSwapFails(a) BY <1>4 DEF DisableSwapFails
<1>5. CASE DropWal(a, "d_wal", "d_marker") BY <1>5 DEF DropWal
<1>6. CASE DeleteMarker(a, "d_marker", "d_key") BY <1>6 DEF DeleteMarker
<1>7. CASE ClearKey(a, "d_key", "d_configure") BY <1>7 DEF ClearKey
<1>8. CASE ConfigurePlain(a, "d_configure")
  BY <1>8, DisposeTypes DEF ConfigurePlain, Configure, Engines
<1> QED BY <1>1, <1>2, <1>3, <1>4, <1>5, <1>6, <1>7, <1>8 DEF DisableStep

\* restore_database.
LEMMA RestoreTypes ==
  ASSUME TypeOK, NEW a \in Admins, RestoreStep(a), UNCHANGED may
  PROVE  TypeOK'
<1> USE DEF TypeOK, Calls, FileOrNone, Markers, EarlyPcs, UnlockPcs, EnabledPcs, PlainPcs,
             ReplacingPcs, Step, Abort, AtRest, disk, secrets, memory, history
<1>1. CASE RestoreQuiesce(a) BY <1>1 DEF RestoreQuiesce
<1>2. CASE RestoreBak(a)
  <2>1. bak' \in File BY <1>2 DEF RestoreBak, File
  <2> QED BY <1>2, <2>1 DEF RestoreBak
<1>3. CASE RestoreSwap(a)
  <2>1. PICK f : f = [enc |-> "plain", rows |-> {}, schema |-> admin[a].schema] OBVIOUS
  <2>2. f \in File BY <2>1 DEF File
  <2>3. before' \subseteq Writes BY <1>3 DEF RestoreSwap, File
  <2>4. Replace(f) BY <1>3, <2>1 DEF RestoreSwap
  <2>5. path' \in Inodes /\ file' \in [Inodes -> FileOrNone] /\ file'[path'] \in File
    BY <2>2, <2>4 DEF Replace
  <2> QED BY <1>3, <2>3, <2>5 DEF RestoreSwap
<1>4. CASE DropWal(a, "r_wal", "r_marker") BY <1>4 DEF DropWal
<1>5. CASE RestoreMarker(a) BY <1>5 DEF RestoreMarker
<1>6. CASE ClearKey(a, "r_key", "r_configure") BY <1>6 DEF ClearKey
<1>7. CASE ConfigurePlain(a, "r_configure")
  BY <1>7, DisposeTypes DEF ConfigurePlain, Configure, Engines
<1> QED BY <1>1, <1>2, <1>3, <1>4, <1>5, <1>6, <1>7 DEF RestoreStep

\* unlock.
LEMMA UnlockTypes ==
  ASSUME TypeOK, NEW a \in Admins, CallFits(a), UnlockStep(a), UNCHANGED may
  PROVE  TypeOK'
<1> USE DEF TypeOK, Calls, FileOrNone, Markers, EarlyPcs, UnlockPcs, EnabledPcs, PlainPcs,
             ReplacingPcs, CallFits, Step, Abort, AtRest, disk, secrets, memory, history
<1>1. CASE UnlockConfigure(a)
  <2>1. engine' \in Engines /\ locked' \in BOOLEAN BY <1>1 DEF UnlockConfigure, Configure, Engines
  <2> QED BY <1>1, <2>1, DisposeTypes DEF UnlockConfigure, Configure
<1>2. CASE UnlockMigrate(a)
  <2>1. PICK f \in File : file' = [file EXCEPT ![path] = f]
    BY <1>2 DEF UnlockMigrate, File
  <2> QED BY <1>2, <2>1 DEF UnlockMigrate
<1>3. CASE UnlockMigrateFails(a)
  BY <1>3, DisposeTypes DEF UnlockMigrateFails, Lock, Engines
<1> QED BY <1>1, <1>2, <1>3 DEF UnlockStep

\* A security or restore call that begins.
LEMMA BeginTypes ==
  ASSUME TypeOK, NEW a \in Admins, AdminBegin(a), UNCHANGED may
  PROVE  TypeOK'
<1> USE DEF TypeOK, Calls, FileOrNone, Markers, EarlyPcs, UnlockPcs, EnabledPcs, PlainPcs,
             ReplacingPcs, AtRest, disk, secrets, memory, history
<1>1. ASSUME NEW key \in Keys, NEW mode \in Modes, EnableStart(a, key, mode) PROVE TypeOK'
  <2>1. mode \in Markers BY ChoicesAssumption
  <2> QED BY <1>1, <2>1, DisposeTypes DEF EnableStart
<1>2. ASSUME NEW key \in Keys, DisableStart(a, key) PROVE TypeOK'
  BY <1>2, DisposeTypes DEF DisableStart
<1>3. ASSUME NEW key \in Keys, UnlockStart(a, key) PROVE TypeOK'
  BY <1>3 DEF UnlockStart
<1>4. ASSUME NEW schema \in may.uploads, RestoreStart(a, schema) PROVE TypeOK'
  <2>1. schema \in {"head", "old"} BY DaysAssumption DEF Day
  <2>2. [AtRest EXCEPT !.pc = "r_quiesce", !.schema = schema] \in Calls BY <2>1
  <2>3. admin' \in [Admins -> Calls] BY <1>4, <2>2 DEF RestoreStart
  <2> QED BY <1>4, <2>3, DisposeTypes DEF RestoreStart
<1> QED BY <1>1, <1>2, <1>3, <1>4 DEF AdminBegin

\* A data request.
LEMMA RequestTypes ==
  ASSUME TypeOK, Connections, NEW q \in Requests, RequestOpen(q) \/ RequestStep(q), UNCHANGED may
  PROVE  TypeOK'
<1>0. \A r \in DataRequests, i \in Inodes : [r EXCEPT !.pc = "connected", !.inode = i] \in DataRequests
  BY DEF DataRequests
<1> USE DEF TypeOK, FileOrNone, disk, secrets, memory, history
<1>1. CASE RequestOpen(q) BY <1>1 DEF RequestOpen, DataRequests
<1>2. CASE RequestReuse(q)
  <2>1. PICK i \in pool : req' = [req EXCEPT ![q] = [req[q] EXCEPT !.pc = "connected", !.inode = i]]
    BY <1>2 DEF RequestReuse
  <2>2. [req[q] EXCEPT !.pc = "connected", !.inode = i] \in DataRequests BY <1>0
  <2> QED BY <1>2, <2>1, <2>2 DEF RequestReuse
<1>3. CASE RequestConnect(q)
  <2>1. PICK f \in File : file' = [file EXCEPT ![path] = f]
    BY <1>3 DEF RequestConnect, Opened, File
  <2>2. req' \in [Requests -> DataRequests]
    <3>1. [req[q] EXCEPT !.pc = "connected", !.inode = path] \in DataRequests BY <1>0
    <3>2. req' = [req EXCEPT ![q] = [req[q] EXCEPT !.pc = "connected", !.inode = path]]
      BY <1>3 DEF RequestConnect
    <3> QED BY <3>1, <3>2
  <2>3. wal' \in [of : Inodes, rows : SUBSET Writes] BY <1>3 DEF RequestConnect
  <2>4. crossed' \in BOOLEAN BY <1>3 DEF RequestConnect, Crossing
  <2> QED BY <1>3, <2>1, <2>2, <2>3, <2>4 DEF RequestConnect
<1>4. CASE RequestFail(q) BY <1>4 DEF RequestFail, DataRequests, NoReq, Engines
<1>5. ASSUME NEW x \in Writes, RequestCommit(q, x) PROVE TypeOK'
  <2>1. req[q].inode \in Inodes /\ file[req[q].inode] \in File
    BY <1>5 DEF RequestCommit, Connections, DataRequests
  <2>2. PICK f \in File : file' = [file EXCEPT ![req[q].inode] = f]
    BY <1>5, <2>1 DEF RequestCommit, File
  <2>3. req' \in [Requests -> DataRequests] BY <1>5 DEF RequestCommit, DataRequests
  <2>4. wal' \in [of : Inodes, rows : SUBSET Writes] BY <1>5 DEF RequestCommit
  <2> QED BY <1>5, <2>1, <2>2, <2>3, <2>4 DEF RequestCommit
<1>6. CASE RequestClose(q)
  <2>1. req[q].inode \in Inodes BY <1>6 DEF RequestClose, Connections, DataRequests
  <2>2. req' \in [Requests -> DataRequests] BY <1>6 DEF RequestClose, DataRequests, NoReq, Engines
  <2>3. wal' \in [of : Inodes, rows : SUBSET Writes] BY <1>6 DEF RequestClose, WalAfter
  <2> QED BY <1>6, <2>1, <2>2, <2>3 DEF RequestClose
<1> QED BY <1>1, <1>2, <1>3, <1>4, <1>5, <1>6 DEF RequestStep

\* A restart.
LEMMA RestartTypes ==
  ASSUME TypeOK, NEW upgraded, Restart(upgraded), UNCHANGED may
  PROVE  TypeOK'
<1>1. PICK f \in Opened, g \in File :
        /\ file' = [i \in Inodes |-> IF i = path THEN g ELSE NoFile]
        /\ engine' = InitialEngine(f)
        /\ locked' \in BOOLEAN /\ up' \in BOOLEAN
  <2>1. PICK f \in Opened :
         LET old == IF upgraded THEN [f EXCEPT !.schema = "old"] ELSE f
             key == InitialEngine(f)
             opens == key = f.enc
         IN  /\ file' = [i \in Inodes |-> IF i = path THEN IF opens THEN [old EXCEPT !.schema = "head"] ELSE old
                                          ELSE NoFile]
             /\ engine' = key /\ locked' = (key = "none")
             /\ up' = (key = "none" \/ opens)
    BY DEF Restart
  <2>2. f \in File BY DEF Opened, TypeOK, File
  <2>3. PICK old : old = IF upgraded THEN [f EXCEPT !.schema = "old"] ELSE f OBVIOUS
  <2>4. old \in File BY <2>2, <2>3 DEF File
  <2>5. [old EXCEPT !.schema = "head"] \in File BY <2>4 DEF File
  <2>6. PICK g : g = IF InitialEngine(f) = f.enc THEN [old EXCEPT !.schema = "head"] ELSE old OBVIOUS
  <2> QED BY <2>1, <2>3, <2>4, <2>5, <2>6
<1>2. engine' \in Engines
  BY <1>1, KeysAssumption, NamesAssumption DEF InitialEngine, StoredKey, Engines, Opened, TypeOK, File
<1> QED
  BY <1>1, <1>2 DEF Restart, TypeOK, FileOrNone, AtRest, NoReq, Calls, DataRequests, Engines,
     Markers, Crossing, secrets

\* An export or a copy that runs out of disk.
LEMMA FullTypes ==
  ASSUME TypeOK, NEW a \in Admins, DiskFull(a), UNCHANGED may
  PROVE  TypeOK'
  BY DEF TypeOK, Calls, Markers, DiskFull, Abort, AtRest, disk, secrets, memory, history

\* Every step keeps the invariant.  enable_encryption: the copy that takes the path has what was
\* kept and opens with the passphrase; marker, key file and engine follow it.
LEMMA EnableKeeps ==
  ASSUME IInv, NEW a \in Admins, EnableStep(a), UNCHANGED may
  PROVE  IInv'
<1> USE DEF EnableStep, EnableExport, EnableExportFails, EnableVerify, EnableSwap, EnableSwapFails, DropWal,
           EnableMarker, EnableKey, EnableConfigure, Step, Abort, AtRest, Replace, Configure, Dispose,
           WalAfter, Open, EarlyPcs, UnlockPcs, EnabledPcs, PlainPcs, ReplacingPcs, UnlinkPcs,
           disk, secrets, memory, history
<1>1. TypeOK' BY EnableTypes DEF IInv
<1>2. Alone' BY DEF IInv, TypeOK, Calls, Alone, AdminsIdle
<1>3. Connections' BY NothingAssumption DEF IInv, TypeOK, DataRequests, File, FileOrNone, Connections
<1>4. WalFits' BY DEF IInv, TypeOK, Calls, DataRequests, WalFits, Alone, AdminsIdle, Connections
<1>5. Quiet' BY DEF IInv, TypeOK, Calls, Quiet, Alone, AdminsIdle, RequestsIdle, Connections
<1>6. SettledFits'
  BY NamesAssumption, NothingAssumption
     DEF IInv, TypeOK, Calls, File, FileOrNone, SettledFits, CallFits, KeyFits, Alone, AdminsIdle, Markers
<1>7. ASSUME NEW b \in Admins PROVE CallFits(b)'
  BY NamesAssumption, NothingAssumption
     DEF IInv, TypeOK, Calls, File, FileOrNone, SettledFits, CallFits, KeptSurvives, Alone, AdminsIdle,
         WalFits, Quiet, RequestsIdle, Connections, Markers
<1>8. ASSUME NEW b \in Admins PROVE KeyFits(b)'
  <2>1. b # a => admin'[b].pc = "idle" BY DEF IInv, TypeOK, Alone
  <2>2. CASE b # a BY <2>1, <2>2 DEF KeyFits
  <2>3. CASE b = a /\ EnableSwap(a)
    <3>1. file[path].enc # "junk"
      BY <2>3, NamesAssumption DEF IInv, TypeOK, CallFits, Engines
    <3>2. \A d \in Admins : admin[d].pc \in {"idle"} \cup EarlyPcs
      BY <2>3 DEF IInv, TypeOK, Alone
    <3>3. may.stops \/ keyFile = NoKey \/ marker = "stored"
      BY <3>1, <3>2 DEF IInv, SettledFits
    <3> QED BY <2>3, <3>3 DEF IInv, TypeOK, Calls, CallFits, KeyFits
  <2>4. CASE b = a /\ EnableKey(a) BY <2>4 DEF IInv, TypeOK, Calls, CallFits, KeyFits
  <2>5. CASE b = a /\ ~EnableSwap(a) /\ ~EnableKey(a) BY <2>5 DEF IInv, TypeOK, Calls, KeyFits
  <2> QED BY <2>2, <2>3, <2>4, <2>5
<1>9. KeptSurvives' BY NamesAssumption, NothingAssumption DEF IInv, TypeOK, File, FileOrNone, KeptSurvives, CallFits
<1>10. BakHoldsPrevious' BY DEF IInv, TypeOK, BakHoldsPrevious, CallFits
<1> QED BY <1>1, <1>2, <1>3, <1>4, <1>5, <1>6, <1>7, <1>8, <1>9, <1>10 DEF IInv

\* disable_encryption: the plaintext copy has what was kept; marker, key file and engine follow it.
LEMMA DisableKeeps ==
  ASSUME IInv, NEW a \in Admins, DisableStep(a), UNCHANGED may
  PROVE  IInv'
<1> USE DEF DisableStep, DisableExport, DisableExportFails, DisableSwap, DisableSwapFails, DropWal,
           DeleteMarker, ClearKey, ConfigurePlain, Step, Abort, AtRest, Replace, Configure, Dispose,
           WalAfter, Open, EarlyPcs, UnlockPcs, EnabledPcs, PlainPcs, ReplacingPcs, UnlinkPcs,
           disk, secrets, memory, history
<1>1. TypeOK' BY DisableTypes DEF IInv
<1>2. Alone' BY DEF IInv, TypeOK, Calls, Alone, AdminsIdle
<1>3. Connections' BY NothingAssumption DEF IInv, TypeOK, DataRequests, File, FileOrNone, Connections
<1>4. WalFits' BY DEF IInv, TypeOK, Calls, DataRequests, WalFits, Alone, AdminsIdle, Connections
<1>5. Quiet' BY DEF IInv, TypeOK, Calls, Quiet, Alone, AdminsIdle, RequestsIdle, Connections
<1>6. SettledFits'
  BY NamesAssumption, NothingAssumption
     DEF IInv, TypeOK, Calls, File, FileOrNone, SettledFits, CallFits, KeyFits, Alone, AdminsIdle, Markers
<1>7. ASSUME NEW b \in Admins PROVE CallFits(b)'
  BY NamesAssumption, NothingAssumption
     DEF IInv, TypeOK, Calls, File, FileOrNone, SettledFits, CallFits, KeptSurvives, Alone, AdminsIdle,
         WalFits, Quiet, RequestsIdle, Connections, Markers
<1>8. ASSUME NEW b \in Admins PROVE KeyFits(b)'
  BY DEF IInv, TypeOK, Calls, CallFits, KeyFits, SettledFits, Alone, AdminsIdle
<1>9. KeptSurvives' BY NamesAssumption, NothingAssumption DEF IInv, TypeOK, File, FileOrNone, KeptSurvives, CallFits
<1>10. BakHoldsPrevious' BY DEF IInv, TypeOK, BakHoldsPrevious, CallFits
<1> QED BY <1>1, <1>2, <1>3, <1>4, <1>5, <1>6, <1>7, <1>8, <1>9, <1>10 DEF IInv

\* restore_database: .bak has what is replaced, and what belonged to an encrypted file goes with it.
LEMMA RestoreKeeps ==
  ASSUME IInv, NEW a \in Admins, RestoreStep(a), UNCHANGED may
  PROVE  IInv'
<1> USE DEF RestoreStep, RestoreQuiesce, RestoreBak, RestoreSwap, DropWal, RestoreMarker, ClearKey,
           ConfigurePlain, Step, Abort, AtRest, Replace, Configure, Dispose, WalAfter, Open,
           EarlyPcs, UnlockPcs, EnabledPcs, PlainPcs, ReplacingPcs, UnlinkPcs,
           disk, secrets, memory, history
<1>1. TypeOK' BY RestoreTypes DEF IInv
<1>2. Alone' BY DEF IInv, TypeOK, Calls, Alone, AdminsIdle
<1>3. Connections' BY NothingAssumption DEF IInv, TypeOK, DataRequests, File, FileOrNone, Connections
<1>4. WalFits' BY DEF IInv, TypeOK, Calls, DataRequests, WalFits, Alone, AdminsIdle, Connections
<1>5. Quiet' BY DEF IInv, TypeOK, Calls, Quiet, Alone, AdminsIdle, RequestsIdle, Connections
<1>6. SettledFits'
  BY NamesAssumption, NothingAssumption
     DEF IInv, TypeOK, Calls, File, FileOrNone, SettledFits, CallFits, KeyFits, Alone, AdminsIdle, Markers
<1>7. ASSUME NEW b \in Admins PROVE CallFits(b)'
  <2>1. b # a => admin'[b].pc = "idle" BY DEF IInv, TypeOK, Alone
  <2>2. CASE b # a BY <2>1, <2>2 DEF CallFits
  <2>3. CASE b = a /\ RestoreBak(a)
    <3>1. may.quiet => wal.rows = {}
      BY <2>3, NothingAssumption DEF IInv, TypeOK, Quiet, WalFits, AdminsIdle, RequestsIdle, Connections
    <3>2. may.quiet => bak' \in File /\ bak'.rows = file[path].rows
      BY <2>3, <3>1 DEF IInv, TypeOK, File
    <3>3. admin'[b].pc = "r_swap" BY <2>3 DEF IInv, TypeOK
    <3>4. may'.quiet => bak' # NoFile /\ file'[path'].rows \subseteq bak'.rows
      BY <2>3, <3>2, NothingAssumption DEF File
    <3>5. engine' = file'[path'].enc BY <2>3 DEF IInv, CallFits
    <3> QED BY <3>3, <3>4, <3>5 DEF CallFits
  <2>4. CASE b = a /\ RestoreSwap(a) BY <2>4 DEF IInv, TypeOK, Calls, CallFits
  <2>5. CASE b = a /\ ~RestoreBak(a) /\ ~RestoreSwap(a) BY <2>5 DEF IInv, TypeOK, Calls, CallFits
  <2> QED BY <2>2, <2>3, <2>4, <2>5
<1>8. ASSUME NEW b \in Admins PROVE KeyFits(b)'
  <2>1. b # a => admin'[b].pc = "idle" BY DEF IInv, TypeOK, Alone
  <2>2. CASE b # a BY <2>1, <2>2 DEF KeyFits
  <2>3. CASE b = a /\ RestoreSwap(a)
    <3>1. file[path].enc # "junk"
      BY <2>3, NamesAssumption DEF IInv, TypeOK, CallFits, Engines
    <3>2. \A d \in Admins : admin[d].pc \in {"idle"} \cup EarlyPcs
      BY <2>3 DEF IInv, TypeOK, Alone
    <3>3. may.stops \/ keyFile = NoKey \/ marker = "stored"
      BY <3>1, <3>2 DEF IInv, SettledFits
    <3> QED BY <2>3, <3>3 DEF IInv, TypeOK, Calls, CallFits, KeyFits
  <2>4. CASE b = a /\ RestoreMarker(a) BY <2>4 DEF IInv, TypeOK, Calls, CallFits, KeyFits
  <2>5. CASE b = a /\ ~RestoreSwap(a) /\ ~RestoreMarker(a) BY <2>5 DEF IInv, TypeOK, Calls, KeyFits
  <2> QED BY <2>2, <2>3, <2>4, <2>5
<1>9. KeptSurvives' BY NamesAssumption, NothingAssumption DEF IInv, TypeOK, File, FileOrNone, KeptSurvives, CallFits
<1>10. BakHoldsPrevious' BY DEF IInv, TypeOK, BakHoldsPrevious, CallFits
<1> QED BY <1>1, <1>2, <1>3, <1>4, <1>5, <1>6, <1>7, <1>8, <1>9, <1>10 DEF IInv

\* unlock: the passphrase has opened the file, or the engine is locked again.
LEMMA UnlockKeeps ==
  ASSUME IInv, NEW a \in Admins, UnlockStep(a), UNCHANGED may
  PROVE  IInv'
<1> USE DEF UnlockStep, UnlockConfigure, UnlockMigrate, UnlockMigrateFails, Step, Abort, AtRest, Configure,
           Lock, Dispose, WalAfter, Open, EarlyPcs, UnlockPcs, EnabledPcs, PlainPcs, ReplacingPcs, UnlinkPcs,
           disk, secrets, memory, history
<1>1. TypeOK' BY UnlockTypes DEF IInv
<1>2. Alone' BY DEF IInv, TypeOK, Calls, Alone, AdminsIdle
<1>3. Connections' BY NothingAssumption DEF IInv, TypeOK, DataRequests, File, FileOrNone, Connections
<1>4. WalFits' BY DEF IInv, TypeOK, Calls, DataRequests, WalFits, Alone, AdminsIdle, Connections
<1>5. Quiet'
  <2>1. may' = may /\ crossed' = crossed BY DEF IInv
  <2>2. \A b \in Admins : admin'[b].pc \notin ReplacingPcs
    BY DEF IInv, TypeOK, Calls, Alone
  <2>3. AdminsIdle \/ RequestsIdle => AdminsIdle' \/ RequestsIdle'
    BY DEF IInv, TypeOK, DataRequests, Calls, AdminsIdle, RequestsIdle
  <2> QED BY <2>1, <2>2, <2>3 DEF IInv, Quiet
<1>6. SettledFits'
  BY NamesAssumption, NothingAssumption
     DEF IInv, TypeOK, Calls, File, FileOrNone, SettledFits, CallFits, KeyFits, Alone, AdminsIdle, Markers
<1>7. ASSUME NEW b \in Admins PROVE CallFits(b)'
  BY NamesAssumption, NothingAssumption
     DEF IInv, TypeOK, Calls, File, FileOrNone, SettledFits, CallFits, KeptSurvives, Alone, AdminsIdle,
         WalFits, Quiet, RequestsIdle, Connections, Markers
<1>8. ASSUME NEW b \in Admins PROVE KeyFits(b)'
  BY DEF IInv, TypeOK, Calls, CallFits, KeyFits, SettledFits, Alone, AdminsIdle
<1>9. KeptSurvives' BY NamesAssumption, NothingAssumption DEF IInv, TypeOK, File, FileOrNone, KeptSurvives, CallFits
<1>10. BakHoldsPrevious' BY DEF IInv, TypeOK, BakHoldsPrevious, CallFits
<1> QED BY <1>1, <1>2, <1>3, <1>4, <1>5, <1>6, <1>7, <1>8, <1>9, <1>10 DEF IInv

\* A full disk ends a call before os.replace.
LEMMA FullKeeps ==
  ASSUME IInv, NEW a \in Admins, DiskFull(a), UNCHANGED may
  PROVE  IInv'
<1> USE DEF DiskFull, Abort, AtRest, Open, EarlyPcs, UnlockPcs, EnabledPcs, PlainPcs, ReplacingPcs, UnlinkPcs,
           disk, secrets, memory, history
<1>1. TypeOK' BY FullTypes DEF IInv
<1>2. Alone' BY DEF IInv, TypeOK, Calls, Alone, AdminsIdle
<1>3. Connections' BY NothingAssumption DEF IInv, TypeOK, DataRequests, File, FileOrNone, Connections
<1>4. WalFits' BY DEF IInv, TypeOK, Calls, DataRequests, WalFits, Alone, AdminsIdle, Connections
<1>5. Quiet' BY DEF IInv, TypeOK, Calls, Quiet, Alone, AdminsIdle, RequestsIdle, Connections
<1>6. SettledFits'
  BY NamesAssumption, NothingAssumption
     DEF IInv, TypeOK, Calls, File, FileOrNone, SettledFits, CallFits, KeyFits, Alone, AdminsIdle, Markers
<1>7. ASSUME NEW b \in Admins PROVE CallFits(b)'
  BY NamesAssumption, NothingAssumption
     DEF IInv, TypeOK, Calls, File, FileOrNone, SettledFits, CallFits, KeptSurvives, Alone, AdminsIdle,
         WalFits, Quiet, RequestsIdle, Connections, Markers
<1>8. ASSUME NEW b \in Admins PROVE KeyFits(b)'
  BY DEF IInv, TypeOK, Calls, CallFits, KeyFits, SettledFits, Alone, AdminsIdle
<1>9. KeptSurvives' BY NamesAssumption, NothingAssumption DEF IInv, TypeOK, File, FileOrNone, KeptSurvives, CallFits
<1>10. BakHoldsPrevious' BY DEF IInv, TypeOK, BakHoldsPrevious, CallFits
<1> QED BY <1>1, <1>2, <1>3, <1>4, <1>5, <1>6, <1>7, <1>8, <1>9, <1>10 DEF IInv

\* A call begins beside no other, in a quiet household beside no request, with the pool disposed of.
LEMMA BeginKeeps ==
  ASSUME IInv, NEW a \in Admins, may.oneAdmin, AdminBegin(a), UNCHANGED may
  PROVE  IInv'
<1> USE DEF AtRest, disk, secrets, memory, history
<1>1. TypeOK' BY BeginTypes DEF IInv
<1>2. AdminsIdle /\ (may.quiet => RequestsIdle) /\ up
  BY DEF AdminBegin, EnableStart, DisableStart, RestoreStart, UnlockStart, MayBegin
<1>3. \A b \in Admins \ {a} : admin'[b].pc = "idle"
  BY <1>2 DEF AdminBegin, EnableStart, DisableStart, RestoreStart, UnlockStart, AdminsIdle, IInv, TypeOK
<1>4. UNCHANGED <<file, path, bak, secrets, engine, locked, up, history>>
  BY DEF AdminBegin, EnableStart, DisableStart, RestoreStart, UnlockStart
<1>5. /\ admin'[a].pc \in {"e_export", "d_export", "r_quiesce", "u_configure"}
      /\ Dispose \/ (UNCHANGED <<wal, pool, req>> /\ admin'[a].pc = "u_configure")
  <2> DEFINE P == /\ admin'[a].pc \in {"e_export", "d_export", "r_quiesce", "u_configure"}
                  /\ Dispose \/ (UNCHANGED <<wal, pool, req>> /\ admin'[a].pc = "u_configure")
  <2> USE DEF IInv, TypeOK
  <2>1. ASSUME NEW key \in Keys, NEW mode \in Modes, EnableStart(a, key, mode) PROVE P
    BY <2>1 DEF EnableStart
  <2>2. ASSUME NEW key \in Keys, DisableStart(a, key) PROVE P
    BY <2>2 DEF DisableStart
  <2>3. ASSUME NEW key \in Keys, UnlockStart(a, key) PROVE P
    BY <2>3 DEF UnlockStart
  <2>4. ASSUME NEW schema \in may.uploads, RestoreStart(a, schema) PROVE P
    BY <2>4 DEF RestoreStart
  <2> QED BY <2>1, <2>2, <2>3, <2>4 DEF AdminBegin
<1>6. Alone' BY <1>3 DEF Alone
<1>7. Connections'
  BY <1>4, <1>5, NothingAssumption DEF Dispose, Connections, IInv, TypeOK, DataRequests
<1>8. WalFits'
  <2>1. wal.of = path BY <1>2 DEF IInv, WalFits, AdminsIdle, UnlinkPcs
  <2>2. CASE Dispose BY <1>4, <1>5, <2>1, <2>2 DEF Dispose, WalAfter, Open, WalFits, IInv, TypeOK, DataRequests
  <2>3. CASE UNCHANGED <<wal, pool, req>>
    BY <1>4, <1>5, <2>1, <2>3 DEF Open, WalFits, IInv
  <2> QED BY <1>4, <1>5, <2>2, <2>3
<1>9. Quiet'
  <2>1. may.quiet => RequestsIdle'
    BY <1>2, <1>4, <1>5 DEF RequestsIdle, Dispose, IInv, TypeOK, DataRequests
  <2>2. admin'[a].pc \in ReplacingPcs => pool' = {}
    BY <1>4, <1>5 DEF Dispose, EarlyPcs, EnabledPcs, PlainPcs, ReplacingPcs
  <2> QED BY <1>3, <1>4, <1>5, <2>1, <2>2 DEF Quiet, IInv, EarlyPcs, EnabledPcs, PlainPcs, ReplacingPcs
<1>10. SettledFits'
  BY <1>2, <1>4, <1>5 DEF SettledFits, IInv, AdminsIdle
<1>11. CallFits(a)' /\ KeyFits(a)'
  <2> USE NamesAssumption DEF IInv, TypeOK, CallFits, KeyFits, OwnerSeen, EarlyPcs, UnlockPcs, EnabledPcs, PlainPcs
  <2>1. ASSUME NEW key \in Keys, NEW mode \in Modes, EnableStart(a, key, mode)
        PROVE CallFits(a)' /\ KeyFits(a)'
    BY <2>1, ChoicesAssumption DEF EnableStart
  <2>2. ASSUME NEW key \in Keys, DisableStart(a, key) PROVE CallFits(a)' /\ KeyFits(a)'
    BY <2>2 DEF DisableStart
  <2>3. ASSUME NEW key \in Keys, UnlockStart(a, key) PROVE CallFits(a)' /\ KeyFits(a)'
    BY <2>3 DEF UnlockStart
  <2>4. ASSUME NEW schema \in may.uploads, RestoreStart(a, schema) PROVE CallFits(a)' /\ KeyFits(a)'
    BY <2>4 DEF RestoreStart
  <2> QED BY <2>1, <2>2, <2>3, <2>4 DEF AdminBegin
<1>12. \A b \in Admins : CallFits(b)' /\ KeyFits(b)'
  BY <1>3, <1>11 DEF CallFits, KeyFits, EarlyPcs, UnlockPcs, EnabledPcs, PlainPcs
<1>13. KeptSurvives' /\ BakHoldsPrevious'
  BY <1>4, <1>5 DEF IInv, KeptSurvives, BakHoldsPrevious
<1> QED BY <1>1, <1>6, <1>7, <1>8, <1>9, <1>10, <1>12, <1>13 DEF IInv

\* A data request that opens a session, uses an idle connection, fails or closes: no file changes.
LEMMA RequestKeeps ==
  ASSUME IInv, NEW q \in Requests, UNCHANGED may,
         RequestOpen(q) \/ RequestReuse(q) \/ RequestFail(q) \/ RequestClose(q)
  PROVE  IInv'
<1> USE DEF secrets, history
<1>1. TypeOK' BY RequestTypes DEF IInv, RequestStep
<1>2. UNCHANGED <<file, path, tmp, bak, secrets, engine, locked, up, admin, history>>
  BY DEF RequestOpen, RequestReuse, RequestFail, RequestClose, disk, memory
<1>3. req[q].pc # "idle" \/ (may.quiet => AdminsIdle)
  BY DEF RequestOpen, RequestReuse, RequestFail, RequestClose
<1>4. Connections'
  BY NothingAssumption
     DEF RequestOpen, RequestReuse, RequestFail, RequestClose, disk, memory, IInv, TypeOK, Connections,
         DataRequests, NoReq
<1>5. WalFits'
  <2>1. CASE RequestClose(q) BY <2>1 DEF RequestClose, WalAfter, WalFits, IInv, TypeOK
  <2>2. CASE RequestOpen(q) \/ RequestReuse(q) \/ RequestFail(q)
    <3>1. req[q].inode = NoInode BY <2>2 DEF RequestOpen, RequestReuse, RequestFail, IInv, Connections
    <3>2. pool' = pool /\ \A p \in Requests \ {q} : req'[p] = req[p]
      BY <2>2 DEF RequestOpen, RequestReuse, RequestFail, memory, IInv, TypeOK
    <3>3. \A i \in Inodes : i \in Open(pool, req) => i \in Open(pool', req')
      BY <3>1, <3>2, NothingAssumption DEF Open
    <3> QED BY <2>2, <3>3 DEF RequestOpen, RequestReuse, RequestFail, WalFits, IInv, TypeOK, disk, memory
  <2> QED BY <2>1, <2>2
<1>6. Quiet'
  <2>1. may.quiet => AdminsIdle
    BY <1>3 DEF IInv, Quiet, RequestsIdle
  <2> QED BY <1>2, <2>1 DEF IInv, Quiet, AdminsIdle, ReplacingPcs, EarlyPcs, EnabledPcs, PlainPcs
<1>7. Alone' /\ SettledFits' /\ KeptSurvives' /\ BakHoldsPrevious'
  BY <1>2 DEF IInv, Alone, SettledFits, KeptSurvives, BakHoldsPrevious
<1>8. \A b \in Admins : CallFits(b)' /\ KeyFits(b)'
  BY <1>2 DEF IInv, CallFits, KeyFits
<1> QED BY <1>1, <1>4, <1>5, <1>6, <1>7, <1>8 DEF IInv

\* A new connection opens the file at the path; it may ruin it only between os.replace and
\* the unlink of the -wal, beside a connection to the replaced file.
LEMMA ConnectKeeps ==
  ASSUME IInv, NEW q \in Requests, RequestConnect(q), UNCHANGED may
  PROVE  IInv'
<1> USE DEF secrets, memory
<1>1. TypeOK' BY RequestTypes DEF IInv, RequestStep
<1>2. /\ UNCHANGED <<path, tmp, bak, secrets, memory, admin, acked, kept, before>>
      /\ crossed' = (crossed \/ Crossing)
  BY DEF RequestConnect
<1>3. PICK f : f \in Opened /\ file' = [file EXCEPT ![path] = f]
  BY DEF RequestConnect
<1>4. f \in File /\ f.rows = file[path].rows /\ f.enc \in {file[path].enc, "junk"}
  BY <1>3 DEF Opened, IInv, TypeOK, File
<1>5. file'[path] = f /\ (\A i \in Inodes : file[i] \in File => file'[i] \in File)
  BY <1>3, <1>4 DEF IInv, TypeOK
<1>6. f.enc # file[path].enc => Crossing /\ \E a \in Admins : admin[a].pc \in UnlinkPcs
  <2> SUFFICES ASSUME f.enc # file[path].enc
        PROVE Crossing /\ \E a \in Admins : admin[a].pc \in UnlinkPcs
    OBVIOUS
  <2>1. wal.of # path /\ wal.rows # {} BY <1>3 DEF Opened
  <2>2. wal.of \in Open(pool, req) /\ wal.of \in Inodes BY <2>1 DEF IInv, WalFits, TypeOK
  <2>3. \E a \in Admins : admin[a].pc \in UnlinkPcs BY <2>1 DEF IInv, WalFits
  <2> QED BY <2>1, <2>2, <2>3, NothingAssumption DEF Crossing, UnlinkPcs
<1>7. req'[q].inode = path /\ req'[q].pc = "connected" /\ \A p \in Requests \ {q} : req'[p] = req[p]
  BY DEF RequestConnect, IInv, TypeOK, DataRequests
<1>8. Connections'
  BY <1>2, <1>5, <1>7, <1>4, NothingAssumption DEF IInv, TypeOK, Connections, DataRequests
<1>9. WalFits'
  <2>1. wal' = (IF wal.of = path THEN wal ELSE [of |-> path, rows |-> {}]) /\ path' = path
    BY <1>2 DEF RequestConnect
  <2>2. req[q].inode = NoInode BY DEF RequestConnect, IInv, Connections
  <2>3. \A i \in Inodes : i \in Open(pool, req) => i \in Open(pool', req')
    BY <1>2, <1>7, <2>2, NothingAssumption DEF Open
  <2> QED BY <2>1, <2>3 DEF WalFits, IInv, TypeOK
<1>10. Quiet'
  <2>1. may.quiet => AdminsIdle BY DEF RequestConnect, IInv, Quiet, RequestsIdle
  <2>2. may.quiet => ~Crossing BY <2>1 DEF Crossing, AdminsIdle
  <2> QED BY <1>2, <2>1, <2>2 DEF IInv, Quiet, AdminsIdle, ReplacingPcs, EarlyPcs, EnabledPcs, PlainPcs
<1>11. Alone' /\ BakHoldsPrevious' BY <1>2 DEF IInv, Alone, BakHoldsPrevious
<1>12. KeptSurvives' BY <1>2, <1>4, <1>5, <1>6 DEF IInv, KeptSurvives
<1>13. SettledFits' BY <1>2, <1>4, <1>5 DEF IInv, SettledFits
<1>14. \A b \in Admins : CallFits(b)' /\ KeyFits(b)'
  <2> SUFFICES ASSUME NEW b \in Admins PROVE CallFits(b)' /\ KeyFits(b)' OBVIOUS
  <2>1. KeyFits(b)' BY <1>2 DEF IInv, KeyFits
  <2>2. admin[b].pc \in EarlyPcs \cup UnlockPcs => f.enc = file[path].enc
    BY <1>6 DEF IInv, Alone, EarlyPcs, UnlockPcs, UnlinkPcs
  <2>3. CallFits(b)'
    BY <1>2, <1>4, <1>5, <2>2 DEF IInv, CallFits, EarlyPcs, UnlockPcs
  <2> QED BY <2>1, <2>3
<1> QED BY <1>1, <1>8, <1>9, <1>10, <1>11, <1>12, <1>13, <1>14 DEF IInv

\* A commit goes to the inode the request's connection is open to.
LEMMA CommitKeeps ==
  ASSUME IInv, NEW q \in Requests, NEW x \in Writes, RequestCommit(q, x), UNCHANGED may
  PROVE  IInv'
<1> USE DEF secrets, memory
<1>1. TypeOK' BY RequestTypes DEF IInv, RequestStep
<1>2. PICK i : i = req[q].inode /\ i \in Inodes /\ file[i] \in File
  BY DEF RequestCommit, IInv, TypeOK, Connections, DataRequests
<1>3. PICK f : f = [file[i] EXCEPT !.rows = @ \cup {x}] OBVIOUS
<1>4. f \in File /\ f.rows = file[i].rows \cup {x} /\ f.enc = file[i].enc
  BY <1>2, <1>3 DEF File
<1>5. file' = [file EXCEPT ![i] = f] BY <1>2, <1>3 DEF RequestCommit
<1>6. /\ UNCHANGED <<path, tmp, bak, secrets, memory, admin, before, crossed>>
      /\ wal' = IF wal.of = i THEN [wal EXCEPT !.rows = @ \cup {x}] ELSE wal
      /\ kept' = IF i = path /\ ~Exporting THEN kept \cup {x} ELSE kept
  BY <1>2 DEF RequestCommit
<1>7. /\ \A j \in Inodes : file[j] \in File => file'[j] \in File
      /\ file'[path].enc = file[path].enc /\ file[path].rows \subseteq file'[path].rows
      /\ i = path => x \in file'[path].rows
  BY <1>2, <1>4, <1>5 DEF IInv, TypeOK
<1>8. req'[q].inode = i /\ req'[q].pc = "answered" /\ \A p \in Requests \ {q} : req'[p] = req[p]
  BY <1>2 DEF RequestCommit, IInv, TypeOK, DataRequests
<1>9. Connections'
  BY <1>2, <1>6, <1>7, <1>8, NothingAssumption DEF IInv, TypeOK, Connections, DataRequests
<1>10. WalFits'
  <2>1. Open(pool', req') = Open(pool, req) BY <1>2, <1>6, <1>8 DEF Open
  <2>2. wal'.of = wal.of /\ (wal'.rows # {} => wal.rows # {} \/ wal.of = i)
    BY <1>6 DEF IInv, TypeOK
  <2>3. i \in Open(pool, req) BY <1>2 DEF Open
  <2> QED BY <1>6, <2>1, <2>2, <2>3 DEF IInv, WalFits
<1>11. Quiet'
  <2>1. may.quiet => AdminsIdle BY DEF RequestCommit, IInv, Quiet, RequestsIdle
  <2> QED BY <1>6, <2>1 DEF IInv, Quiet, AdminsIdle, ReplacingPcs, EarlyPcs, EnabledPcs, PlainPcs
<1>12. Alone' /\ SettledFits' /\ BakHoldsPrevious'
  BY <1>6, <1>7 DEF IInv, Alone, SettledFits, BakHoldsPrevious
<1>13. KeptSurvives' BY <1>6, <1>7 DEF IInv, KeptSurvives
<1>14. \A b \in Admins : CallFits(b)' /\ KeyFits(b)'
  <2> SUFFICES ASSUME NEW b \in Admins PROVE CallFits(b)' /\ KeyFits(b)' OBVIOUS
  <2>1. KeyFits(b)' BY <1>6 DEF IInv, KeyFits
  <2>2. admin[b].pc \in {"e_verify", "e_swap", "d_swap"} => kept' = kept
    BY <1>6 DEF Exporting
  <2>3. ~(may.quiet /\ admin[b].pc = "r_swap")
    BY DEF RequestCommit, IInv, Quiet, AdminsIdle, RequestsIdle
  <2>4. CallFits(b)' BY <1>6, <1>7, <2>2, <2>3 DEF IInv, CallFits
  <2> QED BY <2>1, <2>4
<1> QED BY <1>1, <1>9, <1>10, <1>11, <1>12, <1>13, <1>14 DEF IInv

\* The process stops, and starts again with the file, the marker and the key file as they are.
LEMMA RestartKeeps ==
  ASSUME IInv, NEW upgraded, Restart(upgraded), UNCHANGED may
  PROVE  IInv'
<1> USE DEF secrets
<1>1. TypeOK' BY RestartTypes DEF IInv
<1>2. /\ UNCHANGED <<path, tmp, bak, secrets, acked, kept, before>>
      /\ crossed' = (crossed \/ Crossing) /\ may.stops
      /\ wal'.of = path /\ wal'.rows = {} /\ pool' = {}
      /\ \A a \in Admins : admin'[a].pc = "idle"
      /\ \A q \in Requests : req'[q].pc = "idle" /\ req'[q].inode = NoInode
  BY DEF Restart, AtRest, NoReq
<1>3. PICK f \in Opened :
        /\ engine' = InitialEngine(f) /\ locked' = (engine' = "none")
        /\ up' = (engine' = "none" \/ engine' = f.enc)
        /\ file'[path].enc = f.enc /\ file'[path].rows = f.rows
  BY DEF Restart, IInv, TypeOK, Opened, File
<1>4. f.rows = file[path].rows /\ (f.enc = file[path].enc \/ (f.enc = "junk" /\ Crossing))
  <2>1. CASE f = file[path] BY <2>1
  <2>2. CASE f # file[path]
    <3>1. wal.of # path /\ wal.rows # {} /\ f = [file[path] EXCEPT !.enc = "junk"] BY <2>2 DEF Opened
    <3>2. Crossing BY <3>1, NothingAssumption DEF IInv, WalFits, TypeOK, Crossing, UnlinkPcs
    <3> QED BY <3>1, <3>2 DEF IInv, TypeOK, File
  <2> QED BY <2>1, <2>2
<1>5. Connections' /\ WalFits' /\ Alone' BY <1>2, NothingAssumption DEF Connections, WalFits, Alone
<1>6. Quiet'
  <2> SUFFICES ASSUME may.quiet PROVE ~Crossing
    BY <1>2 DEF IInv, Quiet, AdminsIdle, ReplacingPcs, EarlyPcs, EnabledPcs, PlainPcs
  <2>1. SUFFICES ASSUME NEW a \in Admins, admin[a].pc \in UnlinkPcs
                 PROVE  Open(pool, req) \subseteq {path, NoInode}
    BY DEF Crossing, UnlinkPcs
  <2>2. pool = {} /\ RequestsIdle
    BY <2>1 DEF IInv, Quiet, AdminsIdle, UnlinkPcs, ReplacingPcs, EnabledPcs, PlainPcs
  <2> QED BY <2>2 DEF Open, RequestsIdle, IInv, Connections
<1>7. SettledFits' BY <1>2, <1>3 DEF SettledFits
<1>8. \A b \in Admins : CallFits(b)' /\ KeyFits(b)'
  BY <1>2 DEF CallFits, KeyFits, EarlyPcs, UnlockPcs, EnabledPcs, PlainPcs
<1>9. KeptSurvives' /\ BakHoldsPrevious'
  BY <1>2, <1>3, <1>4 DEF IInv, KeptSurvives, BakHoldsPrevious
<1> QED BY <1>1, <1>5, <1>6, <1>7, <1>8, <1>9 DEF IInv

\* The first start of a new household.
LEMMA InitIInv ==
  ASSUME Init PROVE IInv
<1> USE DEF Init, AtRest, NoReq, Empty
<1>1. TypeOK
  BY DEF TypeOK, Calls, DataRequests, FileOrNone, File, Markers, Engines
<1>2. Alone /\ Connections /\ WalFits /\ Quiet /\ SettledFits /\ KeptSurvives /\ BakHoldsPrevious
  BY DEF Alone, Connections, WalFits, Quiet, SettledFits, KeptSurvives, BakHoldsPrevious, AdminsIdle,
         ReplacingPcs, EarlyPcs, EnabledPcs, PlainPcs
<1>3. \A a \in Admins : CallFits(a) /\ KeyFits(a)
  BY DEF CallFits, KeyFits, EarlyPcs, UnlockPcs, EnabledPcs, PlainPcs
<1> QED BY <1>1, <1>2, <1>3 DEF IInv

\* Every step keeps the invariant.
LEMMA NextIInv ==
  ASSUME OneCallAtATime, IInv, [Next]_vars PROVE IInv'
<1>1. CASE UNCHANGED vars
  BY <1>1 DEF vars, disk, secrets, memory, history, IInv, TypeOK, Alone, Connections, WalFits, Quiet, SettledFits,
              CallFits, KeyFits, KeptSurvives, BakHoldsPrevious, AdminsIdle, RequestsIdle, Open
<1>2. ASSUME NEW a \in Admins, AdminBegin(a), UNCHANGED may PROVE IInv'
  <2>1. may.oneAdmin BY DEF OneCallAtATime, IInv, TypeOK
  <2> QED BY <1>2, <2>1, BeginKeeps
<1>3. ASSUME NEW a \in Admins, AdminStep(a), UNCHANGED may PROVE IInv'
  BY <1>3, EnableKeeps, DisableKeeps, RestoreKeeps, UnlockKeeps, FullKeeps DEF AdminStep
<1>4. ASSUME NEW q \in Requests, RequestOpen(q) \/ RequestStep(q), UNCHANGED may PROVE IInv'
  BY <1>4, RequestKeeps, ConnectKeeps, CommitKeeps DEF RequestStep
<1>5. ASSUME NEW upgraded, Restart(upgraded), UNCHANGED may PROVE IInv'
  BY <1>5, RestartKeeps
<1> QED BY <1>1, <1>2, <1>3, <1>4, <1>5 DEF Next

\* The inductive invariant holds of the four operations, the data requests and restarts.
THEOREM AtRestInvariant ==
  ASSUME OneCallAtATime PROVE Spec => []IInv
<1>1. Init => IInv BY InitIInv
<1>2. IInv /\ [Next]_vars => IInv' BY NextIInv
<1> QED BY <1>1, <1>2, PTL DEF Spec

\* A change that was in the database file when no export was running is still in the file at the
\* path, which is readable, whatever fails or stops and whatever requests do meanwhile, but for a
\* connection that opens the new file beside the old -wal of a request in flight.
THEOREM KeptTheorem ==
  ASSUME OneCallAtATime PROVE Spec => []KeptSurvives
<1>1. IInv => KeptSurvives BY DEF IInv
<1> QED BY <1>1, AtRestInvariant, PTL

\* Between two calls the engine, the marker and the key file fit the database file: the order of
\* os.replace, marker, key file and dbsession.configure in enable, disable, restore and unlock.
THEOREM KeysTheorem ==
  ASSUME OneCallAtATime PROVE Spec => []KeysFit
<1>1. IInv => KeysFit BY DEF IInv, SettledFits, KeysFit, AdminsIdle
<1> QED BY <1>1, AtRestInvariant, PTL

\* What a restore has replaced in a quiet household is in the .bak copy.
THEOREM BakTheorem ==
  ASSUME OneCallAtATime PROVE Spec => []BakHoldsPrevious
<1>1. IInv => BakHoldsPrevious BY DEF IInv
<1> QED BY <1>1, AtRestInvariant, PTL

\* Where no request runs beside a security or restore call the file is never ruined, wherever the
\* process is stopped: the -wal of a replaced file is empty before it is unlinked.
THEOREM QuietTheorem ==
  ASSUME OneCallAtATime PROVE Spec => [](may.quiet => file[path].enc # "junk")
<1>1. IInv => (may.quiet => file[path].enc # "junk") BY DEF IInv, KeptSurvives, Quiet
<1> QED BY <1>1, AtRestInvariant, PTL
===============================================================================
