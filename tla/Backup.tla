------------------------------- MODULE Backup ------------------------------
(* Backups of the running system and restores into it: the backup jobs of  *)
(* the API, whose only record is meta.json beside the archive, and the     *)
(* pertisk-backup command, which read and write the database and the       *)
(* directories one after the other while the services go on.               *)
EXTENDS Naturals, Sequences, FiniteSets

CONSTANTS Items,         \* repositories, blobs, artifacts: a row and a file each
          Backups,       \* backup ids of the API
          Commands,      \* runs of pertisk-backup create
          Restorers,     \* restores: requests and runs of the command
          Selections,    \* sequences of components a request may name
          MaxChanges,    \* bound: creations and removals of the services
          MaxBackupFaults, \* bound: steps that fail, and restarts of the API
          NoArchive

Kinds == {"repos", "registry", "artifacts"}
Parts == Kinds \cup {"db"}
Named == SUBSET Items
(* What a backup holds: a dump that names items of each kind, and files.   *)
Archives == {a \in [Parts -> Named \cup [Kinds -> Named] \cup {NoArchive}] :
               /\ a["db"] \in [Kinds -> Named] \cup {NoArchive}
               /\ \A k \in Kinds : a[k] \in Named \cup {NoArchive}}

ASSUME BackupAssumption ==
  /\ MaxChanges \in Nat /\ MaxBackupFaults \in Nat
  /\ NoArchive \notin Archives /\ (\A s \in Named : NoArchive # s)
  /\ Backups \cap Commands = {} /\ Selections \subseteq Seq(Parts)

VARIABLES
  rows,        \* the database: the items of each kind that it names
  files,       \* the directories: the items of each kind that are there
  meta,        \* meta.json of a backup id, or "absent"
  archive,     \* the archive of a backup id or command, or NoArchive
  task,        \* backup jobs and create commands: what is left, what is copied
  restore,     \* the restores: what is left of which archive
  shelf,       \* archives that somebody holds
  shrunk,      \* history: backups during which, or before, something was removed or restored in part
  deleted,     \* history: backups deleted while they ran
  calm,        \* history: restores since whose start nothing else wrote
  changes, faults

backupVars == <<rows, files, meta, archive, task, restore, shelf, shrunk, deleted, calm, changes, faults>>
worldVars == <<rows, files>>

NoParts == [k \in Parts |-> NoArchive]
IdleTask == [pc |-> "off", todo |-> <<>>, left |-> {}, got |-> NoParts]
Makers == Backups \cup Commands
Running(b) == task[b].pc \notin {"off", "ended"}
Restoring(r) == restore[r].pc \in {"next", "copy"}
Elements(s) == {s[i] : i \in DOMAIN s}
Names(a) == {k \in Parts : a[k] # NoArchive}
(* Every item of these kinds that the dump names is in the archive. *)
Covers(a) == a["db"] = NoArchive \/ \A k \in Kinds \cap Names(a) : a["db"][k] \subseteq a[k]
Faulty == faults < MaxBackupFaults /\ faults' = faults + 1

---------------------------------------------------------------------------
(* The services: an item comes or goes with its row. *)
Change(k, x) ==
  /\ changes < MaxChanges /\ changes' = changes + 1
  /\ IF x \in rows[k] THEN /\ rows' = [rows EXCEPT ![k] = @ \ {x}] /\ files' = [files EXCEPT ![k] = @ \ {x}]
                           /\ shrunk' = shrunk \cup {b \in Makers : Running(b)}
     ELSE /\ rows' = [rows EXCEPT ![k] = @ \cup {x}] /\ files' = [files EXCEPT ![k] = @ \cup {x}]
          /\ UNCHANGED shrunk
  /\ calm' = {}
  /\ UNCHANGED <<meta, archive, task, restore, shelf, deleted, faults>>

---------------------------------------------------------------------------
(* create_backup: meta.json, and a task of the process *)
CreateBackup(b, parts) ==
  /\ meta[b] = "absent" /\ task[b].pc = "off" /\ parts # <<>>
  /\ meta' = [meta EXCEPT ![b] = "pending"]
  /\ task' = [task EXCEPT ![b] = [IdleTask EXCEPT !.pc = "begin", !.todo = parts]]
  /\ UNCHANGED <<worldVars, archive, restore, shelf, shrunk, deleted, calm, changes, faults>>
StartBackup(b) ==
  /\ task[b].pc = "begin"
  /\ IF meta[b] = "absent" THEN task' = [task EXCEPT ![b].pc = "ended"] /\ UNCHANGED meta
     ELSE task' = [task EXCEPT ![b].pc = "next"] /\ meta' = [meta EXCEPT ![b] = "running"]
  /\ UNCHANGED <<worldVars, archive, restore, shelf, shrunk, deleted, calm, changes, faults>>
IfIn(p, S) == IF p \in S THEN <<p>> ELSE <<>>
(* mutant: the database is dumped when the files are copied *)
CliPartsLast(S) == IfIn("repos", S) \o IfIn("registry", S) \o IfIn("artifacts", S) \o IfIn("db", S)
(* run_create, run_restore: the command has an order of its own *)
CliParts(S) == IfIn("db", S) \o IfIn("repos", S) \o IfIn("registry", S) \o IfIn("artifacts", S)
CliCreate(b, skip) ==
  /\ b \in Commands /\ task[b].pc = "off"
  /\ task' = [task EXCEPT ![b] = [IdleTask EXCEPT !.pc = "next",
                                  !.todo = CliParts(Parts \ skip)]]
  /\ shrunk' = IF \A k \in Kinds : rows[k] \subseteq files[k] THEN shrunk ELSE shrunk \cup {b}
  /\ UNCHANGED <<worldVars, meta, archive, restore, shelf, deleted, calm, changes, faults>>

Todo(b) == Head(task[b].todo)
(* backup_db: pg_dump sees one state of the database *)
DumpDb(b) == /\ task[b].pc = "next" /\ task[b].todo # <<>> /\ Todo(b) = "db"
             /\ task' = [task EXCEPT ![b].got["db"] = rows, ![b].todo = Tail(@)]
             /\ UNCHANGED <<worldVars, meta, archive, restore, shelf, shrunk, deleted, calm, changes, faults>>
(* copy_dir_recursive, copy_tree: what the directory holds when it is read *)
OpenCopy(b) == /\ task[b].pc = "next" /\ task[b].todo # <<>> /\ Todo(b) \in Kinds
               /\ task' = [task EXCEPT ![b].pc = "copy", ![b].left = files[Todo(b)], ![b].got[Todo(b)] = {}]
               /\ UNCHANGED <<worldVars, meta, archive, restore, shelf, shrunk, deleted, calm, changes, faults>>
CopyItem(b, x) ==
  /\ task[b].pc = "copy" /\ x \in task[b].left /\ x \in files[Todo(b)]
  /\ task' = [task EXCEPT ![b].left = @ \ {x}, ![b].got[Todo(b)] = @ \cup {x}]
  /\ UNCHANGED <<worldVars, meta, archive, restore, shelf, shrunk, deleted, calm, changes, faults>>
(* An empty copy of the repositories is refused by the API. *)
Empty(b) == b \in Backups /\ Todo(b) = "repos" /\ task[b].got["repos"] = {}
CloseCopy(b) ==
  /\ task[b].pc = "copy" /\ task[b].left = {} /\ ~Empty(b)
  /\ task' = [task EXCEPT ![b].pc = "next", ![b].todo = Tail(@)]
  /\ UNCHANGED <<worldVars, meta, archive, restore, shelf, shrunk, deleted, calm, changes, faults>>
(* A step fails: an item is gone that the directory listed, the copy of the*)
(* repositories is empty, a tool or the disk fails.  meta.json, when it is *)
(* still there, says so; the command only ends.                            *)
Vanished(b) == task[b].pc = "copy" /\ ((Empty(b) /\ task[b].left = {}) \/ \E x \in task[b].left : x \notin files[Todo(b)])
BackupFails(b) ==
  /\ Running(b)
  /\ \/ Vanished(b) /\ UNCHANGED faults
     \/ task[b].pc \in {"next", "copy"} /\ Faulty
  /\ task' = [task EXCEPT ![b].pc = "ended"]
  /\ meta' = IF b \in Backups /\ meta[b] # "absent" THEN [meta EXCEPT ![b] = "failed"] ELSE meta
  /\ UNCHANGED <<worldVars, archive, restore, shelf, shrunk, deleted, calm, changes>>

(* create_tar_gz fails without the directory of the backup *)
WriteArchive(b) ==
  /\ task[b].pc = "next" /\ task[b].todo = <<>>
  /\ IF b \in Commands THEN archive' = [archive EXCEPT ![b] = task[b].got] /\ task' = [task EXCEPT ![b].pc = "ended"]
     ELSE IF meta[b] = "absent" THEN task' = [task EXCEPT ![b].pc = "ended"] /\ UNCHANGED archive
     ELSE archive' = [archive EXCEPT ![b] = task[b].got] /\ task' = [task EXCEPT ![b].pc = "finish"]
  /\ UNCHANGED <<worldVars, meta, restore, shelf, shrunk, deleted, calm, changes, faults>>
(* write_meta makes the directory when it is not there. *)
FinishBackup(b) == /\ task[b].pc = "finish"
                   /\ meta' = [meta EXCEPT ![b] = "completed"] /\ task' = [task EXCEPT ![b].pc = "ended"]
                   /\ UNCHANGED <<worldVars, archive, restore, shelf, shrunk, deleted, calm, changes, faults>>
DeleteBackup(b) == /\ meta[b] # "absent" /\ meta' = [meta EXCEPT ![b] = "absent"]
                   /\ archive' = [archive EXCEPT ![b] = NoArchive]
                   /\ deleted' = IF Running(b) THEN deleted \cup {b} ELSE deleted
                   /\ UNCHANGED <<worldVars, task, restore, shelf, shrunk, calm, changes, faults>>
(* download_backup; the command's archive is a file *)
Download(b) == /\ archive[b] # NoArchive /\ (b \in Backups => meta[b] = "completed") /\ archive[b] \notin shelf
               /\ shelf' = shelf \cup {archive[b]}
               /\ UNCHANGED <<worldVars, meta, archive, task, restore, shrunk, deleted, calm, changes, faults>>

---------------------------------------------------------------------------
(* run_restore of the API and of the command.  The command takes what the  *)
(* archive has, the API fails on a component that is not in the archive.   *)
OpenRestore(r, a, parts, cli) ==
  /\ restore[r].pc = "off" /\ a \in shelf
  /\ restore' = [restore EXCEPT ![r] =
       [pc |-> "next", cli |-> cli, from |-> a, left |-> {}, asked |-> IF cli THEN Names(a) ELSE Elements(parts),
        todo |-> IF cli THEN CliParts(Names(a)) ELSE parts]]
  /\ calm' = IF \E q \in Restorers : Restoring(q) THEN calm ELSE calm \cup {r}
  /\ UNCHANGED <<worldVars, meta, archive, task, shelf, shrunk, deleted, changes, faults>>
Part(r) == Head(restore[r].todo)
AtPart(r, pc) == restore[r].pc = pc /\ restore[r].todo # <<>>
(* A component that is not there, and repositories without data, end it.   *)
Refuses(r) == LET a == restore[r].from IN
  a[Part(r)] = NoArchive \/ (~restore[r].cli /\ Part(r) = "repos" /\ a["repos"] = {})
RestoreFails(r) == /\ AtPart(r, "next") \/ AtPart(r, "copy")
                   /\ (AtPart(r, "next") /\ Refuses(r) /\ UNCHANGED faults) \/ Faulty
                   /\ restore' = [restore EXCEPT ![r].pc = "failed"]
                   /\ UNCHANGED <<worldVars, meta, archive, task, shelf, shrunk, deleted, calm, changes>>
(* Everything that writes disturbs the other restores. *)
Disturbs(r) == calm' = calm \cap {r}
RestoreDb(r) == /\ AtPart(r, "next") /\ Part(r) = "db" /\ ~Refuses(r) /\ Disturbs(r)
                /\ rows' = restore[r].from["db"] /\ restore' = [restore EXCEPT ![r].todo = Tail(@)]
                /\ shrunk' = shrunk \cup {b \in Makers : Running(b)}
                /\ UNCHANGED <<files, meta, archive, task, shelf, deleted, changes, faults>>
(* The directories are emptied first: all of them by the command; by the   *)
(* API not the artifacts, and not the blobs when the archive has none.     *)
Emptied(r, k) == restore[r].cli \/ k = "repos" \/ (k = "registry" /\ restore[r].from[k] # {})
OpenFiles(r) == /\ AtPart(r, "next") /\ Part(r) \in Kinds /\ ~Refuses(r) /\ Disturbs(r)
                /\ files' = IF Emptied(r, Part(r)) THEN [files EXCEPT ![Part(r)] = {}] ELSE files
                /\ restore' = [restore EXCEPT ![r].pc = "copy", ![r].left = restore[r].from[Part(r)]]
                /\ shrunk' = shrunk \cup {b \in Makers : Running(b)}
                /\ UNCHANGED <<rows, meta, archive, task, shelf, deleted, changes, faults>>
RestoreItem(r, x) == /\ AtPart(r, "copy") /\ x \in restore[r].left /\ Disturbs(r)
                     /\ files' = [files EXCEPT ![Part(r)] = @ \cup {x}]
                     /\ restore' = [restore EXCEPT ![r].left = @ \ {x}]
                     /\ UNCHANGED <<rows, meta, archive, task, shelf, shrunk, deleted, changes, faults>>
CloseFiles(r) == /\ AtPart(r, "copy") /\ restore[r].left = {}
                 /\ restore' = [restore EXCEPT ![r].pc = "next", ![r].todo = Tail(@)]
                 /\ UNCHANGED <<worldVars, meta, archive, task, shelf, shrunk, deleted, calm, changes, faults>>
(* A database that the API restored ends its process a second later. *)
RestoreEnds(r) == /\ restore[r].pc = "next" /\ restore[r].todo = <<>>
                  /\ restore' = [restore EXCEPT ![r].pc = IF ~restore[r].cli /\ "db" \in restore[r].asked
                                                         THEN "exits" ELSE "done"]
                  /\ UNCHANGED <<worldVars, meta, archive, task, shelf, shrunk, deleted, calm, changes, faults>>
Restart == /\ \/ \E r \in Restorers : restore[r].pc = "exits" /\ UNCHANGED faults
              \/ Faulty /\ \E b \in Backups : Running(b)
           /\ task' = [b \in Makers |-> IF b \in Backups /\ Running(b) THEN [task[b] EXCEPT !.pc = "ended"] ELSE task[b]]
           /\ restore' = [r \in Restorers |->
                IF restore[r].pc = "exits" THEN [restore[r] EXCEPT !.pc = "done"]
                ELSE IF Restoring(r) /\ ~restore[r].cli THEN [restore[r] EXCEPT !.pc = "failed"] ELSE restore[r]]
           /\ UNCHANGED <<worldVars, meta, archive, shelf, shrunk, deleted, calm, changes>>

BackupNext ==
  \/ \E k \in Kinds, x \in Items : Change(k, x)
  \/ \E b \in Backups : \/ \E s \in Selections : CreateBackup(b, s)
                        \/ StartBackup(b) \/ FinishBackup(b) \/ DeleteBackup(b)
  \/ \E b \in Commands, skip \in SUBSET {"db", "artifacts"} : CliCreate(b, skip)
  \/ \E b \in Makers : \/ DumpDb(b) \/ OpenCopy(b) \/ \E x \in Items : CopyItem(b, x)
                       \/ CloseCopy(b) \/ BackupFails(b) \/ WriteArchive(b) \/ Download(b)
  \/ Restart
  \/ \E r \in Restorers :
       \/ \E a \in shelf, s \in Selections, cli \in BOOLEAN : OpenRestore(r, a, s, cli)
       \/ RestoreDb(r) \/ OpenFiles(r) \/ \E x \in Items : RestoreItem(r, x)
       \/ CloseFiles(r) \/ RestoreFails(r) \/ RestoreEnds(r)
BackupInit ==
  /\ rows \in [Kinds -> SUBSET Items] /\ files = rows
  /\ meta = [b \in Backups |-> "absent"] /\ archive = [b \in Makers |-> NoArchive]
  /\ task = [b \in Makers |-> IdleTask]
  /\ restore = [r \in Restorers |-> [pc |-> "off", cli |-> FALSE, from |-> NoArchive, left |-> {},
                                    asked |-> {}, todo |-> <<>>]]
  /\ shelf = {} /\ shrunk = {} /\ deleted = {} /\ calm = {} /\ changes = 0 /\ faults = 0
BackupSpec == BackupInit /\ [][BackupNext]_backupVars

---------------------------------------------------------------------------
BackupTypeOK ==
  /\ \A k \in Kinds : rows[k] \subseteq Items /\ files[k] \subseteq Items
  /\ \A b \in Backups : meta[b] \in {"absent", "pending", "running", "completed", "failed"}
  /\ \A b \in Makers : task[b].pc \in {"off", "begin", "next", "copy", "finish", "ended"}
  /\ \A r \in Restorers : restore[r].pc \in {"off", "next", "copy", "exits", "done", "failed"}

(* Whatever is created while the command runs, every item its dump names is*)
(* in the archive, unless something was removed or restored meanwhile, or  *)
(* the database named more than there was when it began.                   *)
DumpIsCovered == \A b \in Commands : archive[b] # NoArchive /\ b \notin shrunk => Covers(archive[b])
(* A backup that reads as completed can be downloaded, unless it was       *)
(* deleted while it ran.                                                   *)
CompletedIsThere == \A b \in Backups : meta[b] = "completed" /\ b \notin deleted => archive[b] # NoArchive
(* A restore of all of an archive that covers its dump, while nothing else *)
(* writes, leaves no row without its item.                                 *)
RestoredIsCovered == \A r \in calm :
  LET a == restore[r].from IN
  /\ restore[r].pc \in {"exits", "done"} /\ a["db"] # NoArchive /\ Covers(a) /\ Names(a) \subseteq restore[r].asked
  => \A k \in Kinds \cap Names(a) : rows[k] \subseteq files[k]

(* All three: what a dump refers to is in the archive, a backup marked     *)
(* completed can be fetched, and a restore leaves no row without its item. *)
BackupSound == DumpIsCovered /\ CompletedIsThere /\ RestoredIsCovered
===========================================================================
