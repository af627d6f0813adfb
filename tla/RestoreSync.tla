---------------------------- MODULE RestoreSync ----------------------------
(***************************************************************************)
(* A vault switch of the desktop application (switch_vault in lib.rs) and  *)
(* the crash recovery that startup runs for it (db/restore_sync.rs).       *)
(*                                                                         *)
(* The brain is one SQLite file, brain.db, with its -wal.  The outbox, the *)
(* queue of events the remote replica is still owed, is a table INSIDE     *)
(* that file, so replacing the file by a backup would lose what the        *)
(* replica is owed.  A restoring switch runs                               *)
(*                                                                         *)
(*   capture -> stage -> mark -> preserve -> unlink -> install -> dirsync  *)
(*     -> publish -> discard -> unmark -> reopen -> sync -> config         *)
(*                                                                         *)
(* and leaves five sibling files behind when it dies half-way; startup     *)
(* reads the install marker and the staged copy to tell on which side of   *)
(* the install rename the crash fell.  One action per call that changes a  *)
(* file, so that a crash can fall between any two of them; any call in     *)
(* Faults can fail.                                                        *)
(*                                                                         *)
(* Abstracted: the content of a database is the vault it was filled for,   *)
(* an identity of the file, the set of replicated records and the outbox;  *)
(* the -wal, when there is one, holds the whole committed content and the  *)
(* main file only the last checkpoint.  The outbox is the set of its rows: *)
(* equal rows have equal ids, so INSERT OR IGNORE is set union, and a row  *)
(* carries created_at, so the drain order is the order of `at`.            *)
(* Removing a file is best effort in the code and never fails here, except *)
(* for the install marker (fault "unmark").                                *)
(*                                                                         *)
(* A headless --mcp process knows nothing of a switch: it takes no lock,   *)
(* it may open the brain at any moment, between two steps of a switch or   *)
(* of a start, and write to it as long as it lives.  What it does to the   *)
(* switch in a narrow window is named in HeadlessRaces, and happens only in *)
(* an instance whose Races hold that name.                                 *)
(***************************************************************************)
EXTENDS Naturals, FiniteSets

CONSTANTS
    Vaults,         \* vault roots the user switches between
    Records,        \* entries and tasks, by id
    None,           \* an absent file
    Empty,          \* a -wal without a frame
    Torn,           \* a file whose writing was cut short
    Faults,         \* the calls that may fail
    LastFaults,     \* those that may fail after the last switch began
    Races,          \* the races with a headless process that happen
    MaxFaults,      \* bound: failed calls
    MaxCrashes,     \* bound: process deaths
    MaxSwitches,    \* bound: switches
    MaxWrites,      \* bound: committed writes
    MaxStarts,      \* bound: headless processes
    Owner,          \* the vault in which a record's random id was minted
    InitVault,      \* the vault in use at first
    InitRecs,       \* its records
    InitBackups     \* possible backups in the vaults at first

FaultKinds == {"capture", "stage", "mark", "preserve", "install", "dirsync",
               "publish", "unmark", "clear", "reopen", "sync", "config",
               "walrename"}

\* "window":  it opens the brain after the journal was removed and before the
\*            backup is installed;
\* "restart": it opens the brain after a crash, before startup has put the kept
\*            journal back;
\* "copied":  it writes between the journal's copy and the journal's removal;
\* "stamped": it writes between the switch's reading of the clock and the
\*            capture, or the clearing, that is stamped with it;
\* "exit":    its last connection checkpoints a journal that is no longer the
\*            brain's, or that a kept copy is going to be put over.
HeadlessRaces == {"window", "restart", "copied", "stamped", "exit"}

ASSUME RestoreSyncAssumption ==
    /\ Faults \cup LastFaults \subseteq FaultKinds /\ Races \subseteq HeadlessRaces
    /\ MaxFaults \in Nat /\ MaxCrashes \in Nat /\ MaxSwitches \in Nat
    /\ MaxWrites \in Nat /\ MaxStarts \in Nat
    /\ Owner \in [Records -> Vaults]
    /\ InitVault \in Vaults /\ InitRecs \subseteq Records

Event   == [at : Nat, op : {"Insert", "Delete"}, rec : Records]
Content == [vault : Vaults, file : Nat, recs : SUBSET Records,
            outbox : SUBSET Event]
Capture == [file : Nat, recs : SUBSET Records, outbox : SUBSET Event]

ASSUME FilesAssumption ==
    /\ {None, Empty, Torn} \cap (Content \cup Capture) = {}
    /\ None # Torn /\ None # Empty /\ Empty # Torn
    /\ InitBackups \subseteq [Vaults -> Content \cup {None}]

\* e is the latest of the events of its record.
Last(e, O) == e \in O /\ \A f \in O : f.rec = e.rec => f.at <= e.at

\* The outbox deletes what it speaks of and the tables do not hold.
Truthful(c) ==
    \A e \in c.outbox :
        Last(e, c.outbox) /\ e.rec \notin c.recs => e.op = "Delete"

\* A backup at first was taken of its own vault, before clock = 2, and like any
\* brain it queued an event with each change.
ASSUME BackupsAssumption ==
    \A b \in InitBackups : \A v \in Vaults : b[v] # None =>
        /\ b[v].vault = v
        /\ \A e \in b[v].outbox : e.at < 2
        /\ Truthful(b[v])

VARIABLES
    \* files beside brain.db
    main,       \* brain.db as of its last checkpoint
    wal,        \* brain.db-wal
    sidecar,    \* brain.db.sync-capture
    pending,    \* brain.db.sync-capture.pending
    staged,     \* brain.db.restore-incoming
    marker,     \* brain.db.restore-installing
    kept,       \* brain.db-wal.outgoing
    backups,    \* .brain/brain.db.bak of each vault
    config,     \* vaultPath of config.json
    \* locals of switch_vault
    pc, target, installed, align,
    now,        \* the clock as it read when the switch began
    \* the rest of the world
    mcp,        \* a headless --mcp process holds a connection to brain.db
    stale,      \* what a connection reads whose journal was removed under it
    replica,    \* records the remote replica holds
    clock,      \* now_ms
    saved,      \* (history) what was last committed to the brain in use
    faults, crashes, switches, writes, starts

files  == <<main, wal, sidecar, pending, staged, marker, kept>>
locals == <<target, installed, align, now>>
world  == <<backups, config, mcp, stale, replica, clock, saved>>
bounds == <<faults, crashes, switches, writes, starts>>
others == <<crashes, switches, writes, starts>>
vars   == <<files, locals, world, bounds, pc>>

SwitchSteps == {"capture", "stage", "mark", "preserve", "unlink", "install",
                "dirsync", "publish", "discard", "unmark", "clear", "reopen",
                "sync", "consume", "config"}
ErrorSteps  == {"err", "err_discard", "err_wal", "err_staged", "err_unmark",
                "err_align", "err_reopen"}
BootSteps   == {"boot", "boot_staged", "boot_publish", "boot_rollback",
                "boot_rmstaged", "boot_unmark", "boot_open", "boot_sync",
                "boot_consume"}
Steps == SwitchSteps \cup ErrorSteps \cup BootSteps
            \cup {"idle", "stranded", "down"}

-----------------------------------------------------------------------------
(* The database *)

\* A journal from which a connection would read something.
HasRows(j) == j \notin {None, Empty}

\* What a connection to brain.db reads.
Live == IF HasRows(wal) THEN wal ELSE main

\* A committed transaction: in WAL mode it lands in the -wal.
Commit(c) == wal' = c /\ saved' = c

\* A connection closes.  The last one checkpoints and drops the -wal; as long as
\* another process holds the file, the -wal stays.
Held      == mcp \/ stale # None
OpenedWal == IF wal = None THEN Empty ELSE wal
CloseBrain ==
    IF Held THEN wal' = OpenedWal /\ UNCHANGED main
            ELSE wal' = None /\ main' = Live

\* Mutant: the capture forgets the undrained rows.
CaptureWithoutOutbox(c) == [file |-> c.file, recs |-> c.recs]

CaptureOf(c) == [file |-> c.file, recs |-> c.recs, outbox |-> c.outbox]

\* Mutant: what the file on disk holds is not re-asserted.
SyncedWithoutInserts(c, cap, t) ==
    [c EXCEPT !.outbox = @ \cup cap.outbox
        \cup [at : {t}, op : {"Delete"}, rec : cap.recs]]

\* sync(): re-push the captured rows, Delete what was captured, re-assert
\* what the file on disk holds.  The later rowids of the Inserts are a later
\* `at`.
Synced(c, cap, t) ==
    [c EXCEPT !.outbox = @ \cup cap.outbox
        \cup [at : {t},     op : {"Delete"}, rec : cap.recs]
        \cup [at : {t + 1}, op : {"Insert"}, rec : c.recs]]

\* clear_vault_tables: Delete events for every record, then no record.
Cleared(c, v, t) ==
    [c EXCEPT !.vault = v, !.recs = {},
              !.outbox = @ \cup [at : {t}, op : {"Delete"}, rec : c.recs]]

CanFail(k) ==
    /\ k \in Faults \/ (k \in LastFaults /\ switches = MaxSwitches)
    /\ faults < MaxFaults

\* The call succeeds, and control goes on at step p.
Goto(p) == pc' = p /\ UNCHANGED faults

\* The call fails, and control goes on at step p.
FailTo(k, p) == CanFail(k) /\ faults' = faults + 1 /\ pc' = p

Fail(k) == FailTo(k, "err")

\* The locals of switch_vault go with the call.
NoLocals == target' = InitVault /\ installed' = FALSE /\ align' = FALSE /\ now' = 0

-----------------------------------------------------------------------------
(* switch_vault *)

\* Same vault: early return.  Otherwise the watcher, the pipeline and the
\* outbox worker stop, the desktop's own connection closes and the clock is read
\* once for all that the switch stamps.
BeginSwitch(v, restore) ==
    /\ pc = "idle" /\ switches < MaxSwitches /\ v # config
    /\ switches' = switches + 1
    /\ target' = v /\ installed' = FALSE /\ align' = FALSE
    /\ now' = clock /\ clock' = clock + 2
    /\ CloseBrain
    /\ Goto(IF restore /\ backups[v] # None THEN "capture" ELSE "clear")
    /\ UNCHANGED <<sidecar, pending, staged, marker, kept, backups, config, mcp,
                   stale, replica, saved, crashes, writes, starts>>

\* The capture reads over a connection of its own, and closes it.
CaptureToSidecar ==
    /\ pc = "capture"
    /\ \/ pending' = CaptureOf(Live) /\ CloseBrain /\ Goto("stage")
       \/ /\ pending' \in {pending, Torn}
          /\ UNCHANGED <<main, wal>> \/ CloseBrain
          /\ Fail("capture")
    /\ UNCHANGED <<sidecar, staged, marker, kept, locals, world, others>>

\* The staged copy is a new file: it takes a fresh identity.
StageBackup ==
    /\ pc = "stage"
    /\ \/ /\ staged' = [backups[target] EXCEPT !.file = clock]
          /\ clock' = clock + 1
          /\ Goto("mark")
       \/ staged' \in {staged, Torn} /\ Fail("stage") /\ UNCHANGED clock
    /\ UNCHANGED <<main, wal, sidecar, pending, marker, kept, locals, backups,
                   config, mcp, stale, replica, saved, others>>

WriteInstallMarker ==
    /\ pc = "mark"
    /\ \/ marker' = TRUE /\ Goto("preserve")
       \/ marker' \in {marker, TRUE} /\ Fail("mark")
    /\ UNCHANGED <<main, wal, sidecar, pending, staged, kept, locals, world,
                   others>>

\* Mutant: the journal is removed without keeping a copy.
PreserveNothing ==
    /\ pc = "preserve" /\ Goto("unlink")
    /\ UNCHANGED <<files, locals, world, others>>

PreserveOutgoingWal ==
    /\ pc = "preserve"
    /\ \/ kept' = (IF wal = None THEN kept ELSE wal) /\ Goto("unlink")
       \/ wal # None /\ kept' \in {kept, wal, Torn} /\ Fail("preserve")
    /\ UNCHANGED <<main, wal, sidecar, pending, staged, marker, locals, world,
                   others>>

\* remove_sqlite_sidecars.  A headless connection keeps its handles of the brain
\* and of the removed journal.
RemoveSqliteSidecars ==
    /\ pc = "unlink"
    /\ wal' = None /\ mcp' = FALSE
    /\ stale' = (IF mcp THEN Live ELSE stale)
    /\ Goto("install")
    /\ UNCHANGED <<main, sidecar, pending, staged, marker, kept, locals,
                   backups, config, replica, clock, saved, others>>

\* Mutant: the config is only aligned by a switch that got past the fsync.
CommitWithoutAlign ==
    /\ pc = "install" /\ main' = staged /\ saved' = staged /\ staged' = None
    /\ installed' = TRUE /\ mcp' = FALSE /\ stale' = None /\ Goto("dirsync")
    /\ UNCHANGED <<wal, sidecar, pending, marker, kept, target, align, now,
                   backups, config, replica, clock, others>>

\* The point of no return: one rename consumes the staged copy.  Handles of the
\* replaced file are of a file without a name from here on, and do nothing to
\* the brain when they close.
CommitStagedBackup ==
    /\ pc = "install"
    /\ \/ /\ main' = staged /\ saved' = staged /\ staged' = None
          /\ installed' = TRUE /\ align' = TRUE
          /\ mcp' = FALSE /\ stale' = None
          /\ Goto("dirsync")
       \/ /\ Fail("install")
          /\ UNCHANGED <<main, staged, saved, installed, align, mcp, stale>>
    /\ UNCHANGED <<wal, sidecar, pending, marker, kept, target, now, backups,
                   config, replica, clock, others>>

SyncInstallDir ==
    /\ pc = "dirsync"
    /\ Goto("publish") \/ Fail("dirsync")
    /\ UNCHANGED <<files, locals, world, others>>

\* publish_sidecar: a no-op without a pending capture; an error may come
\* after the rename, from the directory fsync.
Publish(next, onError) ==
    /\ \/ /\ sidecar' = (IF pending = None THEN sidecar ELSE pending)
          /\ pending' = None
          /\ Goto(next)
       \/ /\ pending # None
          /\ \/ UNCHANGED <<sidecar, pending>>
             \/ sidecar' = pending /\ pending' = None
          /\ FailTo("publish", onError)
    /\ UNCHANGED <<main, wal, staged, marker, kept, locals, world,
                   others>>

PublishSidecar == pc = "publish" /\ Publish("discard", "err")

DropKeptWal(at, next) ==
    /\ pc = at /\ kept' = None
    /\ Goto(next)
    /\ UNCHANGED <<main, wal, sidecar, pending, staged, marker, locals, world,
                   others>>

DiscardOutgoingWal == DropKeptWal("discard", "unmark")

\* Removing the marker is best effort: a failure is ignored.
Unmark(at, next) ==
    /\ pc = at
    /\ \/ marker' = FALSE /\ Goto(next)
       \/ marker /\ UNCHANGED marker /\ FailTo("unmark", next)
    /\ UNCHANGED <<main, wal, sidecar, pending, staged, kept, locals, world,
                   others>>

ClearInstallMarker == Unmark("unmark", "reopen")

\* The other branch: no backup to restore, so the tables are emptied in the
\* file that is there, over a connection of its own.
ClearVaultTables ==
    /\ pc = "clear"
    /\ \/ /\ saved' = Cleared(Live, target, now)
          /\ IF Held THEN wal' = saved' /\ UNCHANGED main
                     ELSE wal' = None /\ main' = saved'
          /\ align' = TRUE
          /\ Goto("reopen")
       \/ /\ UNCHANGED <<main, wal>> \/ CloseBrain
          /\ Fail("clear") /\ UNCHANGED <<saved, align>>
    /\ UNCHANGED <<sidecar, pending, staged, marker, kept, target, installed, now,
                   backups, config, mcp, stale, replica, clock, others>>

\* Mutant: the reopen wants the file for itself.
ReopenExclusive ==
    /\ pc = "reopen" /\ ~mcp /\ Goto("sync")
    /\ UNCHANGED <<files, locals, world, others>>

ReopenBrain ==
    /\ pc = "reopen"
    /\ Goto("sync") \/ Fail("reopen")
    /\ UNCHANGED <<files, locals, world, others>>

\* The clock after something was stamped with t and t + 1.
Past(t) == IF clock < t + 2 THEN t + 2 ELSE clock

\* Mutant: the sidecar is removed before the sync has committed.
RunPendingRemovesFirst(t, next, skip, onError) ==
    /\ sidecar' = None
    /\ \/ /\ sidecar \in {None, Torn} /\ Goto(skip)
          /\ UNCHANGED <<wal, saved, clock>>
       \/ /\ sidecar \notin {None, Torn}
          /\ \/ Commit(Synced(Live, sidecar, t)) /\ clock' = Past(t) /\ Goto(next)
             \/ FailTo("sync", onError) /\ UNCHANGED <<wal, saved, clock>>

\* run_pending, up to the commit of sync(), which stamps with t; an unparseable
\* capture counts as absent and is removed.
RunPending(t, next, skip, onError) ==
    \/ /\ sidecar \in {None, Torn} /\ sidecar' = None
       /\ Goto(skip)
       /\ UNCHANGED <<wal, saved, clock>>
    \/ /\ sidecar \notin {None, Torn} /\ UNCHANGED sidecar
       /\ \/ /\ Commit(Synced(Live, sidecar, t)) /\ clock' = Past(t)
             /\ Goto(next)
          \/ FailTo("sync", onError) /\ UNCHANGED <<wal, saved, clock>>

SyncUnchanged ==
    UNCHANGED <<main, pending, staged, marker, kept, locals, backups, config,
                mcp, stale, replica, others>>

\* The switch stamps with the clock as it read when it began.
SyncOutbox ==
    pc = "sync" /\ RunPending(now, "consume", "config", "err") /\ SyncUnchanged

\* ... and the removal of the sidecar that follows the commit.
DropSidecar(at, next) ==
    /\ pc = at /\ sidecar' = None
    /\ Goto(next)
    /\ UNCHANGED <<main, wal, pending, staged, marker, kept, locals, world,
                   others>>

ConsumeSidecar == DropSidecar("consume", "config")

SetVaultPath ==
    /\ pc = "config"
    /\ \/ config' = target /\ Goto("idle") /\ NoLocals
       \/ Fail("config") /\ UNCHANGED <<config, locals>>
    /\ UNCHANGED <<files, backups, mcp, stale, replica, clock, saved,
                   others>>

-----------------------------------------------------------------------------
(* The error path of switch_vault *)

\* Mutant: the error path drops the capture of an installed backup.
ErrDropsCapture ==
    /\ pc = "err" /\ installed /\ pending' = None /\ Goto("err_discard")
    /\ UNCHANGED <<main, wal, sidecar, staged, marker, kept, locals, world,
                   others>>

\* Installed: publish (a failure is only logged) and drop the old journal.
ErrPublish == pc = "err" /\ installed /\ Publish("err_discard", "err_discard")

ErrDiscardWal == DropKeptWal("err_discard", "err_unmark")

DropPending(next) ==
    /\ pending' = None
    /\ Goto(next)
    /\ UNCHANGED <<main, wal, sidecar, staged, marker, kept, locals, world,
                   others>>

\* Not installed: the capture, the journal and the staged copy of a restore
\* that never happened.
ErrDiscardPending == pc = "err" /\ ~installed /\ DropPending("err_wal")

\* restore_outgoing_wal: rename the copy back unless a -wal is there; when
\* the rename fails the copy is removed.
RestoreWal(next) ==
    /\ kept' = None
    /\ \/ wal' = (IF kept # None /\ wal = None THEN kept ELSE wal) /\ Goto(next)
       \/ /\ kept # None /\ wal = None
          /\ UNCHANGED wal /\ FailTo("walrename", next)
    /\ UNCHANGED <<main, sidecar, pending, staged, marker, locals, world,
                   others>>

ErrRestoreWal == pc = "err_wal" /\ RestoreWal("err_staged")

DropStaged(next) ==
    /\ staged' = None
    /\ Goto(next)
    /\ UNCHANGED <<main, wal, sidecar, pending, marker, kept, locals, world,
                   others>>

ErrRemoveStaged == pc = "err_staged" /\ DropStaged("err_unmark")

ErrClearMarker == Unmark("err_unmark", "err_align")

\* A config that cannot be written is only logged.
ErrAlignConfig ==
    /\ pc = "err_align"
    /\ \/ config' = (IF align THEN target ELSE config) /\ Goto("err_reopen")
       \/ align /\ UNCHANGED config /\ FailTo("config", "err_reopen")
    /\ UNCHANGED <<files, locals, backups, mcp, stale, replica, clock, saved,
                   others>>

\* recover_after_failed_switch_vault: reopen the file, restart the workers.
\* It does not run run_pending.  When the reopen fails too, the application
\* stays on an empty stub database.
RecoverReopen ==
    /\ pc = "err_reopen"
    /\ Goto("idle") \/ FailTo("reopen", "stranded")
    /\ NoLocals
    /\ UNCHANGED <<files, world, others>>

-----------------------------------------------------------------------------
(* Startup *)

Launch ==
    /\ pc = "down"
    /\ Goto("boot")
    /\ UNCHANGED <<files, locals, world, others>>

\* Mutant: startup publishes a pending capture without asking for a marker.
BootPublishesAnyway ==
    pc = "boot" /\ ~marker /\ Publish("boot_staged", "boot_staged")

\* reconcile_interrupted_install, without a marker: strays.
BootNoMarker == pc = "boot" /\ ~marker /\ DropPending("boot_staged")

BootRemoveStray == pc = "boot_staged" /\ DropStaged("boot_open")

\* Marker and no staged copy: the install committed.
BootCommitted ==
    marker /\ staged = None /\ DropKeptWal("boot", "boot_publish")

\* Mutant: startup drops the capture of a committed install.
BootDropsCapture == pc = "boot_publish" /\ DropPending("boot_unmark")

BootPublish == pc = "boot_publish" /\ Publish("boot_unmark", "boot_unmark")

\* Mutant: the rollback forgets the capture.
BootRollbackKeepsCapture ==
    pc = "boot" /\ marker /\ staged # None /\ RestoreWal("boot_rmstaged")

\* Marker and staged copy: nothing was replaced.
BootRestoreWal ==
    pc = "boot" /\ marker /\ staged # None /\ RestoreWal("boot_rollback")

BootDiscardPending == pc = "boot_rollback" /\ DropPending("boot_rmstaged")

BootRemoveStaged == pc = "boot_rmstaged" /\ DropStaged("boot_unmark")

BootClearMarker == Unmark("boot_unmark", "boot_open")

BootOpen ==
    /\ pc = "boot_open"
    /\ Goto("boot_sync")
    /\ UNCHANGED <<files, locals, world, others>>

\* Mutant: startup does not look for a published capture.
BootSkipsSync ==
    /\ pc = "boot_sync" /\ Goto("idle")
    /\ UNCHANGED <<files, locals, world, others>>

\* A failed sync is logged and the sidecar stays for the next start.
BootSync ==
    /\ pc = "boot_sync" /\ RunPending(clock, "boot_consume", "idle", "idle")
    /\ SyncUnchanged

BootConsume == DropSidecar("boot_consume", "idle")

-----------------------------------------------------------------------------
(* The environment *)

\* The process dies; the file it was writing may be cut short.
Crash ==
    /\ pc # "down" /\ crashes < MaxCrashes
    /\ crashes' = crashes + 1
    /\ pending' \in {pending} \cup (IF pc = "capture"  THEN {Torn} ELSE {})
    /\ staged'  \in {staged}  \cup (IF pc = "stage"    THEN {Torn} ELSE {})
    /\ kept'    \in {kept}    \cup (IF pc = "preserve" /\ wal # None
                                    THEN {Torn} ELSE {})
    /\ pc' = "down" /\ NoLocals
    /\ UNCHANGED <<main, wal, sidecar, marker, world, faults, switches, writes,
                   starts>>

\* The user quits; the last connection checkpoints.
Quit ==
    /\ pc \in {"idle", "stranded"}
    /\ IF pc = "idle" THEN CloseBrain ELSE UNCHANGED <<main, wal>>
    /\ Goto("down")
    /\ UNCHANGED <<sidecar, pending, staged, marker, kept, locals, world,
                   others>>

Written(r) ==
    LET c  == Live
        op == IF r \in c.recs THEN "Delete" ELSE "Insert"
    IN  [c EXCEPT !.recs = IF r \in @ THEN @ \ {r} ELSE @ \cup {r},
                  !.outbox = @ \cup {[at |-> clock, op |-> op, rec |-> r]}]

\* A committed write adds or removes a record and queues its event, in one
\* transaction: by the desktop when it runs, by a headless process any time
\* it holds a connection.
Write(r) ==
    /\ writes < MaxWrites /\ Owner[r] = Live.vault
    /\ \/ pc = "idle"
       \/ /\ mcp
          /\ pc = "unlink" => "copied" \in Races
          /\ pc \in {"capture", "clear"} => "stamped" \in Races
    /\ Commit(Written(r))
    /\ clock' = clock + 1 /\ writes' = writes + 1
    /\ UNCHANGED <<main, sidecar, pending, staged, marker, kept, locals,
                   backups, config, mcp, stale, replica, faults, crashes,
                   switches, starts, pc>>

\* The outbox worker delivers the oldest row and deletes it.
Drain ==
    /\ pc = "idle"
    /\ \E e \in Live.outbox :
         /\ \A f \in Live.outbox : e.at <= f.at
         /\ Commit([Live EXCEPT !.outbox = @ \ {e}])
         /\ replica' = IF e.op = "Insert" THEN replica \cup {e.rec}
                                          ELSE replica \ {e.rec}
    /\ UNCHANGED <<main, sidecar, pending, staged, marker, kept, locals,
                   backups, config, mcp, stale, clock, bounds, pc>>

\* backup_vault_db: a snapshot of the whole file into the configured vault.
Backup ==
    /\ pc = "idle"
    /\ backups' = [backups EXCEPT ![config] = Live]
    /\ UNCHANGED <<files, locals, config, mcp, stale, replica, clock, saved, bounds,
                   pc>>

\* The desktop holds a connection.
Connected == pc \in {"idle", "sync", "consume", "config", "boot_sync", "boot_consume"}

\* A headless process starts: it brings the schema up to date over a connection
\* that it closes again, then opens the brain for as long as it lives, which
\* makes a -wal where there was none.  It does not ask for an install marker.
McpAttach ==
    /\ ~mcp /\ starts < MaxStarts
    /\ pc = "install" => "window" \in Races
    /\ pc # "install" /\ HasRows(kept) /\ staged # None /\ wal = None
         => "restart" \in Races
    /\ mcp' = TRUE /\ starts' = starts + 1
    /\ IF Connected \/ Held THEN wal' = OpenedWal /\ UNCHANGED main
                            ELSE wal' = Empty /\ main' = Live
    /\ UNCHANGED <<sidecar, pending, staged, marker, kept, locals, backups,
                   config, stale, replica, clock, saved, faults, crashes,
                   switches, writes, pc>>

\* The journal of a headless connection is the brain's, and no kept copy waits to
\* be put over what it holds.
MayCheckpoint(c) ==
    c = saved /\ (staged # None /\ HasRows(kept) => kept = c)

\* The headless process exits.  When it is killed, has only read, or leaves the
\* brain to the desktop, nothing happens to the files; otherwise its last
\* connection checkpoints its journal and removes the -wal.
McpExit ==
    /\ Held /\ mcp' = FALSE /\ stale' = None
    /\ \/ UNCHANGED <<main, wal>>
       \/ LET c == IF mcp THEN Live ELSE stale
          IN  /\ ~Connected /\ (~MayCheckpoint(c) => "exit" \in Races)
              /\ main' = c /\ wal' = None
    /\ UNCHANGED <<sidecar, pending, staged, marker, kept, locals, backups,
                   config, replica, clock, saved, bounds, pc>>

-----------------------------------------------------------------------------
(* Initial states: the user works in some vault with a synced replica; other *)
(* vaults may have a backup taken there earlier, with rows it had not        *)
(* drained yet.                                                              *)

Init ==
    /\ config = InitVault /\ backups \in InitBackups
    /\ main = [vault |-> InitVault, file |-> 0, recs |-> InitRecs, outbox |-> {}]
    /\ replica = InitRecs /\ saved = main
    /\ wal = None /\ sidecar = None /\ pending = None /\ staged = None
    /\ marker = FALSE /\ kept = None
    /\ pc = "idle" /\ target = InitVault /\ installed = FALSE /\ align = FALSE
    /\ now = 0 /\ mcp = FALSE /\ stale = None /\ clock = 2
    /\ faults = 0 /\ crashes = 0 /\ switches = 0 /\ writes = 0 /\ starts = 0

SwitchStep ==
    \/ CaptureToSidecar \/ StageBackup \/ WriteInstallMarker
    \/ PreserveOutgoingWal \/ RemoveSqliteSidecars \/ CommitStagedBackup
    \/ SyncInstallDir \/ PublishSidecar \/ DiscardOutgoingWal
    \/ ClearInstallMarker \/ ClearVaultTables \/ ReopenBrain \/ SyncOutbox
    \/ ConsumeSidecar \/ SetVaultPath

ErrorStep ==
    \/ ErrPublish \/ ErrDiscardWal \/ ErrDiscardPending \/ ErrRestoreWal
    \/ ErrRemoveStaged \/ ErrClearMarker \/ ErrAlignConfig \/ RecoverReopen

BootStep ==
    \/ BootNoMarker \/ BootRemoveStray \/ BootCommitted \/ BootPublish
    \/ BootRestoreWal \/ BootDiscardPending \/ BootRemoveStaged
    \/ BootClearMarker \/ BootOpen \/ BootSync \/ BootConsume

Environment ==
    \/ \E v \in Vaults, restore \in BOOLEAN : BeginSwitch(v, restore)
    \/ Launch \/ Crash \/ Quit
    \/ \E r \in Records : Write(r)
    \/ Drain \/ Backup \/ McpAttach \/ McpExit

Next == SwitchStep \/ ErrorStep \/ BootStep \/ Environment

Spec == Init /\ [][Next]_vars

-----------------------------------------------------------------------------
(* Properties *)

FileOf(S) == S \cup {None, Torn}

TypeOK ==
    /\ main \in Content /\ saved \in Content
    /\ wal \in Content \cup {None, Empty} /\ kept \in FileOf(Content) \cup {Empty}
    /\ staged \in FileOf(Content)
    /\ sidecar \in FileOf(Capture) /\ pending \in FileOf(Capture)
    /\ marker \in BOOLEAN /\ installed \in BOOLEAN /\ align \in BOOLEAN
    /\ backups \in [Vaults -> Content \cup {None}]
    /\ config \in Vaults /\ target \in Vaults
    /\ pc \in Steps /\ mcp \in BOOLEAN /\ stale \in Content \cup {None}
    /\ replica \subseteq Records /\ clock \in Nat /\ now \in Nat
    /\ faults \in Nat /\ crashes \in Nat /\ switches \in Nat
    /\ writes \in Nat /\ starts \in Nat

\* No file in use is unsound: the brain is never a torn copy, a torn capture is
\* never published, a torn journal is never put back, and a journal is never
\* paired with another file's main database, into which it would replay the
\* outgoing vault's pages.
FilesAreSound ==
    /\ Torn \notin {main, wal, sidecar}
    /\ HasRows(wal) => wal.file = main.file

\* A capture is visible to startup recovery only once the database it was
\* taken from has been replaced; otherwise recovery would queue Deletes for
\* records that are live in the vault the user never left.
CaptureBelongsToReplacedFile ==
    sidecar \notin {None, Torn} => sidecar.file # Live.file

\* A published capture stays until its sync has committed, however many
\* starts and switches that takes.
PublishedCaptureIsKept ==
    [][sidecar \notin {None, Torn} /\ sidecar' # sidecar
         => pc \in {"consume", "boot_consume"}]_vars

\* Once the install has replaced the file it was taken from, an unpublished
\* capture is the only record of what the replica is owed: it is published,
\* never dropped or overwritten.
OwedCaptureIsPublished ==
    [][pending \notin {None, Torn} /\ pending.file # Live.file /\ pending' # pending
         => sidecar' = pending]_vars

\* Whatever a switch got to before it failed or died, the application goes
\* back to work on exactly what was last committed: the whole outgoing
\* database, or the whole backup.
BrainWhole ==
    pc = "idle" => /\ Live = saved
                   /\ ~marker
                   /\ {pending, staged, kept} = {None}

\* Once the outbox has drained (and an owed sync has run), the replica holds
\* exactly the records of the brain in use.
Settled(c) ==
    \A r \in Records :
        LET about == {e \in c.outbox : e.rec = r}
            last  == {e \in about : \A f \in about : f.at <= e.at}
        IN  IF about = {} THEN r \in replica <=> r \in c.recs
                          ELSE \A e \in last : e.op = "Insert" <=> r \in c.recs

ReplicaIsOwed ==
    pc = "idle" =>
        Settled(IF sidecar \in {None, Torn} THEN Live
                                            ELSE Synced(Live, sidecar, clock))

\* The configured vault is the one the brain on disk was filled for.
ConfigFollowsBrain == pc = "idle" => config = Live.vault

\* A switch, and a start after a crash, always come to an end.
SwitchEnds == pc \notin {"idle", "stranded"} ~> pc \in {"idle", "stranded"}

\* As long as the application is started again and again, a capture that was
\* published is eventually synced into the outbox.
CaptureIsSynced ==
    []<>(pc = "down") => (sidecar # None ~> sidecar = None)

\* A running switch and a starting application keep going.
FairSpec == Spec /\ WF_vars(SwitchStep \/ ErrorStep \/ BootStep \/ Launch)
=============================================================================
