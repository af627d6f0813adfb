------------------------- MODULE RestoreSyncProofs -------------------------
(***************************************************************************)
(* Proofs about RestoreSync: whatever fails and wherever the process dies, *)
(* a vault switch leaves one whole brain, and what the replica is owed.    *)
(*                                                                         *)
(* Five inductive invariants, each built on those before it.  FilesInv says *)
(* what the sibling files hold on either side of the install rename, which *)
(* is what startup has to find out; OneCapture that no capture waits while *)
(* another is published; DebtInv what the outbox, a capture and the replica *)
(* have to do with each other; StampInv, inductive with it, that what a    *)
(* switch stamps with the clock as it read at first falls between the      *)
(* events it outlasts and those of a headless writer since; VaultInv whose *)
(* records the brain holds.                                                *)
(***************************************************************************)
EXTENDS RestoreSync, TLAPS

-----------------------------------------------------------------------------
(* Hypotheses: the failures that the code does not survive, by what TLC shows *)
(* (README, section 5), do not happen.  Every other call may fail, at any     *)
(* moment and any number of times.                                            *)

\* The cleanups that the code does not repeat: publishing a capture, removing
\* the marker, putting the kept journal back; and no headless process opens,
\* writes or checkpoints the brain in one of the windows of HeadlessRaces.
CleanupsSucceed ==
    /\ Races = {}
    /\ {"publish", "unmark", "walrename"} \cap (Faults \cup LastFaults) = {}

\* A published capture is synced before the next switch begins; the last
\* switch may leave it to a later start.
CapturesAreSynced == {"dirsync", "reopen", "sync"} \cap Faults = {}

\* The process lives until the configuration is written, and the error path can
\* write it if the switch could not.
ConfigIsWritten ==
    /\ MaxCrashes = 0
    /\ "config" \notin Faults \cup LastFaults \/ MaxFaults <= 1

-----------------------------------------------------------------------------
(* Definitions of the invariants *)

Whole(x) == x \notin {None, Torn}

\* No marker: no file of the brain has been touched, and a capture is of the
\* file that is there.
NothingBegun ==
    ~marker => /\ kept = None /\ Live = saved
               /\ Whole(pending) => pending.file = main.file

\* The main file and the copy of its journal hold what was last committed.
Preserved == kept # Torn /\ saved = IF HasRows(kept) THEN kept ELSE main

\* A marker and a staged copy: the brain is the outgoing one, its journal in
\* place or kept.
NothingReplaced ==
    marker /\ staged # None =>
        /\ staged # Torn /\ pending # Torn
        /\ Whole(pending) => pending.file = main.file
        /\ IF wal # None THEN saved = Live ELSE Preserved
        /\ HasRows(kept) /\ kept # Torn => kept.file = main.file

\* A marker and no staged copy: the brain is the backup, and the capture is of
\* the file it replaced.
Replaced ==
    marker /\ staged = None =>
        /\ Live = saved /\ pending # Torn
        /\ Whole(pending) => pending.file # main.file

\* Each file that is installed is a new one, and no published capture was
\* taken from the file in use or from one about to be installed.
Identities ==
    /\ main.file < clock
    /\ HasRows(wal) => wal.file = main.file
    /\ stale # None => stale.file = main.file
    /\ sidecar # None => /\ sidecar # Torn /\ sidecar.file < clock
                         /\ sidecar.file # main.file
    /\ Whole(pending) => pending.file < clock
    /\ Whole(staged) => /\ staged.file < clock /\ staged.file # main.file
                        /\ sidecar # None => sidecar.file # staged.file

\* A headless process with a connection reads what was last committed.
HeadlessReads == mcp => Live = saved

Clean == ~marker /\ pending = None /\ staged = None /\ kept = None

\* Which files are there at which step.
AtStep ==
    /\ pc \in {"idle", "capture", "clear", "reopen", "sync", "consume", "config",
               "err_align", "err_reopen", "stranded", "boot_open", "boot_sync",
               "boot_consume"} => Clean
    /\ pc = "stage" => ~marker /\ Whole(pending) /\ staged = None
    /\ pc = "mark" => ~marker /\ Whole(pending) /\ Whole(staged)
    /\ pc \in {"preserve", "unlink", "install"} =>
         marker /\ Whole(pending) /\ Whole(staged)
    /\ pc = "preserve" => kept = None
    /\ pc = "unlink" => Preserved
    /\ pc = "install" => wal = None /\ ~mcp
    /\ pc \in {"dirsync", "publish"} =>
         marker /\ staged = None /\ Whole(pending)
    /\ pc = "discard" => marker /\ staged = None /\ pending = None
    /\ pc \in {"unmark", "err_unmark", "boot_unmark"} =>
         pending = None /\ staged = None /\ kept = None
    /\ pc = "err" =>
         IF installed THEN staged = None /\ (pending # None => marker)
                      ELSE ~marker \/ staged # None
    /\ pc = "err_discard" => staged = None /\ pending = None
    /\ pc = "err_wal" => pending = None /\ (~marker \/ staged # None)
    /\ pc = "err_staged" => pending = None /\ kept = None
    /\ pc = "boot_staged" => ~marker /\ pending = None
    /\ pc = "boot_publish" => marker /\ staged = None /\ kept = None
    /\ pc = "boot_rollback" => marker /\ staged # None /\ kept = None
    /\ pc = "boot_rmstaged" => pending = None /\ kept = None
    /\ pc \in {"capture", "stage", "mark", "preserve", "unlink", "install",
               "clear"} => ~installed
    /\ pc \in {"dirsync", "publish", "discard", "unmark"} => installed

FilesFit == /\ NothingBegun /\ NothingReplaced /\ Replaced /\ Identities
            /\ HeadlessReads

FilesInv == FilesFit /\ AtStep

\* A switch stages only a backup that is there.
StagesABackup == pc \in {"capture", "stage"} => backups[target] # None

SoundFiles == TypeOK /\ StagesABackup /\ FilesInv

\* A capture waits only while none is published, and a published one survives
\* its switch only if that was the last.
OneCapture ==
    /\ pending # None => sidecar = None
    /\ sidecar # None /\ pc \in {"idle", "capture", "clear", "config"} \cup ErrorSteps =>
         switches = MaxSwitches
    /\ pc \in {"capture", "clear"} => sidecar = None
    /\ pc = "err" /\ installed /\ pending # None => switches = MaxSwitches

\* Every event of x is older than now: what is queued next comes after it.
Older(x, t) == \A e \in x.outbox : e.at < t

Untouched(r, O) == \A e \in O : e.rec # r

\* Once x has drained, a replica that holds rep holds the records of x.
SettledFor(x, rep) ==
    /\ \A e \in x.outbox :
         Last(e, x.outbox) => (e.op = "Insert" <=> e.rec \in x.recs)
    /\ \A r \in Records :
         Untouched(r, x.outbox) => (r \in rep <=> r \in x.recs)

\* ... or will, once a sync has added to x what it captured: a record that
\* neither knows, and no event is about, is not in the replica.
OwedFor(x, cap, rep) ==
    /\ Truthful(x) /\ Truthful(cap)
    /\ \A r \in Records \ (x.recs \cup cap.recs) :
         Untouched(r, x.outbox \cup cap.outbox) => r \notin rep

\* The backup is installed and the capture of the outgoing file still waits.
Unpublished == Whole(pending) /\ marker /\ staged = None

DebtInv ==
    /\ Older(saved, clock)
    /\ Whole(pending) => Older(pending, clock)
    /\ sidecar # None => Older(sidecar, clock)
    /\ Whole(staged) => Older(staged, clock) /\ Truthful(staged)
    /\ \A v \in Vaults :
         backups[v] # None => Older(backups[v], clock) /\ Truthful(backups[v])
    /\ Whole(pending) /\ ~Unpublished => SettledFor(pending, replica)
    /\ sidecar # None => OwedFor(saved, sidecar, replica)
    /\ Unpublished => OwedFor(saved, pending, replica)
    /\ sidecar = None /\ ~Unpublished => SettledFor(saved, replica)
    /\ pc \in {"consume", "boot_consume"} => SettledFor(saved, replica)

\* c was filled with nothing newer than t, and what was queued since agrees with
\* its tables.
Tracks(c, t) ==
    \A e \in c.outbox : e.at >= t =>
        /\ e.at > t + 1
        /\ Last(e, c.outbox) => (e.op = "Insert" <=> e.rec \in c.recs)

\* What a running switch stamps with the clock as it read when it began comes
\* after the events it must outlast and before those queued since.
StampInv ==
    /\ pc \in SwitchSteps \ {"consume", "config"} => now + 2 <= clock
    /\ pc \in {"capture", "clear"} => Older(saved, now)
    /\ pc \in {"capture", "stage"} =>
         \A v \in Vaults : backups[v] # None => Older(backups[v], now)
    /\ pc \in {"stage", "mark", "preserve", "unlink", "install", "dirsync",
               "publish"} => Older(pending, now)
    /\ pc \in {"mark", "preserve", "unlink", "install"} => Older(staged, now)
    /\ pc \in {"dirsync", "publish", "discard", "unmark", "reopen", "sync"} =>
         /\ sidecar # None => installed /\ Older(sidecar, now)
         /\ installed => Tracks(saved, now)

\* The brain was filled for the vault of the configuration, or for the one the
\* running switch has still to write there.
VaultInv ==
    /\ saved.vault =
         IF align /\ pc \in (SwitchSteps \cup ErrorSteps) \ {"err_reopen"}
           THEN target ELSE config
    /\ pc \in {"capture", "stage", "mark", "preserve", "unlink", "install",
               "clear"} => ~align
    /\ pc \in {"dirsync", "publish", "discard", "unmark", "reopen", "sync",
               "consume", "config"} => align
    /\ pc \in {"mark", "preserve", "unlink", "install"} => staged.vault = target
    /\ \A v \in Vaults : backups[v] # None => backups[v].vault = v
    /\ pc \in ErrorSteps => faults > 0

USE DEF Goto, FailTo, Fail, CanFail, files, locals, world, bounds, others, NoLocals

-----------------------------------------------------------------------------
(* The fields of the databases and captures that steps build *)

LEMMA ContentFields ==
  ASSUME NEW c \in Content
  PROVE  /\ c.vault \in Vaults /\ c.file \in Nat
         /\ c.recs \subseteq Records /\ c.outbox \subseteq Event
         /\ c \notin {None, Empty, Torn}
BY FilesAssumption DEF Content

LEMMA CaptureFields ==
  ASSUME NEW c \in Capture
  PROVE  /\ c.file \in Nat
         /\ c.recs \subseteq Records /\ c.outbox \subseteq Event
         /\ c \notin {None, Torn}
BY FilesAssumption DEF Capture

LEMMA Refiled ==
  ASSUME NEW c \in Content, NEW n \in Nat
  PROVE  /\ [c EXCEPT !.file = n] \in Content
         /\ [c EXCEPT !.file = n].file = n
         /\ [c EXCEPT !.file = n].vault = c.vault
         /\ [c EXCEPT !.file = n].recs = c.recs
         /\ [c EXCEPT !.file = n].outbox = c.outbox
BY DEF Content

LEMMA Captured ==
  ASSUME NEW c \in Content
  PROVE  /\ CaptureOf(c) \in Capture
         /\ CaptureOf(c).file = c.file /\ CaptureOf(c).recs = c.recs
         /\ CaptureOf(c).outbox = c.outbox
BY DEF Content, Capture, CaptureOf

LEMMA SyncedFields ==
  ASSUME NEW c \in Content, NEW cap \in Capture, NEW t \in Nat
  PROVE  LET s == Synced(c, cap, t)
         IN  /\ s \in Content
             /\ s.vault = c.vault /\ s.file = c.file /\ s.recs = c.recs
             /\ s.outbox = c.outbox \cup cap.outbox
                             \cup [at : {t},     op : {"Delete"}, rec : cap.recs]
                             \cup [at : {t + 1}, op : {"Insert"}, rec : c.recs]
<1> DEFINE D == [at : {t}, op : {"Delete"}, rec : cap.recs]
           I == [at : {t + 1}, op : {"Insert"}, rec : c.recs]
<1>1. D \subseteq Event /\ I \subseteq Event
  BY ContentFields, CaptureFields DEF Event
<1>2. c.outbox \cup cap.outbox \cup D \cup I \subseteq Event
  BY <1>1, ContentFields, CaptureFields
<1> HIDE DEF D, I
<1>3. Synced(c, cap, t) = [c EXCEPT !.outbox = c.outbox \cup cap.outbox \cup D \cup I]
  BY DEF Synced, D, I
<1>4. /\ Synced(c, cap, t) \in Content
      /\ Synced(c, cap, t).vault = c.vault
      /\ Synced(c, cap, t).file = c.file
      /\ Synced(c, cap, t).recs = c.recs
      /\ Synced(c, cap, t).outbox = c.outbox \cup cap.outbox \cup D \cup I
  BY <1>2, <1>3 DEF Content
<1> QED  BY <1>4 DEF D, I

LEMMA ClearedFields ==
  ASSUME NEW c \in Content, NEW v \in Vaults, NEW t \in Nat
  PROVE  LET s == Cleared(c, v, t)
         IN  /\ s \in Content
             /\ s.vault = v /\ s.file = c.file /\ s.recs = {}
             /\ s.outbox = c.outbox \cup [at : {t}, op : {"Delete"}, rec : c.recs]
<1> DEFINE D == [at : {t}, op : {"Delete"}, rec : c.recs]
<1>1. c.outbox \cup D \subseteq Event
  BY ContentFields DEF Event
<1> HIDE DEF D
<1>2. Cleared(c, v, t) = [c EXCEPT !.vault = v, !.recs = {}, !.outbox = c.outbox \cup D]
  BY DEF Cleared, D
<1>3. /\ Cleared(c, v, t) \in Content
      /\ Cleared(c, v, t).vault = v /\ Cleared(c, v, t).file = c.file
      /\ Cleared(c, v, t).recs = {}
      /\ Cleared(c, v, t).outbox = c.outbox \cup D
  BY <1>1, <1>2 DEF Content
<1> QED  BY <1>3 DEF D

LEMMA WrittenFields ==
  ASSUME Live \in Content, clock \in Nat, NEW r \in Records
  PROVE  LET w == Written(r)
             op == IF r \in Live.recs THEN "Delete" ELSE "Insert"
         IN  /\ w \in Content
             /\ w.vault = Live.vault /\ w.file = Live.file
             /\ w.recs = IF r \in Live.recs THEN Live.recs \ {r} ELSE Live.recs \cup {r}
             /\ w.outbox = Live.outbox \cup {[at |-> clock, op |-> op, rec |-> r]}
<1> DEFINE op == IF r \in Live.recs THEN "Delete" ELSE "Insert"
           e == [at |-> clock, op |-> op, rec |-> r]
           R == IF r \in Live.recs THEN Live.recs \ {r} ELSE Live.recs \cup {r}
<1>1. e \in Event
  BY DEF Event
<1>2. R \subseteq Records
  BY ContentFields
<1>3. Written(r) = [Live EXCEPT !.recs = R, !.outbox = Live.outbox \cup {e}]
  BY DEF Written
<1>4. Live.outbox \cup {e} \subseteq Event
  BY <1>1, ContentFields
<1> HIDE DEF e, R
<1>5. /\ Written(r) \in Content
      /\ Written(r).vault = Live.vault /\ Written(r).file = Live.file
      /\ Written(r).recs = R /\ Written(r).outbox = Live.outbox \cup {e}
  BY <1>2, <1>3, <1>4 DEF Content
<1> QED  BY <1>5 DEF R, e

LEMMA DrainedFields ==
  ASSUME NEW c \in Content, NEW e
  PROVE  LET d == [c EXCEPT !.outbox = @ \ {e}]
         IN  /\ d \in Content /\ d.vault = c.vault /\ d.file = c.file /\ d.recs = c.recs
             /\ d.outbox = c.outbox \ {e}
BY DEF Content

-----------------------------------------------------------------------------
(* Types *)

LEMMA LiveIsADatabase ==
  ASSUME TypeOK
  PROVE  Live \in Content
BY DEF TypeOK, Live, HasRows

USE DEF FileOf, Steps, SwitchSteps, ErrorSteps, BootSteps

\* A closing connection, and the calls that several steps make, keep the types.
LEMMA CloseType ==
  ASSUME TypeOK, CloseBrain
  PROVE  main' \in Content /\ wal' \in Content \cup {None, Empty}
<1>1. CASE Held   BY <1>1 DEF TypeOK, CloseBrain, OpenedWal
<1>2. CASE ~Held  BY <1>2, LiveIsADatabase DEF TypeOK, CloseBrain
<1> QED  BY <1>1, <1>2

LEMMA RunPendingType ==
  ASSUME TypeOK, NEW t \in Nat, NEW next \in Steps, NEW skip \in Steps,
         NEW at \in Steps, RunPending(t, next, skip, at), SyncUnchanged
  PROVE  TypeOK'
<1>1. Live \in Content /\ clock \in Nat /\ Past(t) \in Nat
  BY LiveIsADatabase DEF TypeOK, Past
<1>2. Whole(sidecar) => Synced(Live, sidecar, t) \in Content
  BY <1>1, SyncedFields DEF TypeOK, Whole
<1>3. clock' \in Nat /\ wal' \in Content \cup {None, Empty} /\ saved' \in Content
  BY <1>1, <1>2 DEF TypeOK, RunPending, Commit, Whole
<1> QED  BY <1>3 DEF TypeOK, RunPending, SyncUnchanged

LEMMA PublishType ==
  ASSUME TypeOK, NEW next \in Steps, NEW at \in Steps, Publish(next, at)
  PROVE  TypeOK'
BY DEF TypeOK, Publish

LEMMA DropType ==
  ASSUME TypeOK, NEW at, NEW next \in Steps,
         DropKeptWal(at, next) \/ DropPending(next) \/ DropStaged(next)
           \/ DropSidecar(at, next)
  PROVE  TypeOK'
<1>1. CASE DropKeptWal(at, next)  BY <1>1 DEF TypeOK, DropKeptWal
<1>2. CASE DropPending(next)      BY <1>2 DEF TypeOK, DropPending
<1>3. CASE DropStaged(next)       BY <1>3 DEF TypeOK, DropStaged
<1>4. CASE DropSidecar(at, next)  BY <1>4 DEF TypeOK, DropSidecar
<1> QED  BY <1>1, <1>2, <1>3, <1>4

LEMMA RestoreWalType ==
  ASSUME TypeOK, wal = None => kept # Torn, NEW next \in Steps,
         RestoreWal(next)
  PROVE  TypeOK'
<1>1. wal' \in Content \cup {None, Empty}
  BY DEF TypeOK, RestoreWal
<1> QED  BY <1>1 DEF TypeOK, RestoreWal

LEMMA UnmarkType ==
  ASSUME TypeOK, NEW at, NEW next \in Steps, Unmark(at, next)
  PROVE  TypeOK'
<1>1. marker' \in BOOLEAN
  BY Zenon DEF TypeOK, Unmark
<1>2. pc' \in Steps /\ faults' \in Nat
  BY DEF TypeOK, Unmark
<1>3. UNCHANGED <<main, wal, sidecar, pending, staged, kept, locals, world,
                  others>>
  BY DEF Unmark
<1> QED  BY <1>1, <1>2, <1>3 DEF TypeOK

LEMMA BeginSwitchType ==
  ASSUME TypeOK, NEW v \in Vaults, NEW restore \in BOOLEAN,
         BeginSwitch(v, restore)
  PROVE  TypeOK'
<1>1. main' \in Content /\ wal' \in Content \cup {None, Empty}
  BY CloseType DEF BeginSwitch
<1>2. /\ pc' \in Steps /\ UNCHANGED faults
      /\ switches' \in Nat /\ target' \in Vaults
      /\ installed' = FALSE /\ align' = FALSE
      /\ now' \in Nat /\ clock' \in Nat
      /\ UNCHANGED <<sidecar, pending, staged, marker, kept, backups, config, mcp,
                     stale, replica, saved, crashes, writes, starts>>
  BY DEF BeginSwitch, TypeOK
<1> QED  BY <1>1, <1>2 DEF TypeOK

LEMMA CrashType ==
  ASSUME TypeOK, Crash
  PROVE  TypeOK'
<1>1. /\ pending' \in FileOf(Capture) /\ staged' \in FileOf(Content)
      /\ kept' \in FileOf(Content) \cup {Empty}
  BY DEF TypeOK, Crash
<1>2. /\ pc' \in Steps /\ crashes' \in Nat
      /\ target' \in Vaults /\ installed' = FALSE /\ align' = FALSE /\ now' \in Nat
  BY RestoreSyncAssumption DEF TypeOK, Crash
<1>3. UNCHANGED <<main, wal, sidecar, marker, world, faults, switches, writes,
                  starts>>
  BY DEF Crash
<1> QED  BY <1>1, <1>2, <1>3 DEF TypeOK

LEMMA QuitType ==
  ASSUME TypeOK, Quit
  PROVE  TypeOK'
<1>1. main' \in Content /\ wal' \in Content \cup {None, Empty}
  BY CloseType DEF Quit, TypeOK
<1>2. /\ pc' = "down"
      /\ UNCHANGED <<sidecar, pending, staged, marker, kept, locals, world,
                     faults, others>>
  BY DEF Quit
<1> QED  BY <1>1, <1>2 DEF TypeOK

LEMMA RestType ==
  ASSUME TypeOK, main' \in Content, wal' \in Content \cup {None, Empty},
         mcp' \in BOOLEAN, stale' \in Content \cup {None}, starts' \in Nat,
         UNCHANGED <<sidecar, pending, staged, marker, kept, locals, backups,
                     config, replica, clock, saved, faults, crashes, switches,
                     writes, pc>>
  PROVE  TypeOK'
BY DEF TypeOK

LEMMA McpAttachType ==
  ASSUME TypeOK, McpAttach
  PROVE  TypeOK'
<1>1. main' \in Content /\ wal' \in Content \cup {None, Empty}
  BY LiveIsADatabase DEF TypeOK, McpAttach, OpenedWal
<1>2. mcp' \in BOOLEAN /\ stale' \in Content \cup {None} /\ starts' \in Nat
  BY DEF TypeOK, McpAttach
<1> QED  BY <1>1, <1>2, RestType DEF McpAttach

LEMMA McpExitType ==
  ASSUME TypeOK, McpExit
  PROVE  TypeOK'
<1>1. main' \in Content /\ wal' \in Content \cup {None, Empty}
  <2>1. CASE UNCHANGED <<main, wal>>  BY <2>1 DEF TypeOK
  <2>2. CASE mcp /\ main' = Live /\ wal' = None  BY <2>2, LiveIsADatabase
  <2>3. CASE ~mcp /\ main' = stale /\ wal' = None
    BY <2>3 DEF TypeOK, McpExit, Held
  <2> QED  BY <2>1, <2>2, <2>3, Zenon DEF McpExit
<1>2. mcp' \in BOOLEAN /\ stale' \in Content \cup {None} /\ starts' \in Nat
  BY DEF TypeOK, McpExit
<1> QED  BY <1>1, <1>2, RestType DEF McpExit

LEMMA StageType ==
  ASSUME TypeOK, StageBackup, pc = "stage" => backups[target] # None
  PROVE  TypeOK'
<1>1. clock \in Nat /\ backups[target] \in Content
  BY DEF TypeOK, StageBackup
<1>2. [backups[target] EXCEPT !.file = clock] \in Content
  BY <1>1, Refiled
<1> QED  BY <1>1, <1>2 DEF TypeOK, StageBackup

LEMMA ClearType ==
  ASSUME TypeOK, ClearVaultTables
  PROVE  TypeOK'
<1>1. now \in Nat /\ Live \in Content /\ target \in Vaults
  BY LiveIsADatabase DEF TypeOK
<1>2. Cleared(Live, target, now) \in Content
  BY <1>1, ClearedFields
<1>3. CASE Fail("clear") /\ UNCHANGED <<saved, align>>
  <2>1. main' \in Content /\ wal' \in Content \cup {None, Empty}
    <3>1. CASE UNCHANGED <<main, wal>>  BY <3>1 DEF TypeOK
    <3>2. CASE CloseBrain  BY <3>2, CloseType
    <3> QED  BY <1>3, <3>1, <3>2 DEF ClearVaultTables
  <2> QED  BY <1>3, <2>1 DEF TypeOK, ClearVaultTables
<1>4. CASE /\ saved' = Cleared(Live, target, now) /\ align' = TRUE /\ Goto("reopen")
           /\ IF Held THEN wal' = saved' /\ UNCHANGED main
                      ELSE wal' = None /\ main' = saved'
  <2>1. /\ main' \in Content /\ wal' \in Content \cup {None, Empty}
        /\ saved' \in Content
    BY <1>2, <1>4 DEF TypeOK
  <2> QED  BY <1>4, <2>1 DEF TypeOK, ClearVaultTables
<1> QED  BY <1>3, <1>4 DEF ClearVaultTables

LEMMA WriteType ==
  ASSUME TypeOK, NEW r \in Records, Write(r)
  PROVE  TypeOK'
<1>1. clock \in Nat /\ Live \in Content
  BY LiveIsADatabase DEF TypeOK
<1>2. Written(r) \in Content
  BY <1>1, WrittenFields
<1> QED  BY <1>1, <1>2 DEF TypeOK, Write, Commit

LEMMA DrainType ==
  ASSUME TypeOK, Drain
  PROVE  TypeOK'
<1>1. PICK e \in Live.outbox :
         /\ Commit([Live EXCEPT !.outbox = @ \ {e}])
         /\ replica' = IF e.op = "Insert" THEN replica \cup {e.rec}
                                          ELSE replica \ {e.rec}
  BY DEF Drain
<1>2. Live \in Content /\ [Live EXCEPT !.outbox = @ \ {e}] \in Content
  BY LiveIsADatabase, DrainedFields
<1>3. e \in Event
  BY <1>2, ContentFields
<1>4. replica' \subseteq Records
  BY <1>1, <1>3 DEF TypeOK, Event
<1>5. /\ wal' \in Content /\ saved' \in Content
      /\ UNCHANGED <<main, sidecar, pending, staged, marker, kept, locals,
                     backups, config, mcp, stale, clock, bounds, pc>>
  BY <1>1, <1>2 DEF Drain, Commit
<1> QED  BY <1>4, <1>5 DEF TypeOK

LEMMA BackupType ==
  ASSUME TypeOK, Backup
  PROVE  TypeOK'
BY LiveIsADatabase DEF TypeOK, Backup

LEMMA MarkType ==
  ASSUME TypeOK, WriteInstallMarker
  PROVE  TypeOK'
<1>1. marker' \in BOOLEAN
  BY Zenon DEF TypeOK, WriteInstallMarker
<1>2. \/ pc' = "preserve" /\ faults' = faults
      \/ pc' = "err" /\ faults' = faults + 1
  BY Zenon DEF WriteInstallMarker
<1>3. UNCHANGED <<main, wal, sidecar, pending, staged, kept, locals, world,
                  others>>
  BY Zenon DEF WriteInstallMarker
<1> QED  BY <1>1, <1>2, <1>3 DEF TypeOK

LEMMA InstallType ==
  ASSUME TypeOK, FilesInv, CommitStagedBackup
  PROVE  TypeOK'
<1>1. staged \in Content
  BY DEF TypeOK, FilesInv, AtStep, CommitStagedBackup, Whole
<1>2. main' \in Content /\ saved' \in Content /\ staged' \in FileOf(Content)
  BY <1>1 DEF TypeOK, CommitStagedBackup
<1>3. /\ installed' \in BOOLEAN /\ align' \in BOOLEAN /\ mcp' \in BOOLEAN
      /\ stale' \in Content \cup {None}
  BY DEF TypeOK, CommitStagedBackup
<1>4. /\ pc' \in Steps /\ faults' \in Nat
      /\ UNCHANGED <<wal, sidecar, pending, marker, kept, target, now, backups,
                     config, replica, clock, others>>
  BY DEF TypeOK, CommitStagedBackup
<1> QED  BY <1>2, <1>3, <1>4 DEF TypeOK

LEMMA UnlinkType ==
  ASSUME TypeOK, RemoveSqliteSidecars
  PROVE  TypeOK'
<1>1. stale' \in Content \cup {None}
  BY LiveIsADatabase DEF TypeOK, RemoveSqliteSidecars
<1> QED  BY <1>1 DEF TypeOK, RemoveSqliteSidecars

LEMMA CaptureType ==
  ASSUME TypeOK, CaptureToSidecar
  PROVE  TypeOK'
<1>1. main' \in Content /\ wal' \in Content \cup {None, Empty}
  <2>1. CASE UNCHANGED <<main, wal>>  BY <2>1 DEF TypeOK
  <2>2. CASE CloseBrain  BY <2>2, CloseType
  <2> QED  BY <2>1, <2>2 DEF CaptureToSidecar
<1>2. pending' \in FileOf(Capture)
  BY LiveIsADatabase, Captured DEF TypeOK, CaptureToSidecar
<1>3. /\ pc' \in Steps /\ faults' \in Nat
      /\ UNCHANGED <<sidecar, staged, marker, kept, locals, world, others>>
  BY DEF TypeOK, CaptureToSidecar
<1> QED  BY <1>1, <1>2, <1>3 DEF TypeOK

LEMMA VaultPathType ==
  ASSUME TypeOK, SetVaultPath
  PROVE  TypeOK'
<1>1. config' \in Vaults /\ target' \in Vaults /\ now' \in Nat
  BY RestoreSyncAssumption DEF TypeOK, SetVaultPath
<1>2. installed' \in BOOLEAN /\ align' \in BOOLEAN
  BY DEF TypeOK, SetVaultPath
<1>3. /\ pc' \in Steps /\ faults' \in Nat
      /\ UNCHANGED <<files, backups, mcp, stale, replica, clock, saved, others>>
  BY DEF TypeOK, SetVaultPath
<1> QED  BY <1>1, <1>2, <1>3 DEF TypeOK

LEMMA RecoverType ==
  ASSUME TypeOK, RecoverReopen
  PROVE  TypeOK'
<1>1. target' \in Vaults /\ installed' = FALSE /\ align' = FALSE /\ now' \in Nat
  BY RestoreSyncAssumption DEF TypeOK, RecoverReopen
<1>2. pc' \in Steps
  BY DEF RecoverReopen
<1>3. faults' \in Nat
  BY DEF TypeOK, RecoverReopen
<1>4. /\ UNCHANGED <<main, wal, sidecar, pending, staged, marker, kept>>
      /\ UNCHANGED <<backups, config, mcp, stale, replica, clock, saved>>
      /\ UNCHANGED others
  BY DEF RecoverReopen
<1>5. installed' \in BOOLEAN /\ align' \in BOOLEAN
  BY <1>1
<1> QED  BY <1>1, <1>2, <1>3, <1>4, <1>5 DEF TypeOK

LEMMA TypeStep ==
  ASSUME TypeOK, FilesInv, StagesABackup, [Next]_vars
  PROVE  TypeOK'
<1>1. CASE SwitchStep
  <2>1. CASE CaptureToSidecar      BY <2>1, CaptureType
  <2>2. CASE StageBackup           BY <2>2, StageType DEF StagesABackup
  <2>3. CASE WriteInstallMarker    BY <2>3, MarkType
  <2>4. CASE PreserveOutgoingWal   BY <2>4 DEF TypeOK, PreserveOutgoingWal
  <2>5. CASE RemoveSqliteSidecars  BY <2>5, UnlinkType
  <2>6. CASE CommitStagedBackup    BY <2>6, InstallType
  <2>7. CASE SyncInstallDir        BY <2>7 DEF TypeOK, SyncInstallDir
  <2>8. CASE PublishSidecar        BY <2>8, PublishType DEF PublishSidecar
  <2>9. CASE DiscardOutgoingWal    BY <2>9, DropType DEF DiscardOutgoingWal
  <2>10. CASE ClearInstallMarker   BY <2>10, UnmarkType DEF ClearInstallMarker
  <2>11. CASE ClearVaultTables     BY <2>11, ClearType
  <2>12. CASE ReopenBrain          BY <2>12 DEF TypeOK, ReopenBrain
  <2>13. CASE SyncOutbox
    BY <2>13, RunPendingType DEF SyncOutbox, TypeOK
  <2>14. CASE ConsumeSidecar       BY <2>14, DropType DEF ConsumeSidecar
  <2>15. CASE SetVaultPath         BY <2>15, VaultPathType
  <2> QED  BY <1>1, <2>1, <2>2, <2>3, <2>4, <2>5, <2>6, <2>7, <2>8, <2>9, <2>10,
              <2>11, <2>12, <2>13, <2>14, <2>15 DEF SwitchStep
<1>2. CASE ErrorStep
  <2>1. CASE ErrPublish         BY <2>1, PublishType DEF ErrPublish
  <2>2. CASE ErrDiscardWal      BY <2>2, DropType DEF ErrDiscardWal
  <2>3. CASE ErrDiscardPending  BY <2>3, DropType DEF ErrDiscardPending
  <2>4. CASE ErrRestoreWal
    BY <2>4, RestoreWalType, FilesAssumption
    DEF ErrRestoreWal, FilesInv, FilesFit, NothingBegun, NothingReplaced,
        Preserved, AtStep
  <2>5. CASE ErrRemoveStaged    BY <2>5, DropType DEF ErrRemoveStaged
  <2>6. CASE ErrClearMarker     BY <2>6, UnmarkType DEF ErrClearMarker
  <2>7. CASE ErrAlignConfig     BY <2>7 DEF TypeOK, ErrAlignConfig
  <2>8. CASE RecoverReopen      BY <2>8, RecoverType
  <2> QED  BY <1>2, <2>1, <2>2, <2>3, <2>4, <2>5, <2>6, <2>7, <2>8
           DEF ErrorStep
<1>3. CASE BootStep
  <2>1. CASE BootNoMarker        BY <2>1, DropType DEF BootNoMarker
  <2>2. CASE BootRemoveStray     BY <2>2, DropType DEF BootRemoveStray
  <2>3. CASE BootCommitted       BY <2>3, DropType DEF BootCommitted
  <2>4. CASE BootPublish         BY <2>4, PublishType DEF BootPublish
  <2>5. CASE BootRestoreWal
    BY <2>5, RestoreWalType
    DEF BootRestoreWal, FilesInv, FilesFit, NothingReplaced, Preserved
  <2>6. CASE BootDiscardPending  BY <2>6, DropType DEF BootDiscardPending
  <2>7. CASE BootRemoveStaged    BY <2>7, DropType DEF BootRemoveStaged
  <2>8. CASE BootClearMarker     BY <2>8, UnmarkType DEF BootClearMarker
  <2>9. CASE BootOpen            BY <2>9 DEF TypeOK, BootOpen
  <2>10. CASE BootSync
    BY <2>10, RunPendingType DEF BootSync, TypeOK
  <2>11. CASE BootConsume        BY <2>11, DropType DEF BootConsume
  <2> QED  BY <1>3, <2>1, <2>2, <2>3, <2>4, <2>5, <2>6, <2>7, <2>8, <2>9, <2>10,
              <2>11 DEF BootStep
<1>4. CASE Environment
  <2>1. ASSUME NEW v \in Vaults, NEW restore \in BOOLEAN,
               BeginSwitch(v, restore)
        PROVE  TypeOK'
    BY <2>1, BeginSwitchType
  <2>2. CASE Launch  BY <2>2 DEF TypeOK, Launch
  <2>3. CASE Crash   BY <2>3, CrashType
  <2>4. CASE Quit    BY <2>4, QuitType
  <2>5. ASSUME NEW r \in Records, Write(r)
        PROVE  TypeOK'
    BY <2>5, WriteType
  <2>6. CASE Drain      BY <2>6, DrainType
  <2>7. CASE Backup     BY <2>7, BackupType
  <2>8. CASE McpAttach  BY <2>8, McpAttachType
  <2>9. CASE McpExit    BY <2>9, McpExitType
  <2> QED  BY <1>4, <2>1, <2>2, <2>3, <2>4, <2>5, <2>6, <2>7, <2>8, <2>9
           DEF Environment
<1>5. CASE UNCHANGED vars
  BY <1>5 DEF TypeOK, vars
<1> QED  BY <1>1, <1>2, <1>3, <1>4, <1>5 DEF Next

HIDE DEF FileOf, Steps, SwitchSteps, ErrorSteps, BootSteps

-----------------------------------------------------------------------------
(* The files on either side of the install *)

LEMMA FileNumbers ==
  ASSUME TypeOK
  PROVE  /\ main.file \in Nat /\ clock \in Nat
         /\ HasRows(wal) => wal.file \in Nat
         /\ Whole(pending) => pending.file \in Nat
         /\ sidecar # None /\ sidecar # Torn => sidecar.file \in Nat
         /\ Whole(staged) => staged.file \in Nat
BY ContentFields, CaptureFields DEF TypeOK, Whole, FileOf, HasRows

LEMMA LiveFile ==
  ASSUME TypeOK, FilesInv
  PROVE  Live \in Content /\ Live.file = main.file /\ Live # None /\ Live # Torn
BY LiveIsADatabase, ContentFields DEF FilesInv, FilesFit, Identities, Live

\* A transaction committed where the brain reads as last saved keeps the files fit.
LEMMA CommitFits ==
  ASSUME TypeOK, FilesInv, NEW c \in Content, c.file = Live.file, Commit(c),
         clock' \in Nat, clock <= clock',
         UNCHANGED <<main, sidecar, pending, staged, marker, kept, mcp, stale>>
  PROVE  FilesFit'
<1>1. HasRows(c) /\ c # None /\ c # Torn /\ c.file = main.file
  BY ContentFields, LiveFile DEF HasRows
<1>2. wal' = c /\ saved' = c /\ Live' = c
  BY <1>1 DEF Commit, Live, HasRows
<1>3. (NothingBegun /\ NothingReplaced /\ Replaced /\ HeadlessReads)'
  BY <1>1, <1>2
  DEF FilesInv, FilesFit, NothingBegun, NothingReplaced, Replaced,
      HeadlessReads, Whole, HasRows
<1>4. Identities'
  BY <1>1, <1>2, FileNumbers DEF FilesInv, FilesFit, Identities, Whole, HasRows
<1> QED  BY <1>3, <1>4 DEF FilesFit

\* A closing connection changes nothing of what the brain holds.
LEMMA CloseKeeps ==
  ASSUME TypeOK, FilesInv, CloseBrain
  PROVE  /\ Live' = Live /\ main'.file = main.file
         /\ HasRows(wal') => wal'.file = main.file
<1>1. Live \in Content /\ Live.file = main.file /\ ~HasRows(None) /\ ~HasRows(Empty)
  BY LiveFile DEF HasRows
<1>2. CASE Held
  <2>1. main' = main /\ wal' = OpenedWal
    BY <1>2 DEF CloseBrain
  <2>2. HasRows(wal') <=> HasRows(wal)
    BY <1>1, <2>1 DEF OpenedWal
  <2>3. HasRows(wal) => wal' = wal
    BY <1>1, <2>1 DEF OpenedWal
  <2> QED
    BY <2>1, <2>2, <2>3 DEF Live, FilesInv, FilesFit, Identities
<1>3. CASE ~Held
  BY <1>1, <1>3 DEF CloseBrain, Live
<1> QED  BY <1>2, <1>3

LEMMA CloseFits ==
  ASSUME TypeOK, FilesInv, CloseBrain, ~marker, clock' \in Nat, clock <= clock',
         Whole(pending') => pending' = pending \/ pending'.file = main.file,
         Whole(pending') => pending'.file < clock',
         UNCHANGED <<sidecar, staged, marker, kept, mcp, stale, saved>>
  PROVE  FilesFit'
<1>1. /\ Live' = Live /\ main'.file = main.file
      /\ HasRows(wal') => wal'.file = main.file
  BY CloseKeeps
<1>2. (NothingBegun /\ NothingReplaced /\ Replaced /\ HeadlessReads)'
  BY <1>1
  DEF FilesInv, FilesFit, NothingBegun, NothingReplaced, Replaced, HeadlessReads
<1>3. Identities'
  BY <1>1, FileNumbers DEF FilesInv, FilesFit, Identities, Whole
<1> QED  BY <1>2, <1>3 DEF FilesFit

LEMMA ClearFits ==
  ASSUME TypeOK, FilesInv, ClearVaultTables
  PROVE  FilesInv'
<1>1. now \in Nat /\ Live \in Content /\ target \in Vaults
  BY LiveIsADatabase DEF TypeOK
<1>2. /\ Cleared(Live, target, now) \in Content
      /\ Cleared(Live, target, now).file = Live.file
  BY <1>1, ClearedFields
<1>3. /\ ~marker /\ pending = None /\ staged = None /\ kept = None
      /\ UNCHANGED <<sidecar, pending, staged, marker, kept, mcp, stale, clock,
                     installed>>
  BY DEF ClearVaultTables, FilesInv, AtStep, Clean
<1>4. CASE /\ saved' = Cleared(Live, target, now) /\ Goto("reopen")
           /\ IF Held THEN wal' = saved' /\ UNCHANGED main
                      ELSE wal' = None /\ main' = saved'
  <2>1. FilesFit'
    <3>1. CASE Held
      <4>1. Commit(Cleared(Live, target, now)) /\ UNCHANGED main
        BY <1>4, <3>1 DEF Commit
      <4> QED  BY <1>2, <1>3, <4>1, FileNumbers, CommitFits
    <3>2. CASE ~Held
      <4>1. /\ ~HasRows(wal') /\ Live' = main' /\ main' = saved'
            /\ main'.file = main.file
        BY <1>2, <1>4, <3>2, LiveFile DEF HasRows, Live
      <4> QED
        BY <1>3, <3>2, <4>1
        DEF Held, FilesInv, FilesFit, NothingBegun, NothingReplaced, Replaced,
            Identities, HeadlessReads, Whole
    <3> QED  BY <3>1, <3>2
  <2>2. AtStep'
    BY <1>3, <1>4 DEF AtStep, Clean
  <2> QED  BY <2>1, <2>2 DEF FilesInv
<1>5. CASE /\ UNCHANGED <<main, wal>> \/ CloseBrain
           /\ Fail("clear") /\ UNCHANGED <<saved, align>>
  <2>1. FilesFit'
    <3>1. CASE UNCHANGED <<main, wal>>
      BY <1>3, <1>5, <3>1
      DEF FilesInv, FilesFit, NothingBegun, NothingReplaced, Replaced,
          Identities, HeadlessReads, Live, Whole
    <3>2. CASE CloseBrain
      BY <1>3, <1>5, <3>2, CloseFits, FileNumbers DEF Whole
    <3> QED  BY <1>5, <3>1, <3>2
  <2>2. AtStep'
    BY <1>3, <1>5 DEF AtStep, Clean, ClearVaultTables, FilesInv
  <2> QED  BY <2>1, <2>2 DEF FilesInv
<1> QED  BY <1>4, <1>5 DEF ClearVaultTables

LEMMA RunPendingFits ==
  ASSUME TypeOK, FilesInv, NEW t \in Nat, NEW next, NEW skip, NEW at,
         RunPending(t, next, skip, at), SyncUnchanged
  PROVE  FilesFit'
<1>1. clock \in Nat /\ Live \in Content
  BY LiveIsADatabase DEF TypeOK
<1>2. CASE /\ Whole(sidecar) /\ Commit(Synced(Live, sidecar, t))
           /\ clock' = Past(t)
  <2>1. sidecar \in Capture
    BY <1>2 DEF TypeOK, FileOf, Whole
  <2>2. /\ Synced(Live, sidecar, t) \in Content
        /\ Synced(Live, sidecar, t).file = Live.file
    BY <1>1, <2>1, SyncedFields
  <2>3. UNCHANGED <<main, sidecar, pending, staged, marker, kept, mcp, stale>>
    BY <1>2 DEF RunPending, SyncUnchanged, Whole
  <2>4. clock' \in Nat /\ clock <= clock'
    BY <1>1, <1>2 DEF Past
  <2> QED  BY <1>2, <2>2, <2>3, <2>4, CommitFits
<1>3. CASE /\ UNCHANGED <<wal, saved, clock>>
           /\ (UNCHANGED sidecar \/ sidecar' = None)
  <2>1. UNCHANGED <<main, wal, saved, clock, pending, staged, marker, kept, mcp,
                    stale>>
    BY <1>3 DEF SyncUnchanged
  <2> QED
    BY <1>3, <2>1
    DEF FilesInv, FilesFit, NothingBegun, NothingReplaced, Replaced, Identities,
        HeadlessReads, Preserved, Live, Whole, Clean
<1> QED  BY <1>2, <1>3 DEF RunPending, Whole

LEMMA SyncFits ==
  ASSUME TypeOK, FilesInv, SyncOutbox
  PROVE  FilesInv'
<1>1. FilesFit'
  BY RunPendingFits DEF SyncOutbox, TypeOK
<1>2. AtStep'
  BY DEF SyncOutbox, SyncUnchanged, FilesInv, FilesFit, RunPending, AtStep,
      Clean
<1> QED  BY <1>1, <1>2 DEF FilesInv, FilesFit

LEMMA BootSyncFits ==
  ASSUME TypeOK, FilesInv, BootSync
  PROVE  FilesInv'
<1>1. FilesFit'
  BY RunPendingFits DEF BootSync, TypeOK
<1>2. AtStep'
  BY DEF BootSync, SyncUnchanged, FilesInv, FilesFit, RunPending, AtStep,
      Clean
<1> QED  BY <1>1, <1>2 DEF FilesInv, FilesFit

LEMMA WriteFits ==
  ASSUME CleanupsSucceed, TypeOK, FilesInv, NEW r \in Records, Write(r)
  PROVE  FilesInv'
<1>1. clock \in Nat /\ Live \in Content
  BY LiveIsADatabase DEF TypeOK
<1>2. Written(r) \in Content /\ Written(r).file = Live.file
  BY <1>1, WrittenFields
<1>3. UNCHANGED <<main, sidecar, pending, staged, marker, kept, mcp, stale, pc,
                  installed>>
  BY DEF Write
<1>4. /\ Commit(Written(r)) /\ clock' = clock + 1
      /\ (pc = "idle" \/ (mcp /\ pc # "unlink"))
  BY DEF Write, CleanupsSucceed
<1>5. FilesFit'
  BY <1>1, <1>2, <1>3, <1>4, CommitFits
<1>6. pc # "install" /\ pc # "unlink"
  BY <1>4 DEF FilesInv, FilesFit, AtStep
<1>7. AtStep'
  BY <1>3, <1>4, <1>6 DEF FilesInv, FilesFit, AtStep, Clean
<1> QED  BY <1>5, <1>7 DEF FilesInv, FilesFit

LEMMA DrainFits ==
  ASSUME TypeOK, FilesInv, Drain
  PROVE  FilesInv'
<1>1. Live \in Content
  BY LiveIsADatabase
<1>2. PICK e \in Live.outbox : Commit([Live EXCEPT !.outbox = @ \ {e}])
  BY DEF Drain
<1>3. /\ [Live EXCEPT !.outbox = @ \ {e}] \in Content
      /\ [Live EXCEPT !.outbox = @ \ {e}].file = Live.file
  BY <1>1, DrainedFields
<1>4. /\ UNCHANGED <<main, sidecar, pending, staged, marker, kept, mcp, stale, pc,
                     installed, clock>>
      /\ pc = "idle"
  BY DEF Drain
<1>5. FilesFit'
  <2>1. clock' \in Nat /\ clock <= clock'
    BY <1>4, FileNumbers
  <2> QED  BY <1>2, <1>3, <1>4, <2>1, CommitFits
<1>7. AtStep'
  BY <1>4 DEF FilesInv, FilesFit, AtStep, Clean
<1> QED  BY <1>5, <1>7 DEF FilesInv, FilesFit

LEMMA StageFits ==
  ASSUME TypeOK, StagesABackup, FilesInv, StageBackup
  PROVE  FilesInv'
<1>1. CASE /\ staged' = [backups[target] EXCEPT !.file = clock]
           /\ clock' = clock + 1 /\ Goto("mark")
  <2>0. /\ UNCHANGED <<main, wal, sidecar, pending, marker, kept, mcp, stale,
                       installed, saved>>
        /\ pc = "stage"
    BY DEF StageBackup
  <2>1. clock \in Nat /\ backups[target] \in Content
    BY <2>0 DEF TypeOK, StagesABackup
  <2>2. Whole(staged') /\ staged'.file = clock
    BY <2>1, <1>1, Refiled, ContentFields DEF Whole
  <2>3. (NothingBegun /\ NothingReplaced /\ Replaced /\ HeadlessReads)'
    BY <2>0, <2>2
    DEF FilesInv, FilesFit, NothingBegun, NothingReplaced, Replaced,
        HeadlessReads, Live, AtStep, Whole
  <2>4. Identities'
    BY <1>1, <2>0, <2>2, FileNumbers DEF FilesInv, FilesFit, Identities, Whole
  <2>5. AtStep'
    BY <1>1, <2>0, <2>2 DEF FilesInv, FilesFit, AtStep, Whole
  <2> QED  BY <2>3, <2>4, <2>5 DEF FilesInv, FilesFit
<1>2. CASE staged' \in {staged, Torn} /\ Fail("stage") /\ UNCHANGED clock
  BY <1>2
  DEF StageBackup, FilesInv, FilesFit, NothingBegun, NothingReplaced, Replaced,
      Identities, HeadlessReads, AtStep, Live, HasRows, Preserved, Whole, Clean
<1> QED  BY <1>1, <1>2 DEF StageBackup

LEMMA CaptureFits ==
  ASSUME TypeOK, FilesInv, CaptureToSidecar
  PROVE  FilesInv'
<1>1. /\ pc = "capture" /\ ~marker /\ ~installed
      /\ pending = None /\ staged = None /\ kept = None
      /\ UNCHANGED <<sidecar, staged, marker, kept, mcp, stale, saved, clock,
                     installed>>
  BY DEF CaptureToSidecar, FilesInv, AtStep, Clean
<1>2. /\ Whole(CaptureOf(Live)) /\ CaptureOf(Live).file = main.file
      /\ main.file < clock /\ clock \in Nat
  BY LiveFile, Captured, CaptureFields, FileNumbers
  DEF Whole, FilesInv, FilesFit, Identities
<1>3. CASE pending' = CaptureOf(Live) /\ CloseBrain /\ Goto("stage")
  <2>1. FilesFit'
    BY <1>1, <1>2, <1>3, CloseFits
  <2>2. AtStep'
    BY <1>1, <1>2, <1>3 DEF AtStep
  <2> QED  BY <2>1, <2>2 DEF FilesInv
<1>4. CASE /\ pending' \in {pending, Torn} /\ Fail("capture")
           /\ UNCHANGED <<main, wal>> \/ CloseBrain
  <2>1. ~Whole(pending')
    BY <1>1, <1>4 DEF Whole
  <2>2. FilesFit'
    <3>1. CASE UNCHANGED <<main, wal>>
      BY <1>1, <2>1, <3>1
      DEF FilesInv, FilesFit, NothingBegun, NothingReplaced, Replaced,
          Identities, HeadlessReads, Live
    <3>2. CASE CloseBrain
      BY <1>1, <1>2, <2>1, <3>2, CloseFits
    <3> QED  BY <1>4, <3>1, <3>2
  <2>3. AtStep'
    BY <1>1, <1>4 DEF AtStep
  <2> QED  BY <2>2, <2>3 DEF FilesInv
<1> QED  BY <1>3, <1>4 DEF CaptureToSidecar

LEMMA FilesInvSwitchStep ==
  ASSUME CleanupsSucceed, TypeOK, StagesABackup, FilesInv, SwitchStep
  PROVE  FilesInv'
<1>1. CASE StageBackup  BY <1>1, StageFits
<1>2. CASE ClearVaultTables  BY <1>2, ClearFits
<1>3. CASE SyncOutbox  BY <1>3, SyncFits
<1>4. CASE CaptureToSidecar  BY <1>4, CaptureFits
<1> USE FileNumbers, LiveFile, Captured, FilesAssumption
    DEF FilesInv, FilesFit, NothingBegun, NothingReplaced, Replaced,
        Identities, HeadlessReads, AtStep, Live, HasRows, Preserved, Whole,
        Clean, CleanupsSucceed
<1>5. CASE WriteInstallMarker  BY <1>5 DEF WriteInstallMarker
<1>6. CASE PreserveOutgoingWal  BY <1>6 DEF PreserveOutgoingWal
<1>7. CASE RemoveSqliteSidecars  BY <1>7 DEF RemoveSqliteSidecars
<1>8. CASE CommitStagedBackup  BY <1>8 DEF CommitStagedBackup
<1>9. CASE SyncInstallDir  BY <1>9 DEF SyncInstallDir
<1>10. CASE PublishSidecar  BY <1>10 DEF PublishSidecar, Publish
<1>11. CASE DiscardOutgoingWal  BY <1>11 DEF DiscardOutgoingWal, DropKeptWal
<1>12. CASE ClearInstallMarker  BY <1>12 DEF ClearInstallMarker, Unmark
<1>13. CASE ReopenBrain  BY <1>13 DEF ReopenBrain
<1>14. CASE ConsumeSidecar  BY <1>14 DEF ConsumeSidecar, DropSidecar
<1>15. CASE SetVaultPath  BY <1>15 DEF SetVaultPath
<1> HIDE DEF FilesInv, FilesFit, NothingBegun, NothingReplaced, Replaced,
             Identities, HeadlessReads, AtStep, Live, HasRows, Preserved, Whole,
             Clean, CleanupsSucceed
<1> QED  BY <1>1, <1>2, <1>3, <1>4, <1>5, <1>6, <1>7, <1>8, <1>9, <1>10, <1>11,
         <1>12, <1>13, <1>14, <1>15 DEF SwitchStep

LEMMA FilesInvErrorStep ==
  ASSUME CleanupsSucceed, TypeOK, StagesABackup, FilesInv, ErrorStep
  PROVE  FilesInv'
<1> USE FileNumbers, LiveFile, Captured, FilesAssumption
    DEF FilesInv, FilesFit, NothingBegun, NothingReplaced, Replaced,
        Identities, HeadlessReads, AtStep, Live, HasRows, Preserved, Whole,
        Clean, CleanupsSucceed
<1>1. CASE ErrPublish  BY <1>1 DEF ErrPublish, Publish
<1>2. CASE ErrDiscardWal  BY <1>2 DEF ErrDiscardWal, DropKeptWal
<1>3. CASE ErrDiscardPending  BY <1>3 DEF ErrDiscardPending, DropPending
<1>4. CASE ErrRestoreWal  BY <1>4 DEF ErrRestoreWal, RestoreWal
<1>5. CASE ErrRemoveStaged  BY <1>5 DEF ErrRemoveStaged, DropStaged
<1>6. CASE ErrClearMarker  BY <1>6 DEF ErrClearMarker, Unmark
<1>7. CASE ErrAlignConfig  BY <1>7 DEF ErrAlignConfig
<1>8. CASE RecoverReopen  BY <1>8 DEF RecoverReopen
<1> HIDE DEF FilesInv, FilesFit, NothingBegun, NothingReplaced, Replaced,
             Identities, HeadlessReads, AtStep, Live, HasRows, Preserved, Whole,
             Clean, CleanupsSucceed
<1> QED  BY <1>1, <1>2, <1>3, <1>4, <1>5, <1>6, <1>7, <1>8 DEF ErrorStep

LEMMA FilesInvBootStep ==
  ASSUME CleanupsSucceed, TypeOK, StagesABackup, FilesInv, BootStep
  PROVE  FilesInv'
<1>1. CASE BootSync  BY <1>1, BootSyncFits
<1> USE FileNumbers, LiveFile, Captured, FilesAssumption
    DEF FilesInv, FilesFit, NothingBegun, NothingReplaced, Replaced,
        Identities, HeadlessReads, AtStep, Live, HasRows, Preserved, Whole,
        Clean, CleanupsSucceed
<1>2. CASE BootNoMarker  BY <1>2 DEF BootNoMarker, DropPending
<1>3. CASE BootRemoveStray  BY <1>3 DEF BootRemoveStray, DropStaged
<1>4. CASE BootCommitted  BY <1>4 DEF BootCommitted, DropKeptWal
<1>5. CASE BootPublish  BY <1>5 DEF BootPublish, Publish
<1>6. CASE BootRestoreWal  BY <1>6 DEF BootRestoreWal, RestoreWal
<1>7. CASE BootDiscardPending  BY <1>7 DEF BootDiscardPending, DropPending
<1>8. CASE BootRemoveStaged  BY <1>8 DEF BootRemoveStaged, DropStaged
<1>9. CASE BootClearMarker  BY <1>9 DEF BootClearMarker, Unmark
<1>10. CASE BootOpen  BY <1>10 DEF BootOpen
<1>11. CASE BootConsume  BY <1>11 DEF BootConsume, DropSidecar
<1> HIDE DEF FilesInv, FilesFit, NothingBegun, NothingReplaced, Replaced,
             Identities, HeadlessReads, AtStep, Live, HasRows, Preserved, Whole,
             Clean, CleanupsSucceed
<1> QED  BY <1>1, <1>2, <1>3, <1>4, <1>5, <1>6, <1>7, <1>8, <1>9, <1>10, <1>11
         DEF BootStep

LEMMA BeginFits ==
  ASSUME TypeOK, FilesInv, NEW v \in Vaults, NEW restore \in BOOLEAN,
         BeginSwitch(v, restore)
  PROVE  FilesInv'
<1>1. /\ Clean /\ CloseBrain /\ clock' = clock + 2 /\ clock \in Nat
      /\ pc' \in {"capture", "clear"} /\ installed' = FALSE
      /\ UNCHANGED <<sidecar, pending, staged, marker, kept, mcp, stale, saved>>
  BY FileNumbers DEF BeginSwitch, FilesInv, AtStep
<1>2. FilesFit'
  BY <1>1, CloseFits DEF Clean, Whole
<1>3. AtStep'
  BY <1>1 DEF AtStep, Clean
<1> QED  BY <1>2, <1>3 DEF FilesInv

LEMMA QuitFits ==
  ASSUME TypeOK, FilesInv, Quit
  PROVE  FilesInv'
<1>1. /\ Clean /\ pc' = "down" /\ clock' = clock /\ clock \in Nat
      /\ UNCHANGED <<sidecar, pending, staged, marker, kept, mcp, stale, saved>>
  BY FileNumbers DEF Quit, FilesInv, AtStep
<1>2. CASE CloseBrain
  <2>1. FilesFit'
    BY <1>1, <1>2, CloseFits DEF Clean, Whole
  <2>2. AtStep'
    BY <1>1 DEF AtStep
  <2> QED  BY <2>1, <2>2 DEF FilesInv
<1>3. CASE UNCHANGED <<main, wal>>
  BY <1>1, <1>3
  DEF FilesInv, FilesFit, NothingBegun, NothingReplaced, Replaced, Identities,
      HeadlessReads, AtStep, Live, Whole, Clean, Preserved
<1> QED  BY <1>2, <1>3 DEF Quit

\* A headless start reads what is there, and what is there was last committed.
LEMMA AttachFits ==
  ASSUME CleanupsSucceed, TypeOK, FilesInv, McpAttach
  PROVE  FilesInv'
<1>1. /\ ~mcp /\ pc # "install" /\ mcp' = TRUE
      /\ ~(HasRows(kept) /\ staged # None /\ wal = None)
      /\ UNCHANGED <<sidecar, pending, staged, marker, kept, stale, saved, clock,
                     pc, installed>>
  BY DEF McpAttach, CleanupsSucceed
<1>2. /\ Live' = Live /\ main'.file = main.file /\ wal' # None
      /\ HasRows(wal') => wal'.file = main.file
  <2>1. Live \in Content /\ Live.file = main.file /\ ~HasRows(None) /\ ~HasRows(Empty)
    BY LiveFile DEF HasRows
  <2>2. CASE wal' = OpenedWal /\ UNCHANGED main
    <3>1. HasRows(wal') <=> HasRows(wal)
      BY <2>1, <2>2 DEF OpenedWal
    <3>2. HasRows(wal) => wal' = wal
      BY <2>1, <2>2 DEF OpenedWal
    <3>3. wal' # None
      BY <2>2, FilesAssumption DEF OpenedWal
    <3> QED
      BY <2>2, <3>1, <3>2, <3>3 DEF Live, FilesInv, FilesFit, Identities
  <2>3. CASE wal' = Empty /\ main' = Live
    BY <2>1, <2>3, FilesAssumption DEF Live
  <2> QED  BY <2>2, <2>3 DEF McpAttach
<1>3. Live = saved
  <2>1. CASE ~marker
    BY <2>1 DEF FilesInv, FilesFit, NothingBegun
  <2>2. CASE marker /\ staged = None
    BY <2>2 DEF FilesInv, FilesFit, Replaced
  <2>3. CASE marker /\ staged # None
    BY <1>1, <2>3
    DEF FilesInv, FilesFit, NothingReplaced, Preserved, Live, HasRows
  <2> QED  BY <2>1, <2>2, <2>3 DEF TypeOK
<1>4. FilesFit'
  BY <1>1, <1>2, <1>3
  DEF FilesInv, FilesFit, NothingBegun, NothingReplaced, Replaced, Identities,
      HeadlessReads, Whole
<1>5. AtStep'
  <2>1. pc = "unlink" => Preserved'
    <3> SUFFICES ASSUME pc = "unlink" PROVE Preserved'
      OBVIOUS
    <3>1. Preserved
      BY DEF FilesInv, AtStep
    <3>2. CASE HasRows(kept)
      BY <1>1, <3>1, <3>2 DEF Preserved, HasRows
    <3>3. CASE ~HasRows(kept)
      <4>1. main' \in {main, Live}
        BY DEF McpAttach
      <4>2. saved = main
        BY <3>1, <3>3 DEF Preserved
      <4> QED  BY <1>1, <1>3, <3>1, <3>3, <4>1, <4>2 DEF Preserved, HasRows
    <3> QED  BY <3>2, <3>3
  <2> QED  BY <1>1, <2>1 DEF FilesInv, AtStep, Clean
<1> QED  BY <1>4, <1>5 DEF FilesInv

\* A headless exit checkpoints what was last committed.
LEMMA ExitFits ==
  ASSUME CleanupsSucceed, TypeOK, FilesInv, McpExit
  PROVE  FilesInv'
<1>1. /\ mcp' = FALSE /\ stale' = None
      /\ UNCHANGED <<sidecar, pending, staged, marker, kept, saved, clock, pc,
                     installed>>
  BY DEF McpExit
<1>2. CASE UNCHANGED <<main, wal>>
  BY <1>1, <1>2
  DEF FilesInv, FilesFit, NothingBegun, NothingReplaced, Replaced, Identities,
      HeadlessReads, AtStep, Live, HasRows, Preserved, Whole, Clean
<1>3. CASE ~UNCHANGED <<main, wal>>
  <2>1. /\ main' = saved /\ wal' = None /\ saved.file = main.file
        /\ staged # None /\ HasRows(kept) => kept = saved
    <3> DEFINE c == IF mcp THEN Live ELSE stale
    <3>1. MayCheckpoint(c) /\ main' = c /\ wal' = None
      BY <1>3 DEF McpExit, CleanupsSucceed
    <3>2. c.file = main.file
      BY LiveFile DEF McpExit, Held, FilesInv, FilesFit, Identities
    <3> QED  BY <3>1, <3>2 DEF MayCheckpoint
  <2>2. Live' = saved /\ ~HasRows(wal')
    BY <2>1 DEF Live, HasRows
  <2>3. staged # None => Preserved'
    BY <1>1, <2>1, FilesAssumption DEF Preserved, HasRows, TypeOK
  <2>4. FilesFit'
    BY <1>1, <2>1, <2>2, <2>3
    DEF FilesInv, FilesFit, NothingBegun, NothingReplaced, Replaced, Identities,
        HeadlessReads, Whole, HasRows
  <2>5. AtStep'
    BY <1>1, <2>1, <2>3 DEF FilesInv, AtStep, Clean, Whole
  <2> QED  BY <2>4, <2>5 DEF FilesInv
<1> QED  BY <1>2, <1>3

LEMMA FilesInvEnvironment ==
  ASSUME CleanupsSucceed, TypeOK, StagesABackup, FilesInv, Environment
  PROVE  FilesInv'
<1>1. ASSUME NEW r \in Records, Write(r)
      PROVE  FilesInv'
  BY <1>1, WriteFits
<1>2. CASE Drain  BY <1>2, DrainFits
<1>3. ASSUME NEW v \in Vaults, NEW restore \in BOOLEAN, BeginSwitch(v, restore)
      PROVE  FilesInv'
  BY <1>3, BeginFits
<1>6. CASE Quit  BY <1>6, QuitFits
<1>8. CASE McpAttach  BY <1>8, AttachFits
<1>9. CASE McpExit  BY <1>9, ExitFits
<1> USE FileNumbers, LiveFile, Captured, FilesAssumption
    DEF FilesInv, FilesFit, NothingBegun, NothingReplaced, Replaced,
        Identities, HeadlessReads, AtStep, Live, HasRows, Preserved, Whole,
        Clean, CleanupsSucceed
<1>4. CASE Launch  BY <1>4 DEF Launch
<1>5. CASE Crash  BY <1>5 DEF Crash
<1>7. CASE Backup  BY <1>7 DEF Backup
<1> HIDE DEF FilesInv, FilesFit, NothingBegun, NothingReplaced, Replaced,
             Identities, HeadlessReads, AtStep, Live, HasRows, Preserved, Whole,
             Clean, CleanupsSucceed
<1> QED  BY <1>1, <1>2, <1>3, <1>4, <1>5, <1>6, <1>7, <1>8, <1>9
         DEF Environment

LEMMA FilesInvStep ==
  ASSUME CleanupsSucceed, TypeOK, StagesABackup, FilesInv, [Next]_vars
  PROVE  FilesInv'
<1>1. CASE UNCHANGED vars
  BY <1>1 DEF vars, FilesInv, FilesFit, NothingBegun, NothingReplaced,
              Replaced, Identities, HeadlessReads, AtStep, Live, HasRows, Preserved, Whole, Clean
<1>2. CASE Next
  BY <1>2, FilesInvSwitchStep, FilesInvErrorStep, FilesInvBootStep,
     FilesInvEnvironment
  DEF Next
<1> QED  BY <1>1, <1>2

LEMMA StagesABackupStep ==
  ASSUME TypeOK, StagesABackup, FilesInv, [Next]_vars
  PROVE  StagesABackup'
<1>1. ASSUME NEW v \in Vaults, NEW restore \in BOOLEAN, BeginSwitch(v, restore)
      PROVE  StagesABackup'
  BY <1>1 DEF StagesABackup, BeginSwitch
<1>2. CASE CaptureToSidecar
  BY <1>2 DEF StagesABackup, CaptureToSidecar
<1>3. CASE ~CaptureToSidecar /\ (SwitchStep \/ ErrorStep \/ BootStep)
  BY <1>3 DEF StagesABackup, SwitchStep, ErrorStep, BootStep, StageBackup,
              WriteInstallMarker, PreserveOutgoingWal, RemoveSqliteSidecars,
              CommitStagedBackup, SyncInstallDir, PublishSidecar,
              DiscardOutgoingWal, ClearInstallMarker, ClearVaultTables,
              ReopenBrain, SyncOutbox, ConsumeSidecar, SetVaultPath,
              ErrPublish, ErrDiscardWal, ErrDiscardPending, ErrRestoreWal,
              ErrRemoveStaged, ErrClearMarker, ErrAlignConfig, RecoverReopen,
              BootNoMarker, BootRemoveStray, BootCommitted, BootPublish,
              BootRestoreWal, BootDiscardPending, BootRemoveStaged,
              BootClearMarker, BootOpen, BootSync, BootConsume, Publish,
              DropKeptWal, Unmark, RunPending, DropSidecar, DropPending,
              RestoreWal, DropStaged
<1>4. CASE Launch \/ Crash \/ Quit \/ Drain \/ Backup \/ McpAttach \/ McpExit
  BY <1>4
  DEF StagesABackup, Launch, Crash, Quit, Drain, Backup, McpAttach, McpExit,
      TypeOK
<1>5. ASSUME NEW r \in Records, Write(r)
      PROVE  StagesABackup'
  BY <1>5 DEF StagesABackup, Write
<1>6. CASE UNCHANGED vars
  BY <1>6 DEF StagesABackup, vars
<1> QED  BY <1>1, <1>2, <1>3, <1>4, <1>5, <1>6 DEF Next, Environment

-----------------------------------------------------------------------------
(* One capture at a time *)

LEMMA BeginSwitchCapture ==
  ASSUME TypeOK, FilesInv, OneCapture, NEW v \in Vaults, NEW restore \in BOOLEAN,
         BeginSwitch(v, restore)
  PROVE  OneCapture'
<1>1. switches # MaxSwitches /\ pc = "idle"
  BY RestoreSyncAssumption DEF BeginSwitch, TypeOK
<1>2. sidecar = None /\ pending = None
  BY <1>1 DEF OneCapture, FilesInv, AtStep, Clean
<1> QED  BY <1>1, <1>2 DEF BeginSwitch, OneCapture, ErrorSteps

LEMMA OneCaptureSwitchStep ==
  ASSUME CleanupsSucceed, CapturesAreSynced, TypeOK, FilesInv, OneCapture,
         SwitchStep
  PROVE  OneCapture'
<1> USE DEF OneCapture, FilesInv, AtStep, Clean, Whole, CleanupsSucceed,
            CapturesAreSynced, ErrorSteps
<1>1. CASE CaptureToSidecar  BY <1>1 DEF CaptureToSidecar
<1>2. CASE StageBackup  BY <1>2 DEF StageBackup
<1>3. CASE WriteInstallMarker  BY <1>3 DEF WriteInstallMarker
<1>4. CASE PreserveOutgoingWal  BY <1>4 DEF PreserveOutgoingWal
<1>5. CASE RemoveSqliteSidecars  BY <1>5 DEF RemoveSqliteSidecars
<1>6. CASE CommitStagedBackup  BY <1>6 DEF CommitStagedBackup
<1>7. CASE SyncInstallDir  BY <1>7 DEF SyncInstallDir
<1>8. CASE PublishSidecar  BY <1>8 DEF PublishSidecar, Publish
<1>9. CASE DiscardOutgoingWal  BY <1>9 DEF DiscardOutgoingWal, DropKeptWal
<1>10. CASE ClearInstallMarker  BY <1>10 DEF ClearInstallMarker, Unmark
<1>11. CASE ClearVaultTables  BY <1>11 DEF ClearVaultTables, Commit
<1>12. CASE ReopenBrain  BY <1>12 DEF ReopenBrain
<1>13. CASE SyncOutbox
  BY <1>13 DEF SyncOutbox, RunPending, Commit, SyncUnchanged
<1>14. CASE ConsumeSidecar  BY <1>14 DEF ConsumeSidecar, DropSidecar
<1>15. CASE SetVaultPath  BY <1>15 DEF SetVaultPath
<1> HIDE DEF OneCapture, FilesInv, AtStep, Clean, Whole, CleanupsSucceed,
             CapturesAreSynced, ErrorSteps
<1> QED  BY <1>1, <1>2, <1>3, <1>4, <1>5, <1>6, <1>7, <1>8, <1>9, <1>10, <1>11,
         <1>12, <1>13, <1>14, <1>15 DEF SwitchStep

LEMMA OneCaptureErrorStep ==
  ASSUME CleanupsSucceed, CapturesAreSynced, TypeOK, FilesInv, OneCapture,
         ErrorStep
  PROVE  OneCapture'
<1> USE DEF OneCapture, FilesInv, AtStep, Clean, Whole, CleanupsSucceed,
            CapturesAreSynced, ErrorSteps
<1>1. CASE ErrPublish  BY <1>1 DEF ErrPublish, Publish
<1>2. CASE ErrDiscardWal  BY <1>2 DEF ErrDiscardWal, DropKeptWal
<1>3. CASE ErrDiscardPending  BY <1>3 DEF ErrDiscardPending, DropPending
<1>4. CASE ErrRestoreWal  BY <1>4 DEF ErrRestoreWal, RestoreWal
<1>5. CASE ErrRemoveStaged  BY <1>5 DEF ErrRemoveStaged, DropStaged
<1>6. CASE ErrClearMarker  BY <1>6 DEF ErrClearMarker, Unmark
<1>7. CASE ErrAlignConfig  BY <1>7 DEF ErrAlignConfig
<1>8. CASE RecoverReopen  BY <1>8 DEF RecoverReopen
<1> HIDE DEF OneCapture, FilesInv, AtStep, Clean, Whole, CleanupsSucceed,
             CapturesAreSynced, ErrorSteps
<1> QED  BY <1>1, <1>2, <1>3, <1>4, <1>5, <1>6, <1>7, <1>8 DEF ErrorStep

LEMMA OneCaptureBootStep ==
  ASSUME CleanupsSucceed, CapturesAreSynced, TypeOK, FilesInv, OneCapture,
         BootStep
  PROVE  OneCapture'
<1> USE DEF OneCapture, FilesInv, AtStep, Clean, Whole, CleanupsSucceed,
            CapturesAreSynced, ErrorSteps
<1>1. CASE BootNoMarker  BY <1>1 DEF BootNoMarker, DropPending
<1>2. CASE BootRemoveStray  BY <1>2 DEF BootRemoveStray, DropStaged
<1>3. CASE BootCommitted  BY <1>3 DEF BootCommitted, DropKeptWal
<1>4. CASE BootPublish  BY <1>4 DEF BootPublish, Publish
<1>5. CASE BootRestoreWal  BY <1>5 DEF BootRestoreWal, RestoreWal
<1>6. CASE BootDiscardPending  BY <1>6 DEF BootDiscardPending, DropPending
<1>7. CASE BootRemoveStaged  BY <1>7 DEF BootRemoveStaged, DropStaged
<1>8. CASE BootClearMarker  BY <1>8 DEF BootClearMarker, Unmark
<1>9. CASE BootOpen  BY <1>9 DEF BootOpen
<1>10. CASE BootSync  BY <1>10 DEF BootSync, RunPending, Commit, SyncUnchanged
<1>11. CASE BootConsume  BY <1>11 DEF BootConsume, DropSidecar
<1> HIDE DEF OneCapture, FilesInv, AtStep, Clean, Whole, CleanupsSucceed,
             CapturesAreSynced, ErrorSteps
<1> QED  BY <1>1, <1>2, <1>3, <1>4, <1>5, <1>6, <1>7, <1>8, <1>9, <1>10, <1>11
         DEF BootStep

LEMMA OneCaptureEnvironment ==
  ASSUME CleanupsSucceed, CapturesAreSynced, TypeOK, FilesInv, OneCapture,
         Environment
  PROVE  OneCapture'
<1>1. ASSUME NEW v \in Vaults, NEW restore \in BOOLEAN, BeginSwitch(v, restore)
      PROVE  OneCapture'
  BY <1>1, BeginSwitchCapture
<1> USE DEF OneCapture, FilesInv, AtStep, Clean, Whole, CleanupsSucceed,
            CapturesAreSynced, ErrorSteps
<1>2. CASE Launch  BY <1>2 DEF Launch
<1>3. CASE Crash  BY <1>3 DEF Crash
<1>4. CASE Quit  BY <1>4 DEF Quit, CloseBrain
<1>5. ASSUME NEW r \in Records, Write(r)
      PROVE  OneCapture'
  BY <1>5 DEF Write, Commit
<1>6. CASE Drain  BY <1>6 DEF Drain, Commit
<1>7. CASE Backup  BY <1>7 DEF Backup
<1>8. CASE McpAttach  BY <1>8 DEF McpAttach
<1>9. CASE McpExit  BY <1>9 DEF McpExit
<1> HIDE DEF OneCapture, FilesInv, AtStep, Clean, Whole, CleanupsSucceed,
             CapturesAreSynced, ErrorSteps
<1> QED  BY <1>1, <1>2, <1>3, <1>4, <1>5, <1>6, <1>7, <1>8, <1>9
         DEF Environment

LEMMA OneCaptureStep ==
  ASSUME CleanupsSucceed, CapturesAreSynced, TypeOK, FilesInv, OneCapture,
         [Next]_vars
  PROVE  OneCapture'
<1>1. CASE UNCHANGED vars
  BY <1>1 DEF vars, OneCapture
<1>2. CASE Next
  BY <1>2, OneCaptureSwitchStep, OneCaptureErrorStep, OneCaptureBootStep,
     OneCaptureEnvironment
  DEF Next
<1> QED  BY <1>1, <1>2

-----------------------------------------------------------------------------
(* What the replica is owed *)

\* SettledFor is Settled without its sets of events.
LEMMA SettledMeans ==
  ASSUME NEW c \in Content
  PROVE  Settled(c) <=> SettledFor(c, replica)
<1>1. \A e \in c.outbox : e.rec \in Records
  BY ContentFields DEF Event
<1>2. ASSUME Settled(c) PROVE SettledFor(c, replica)
  <2>1. ASSUME NEW e \in c.outbox, Last(e, c.outbox)
        PROVE  e.op = "Insert" <=> e.rec \in c.recs
    BY <1>1, <1>2, <2>1 DEF Settled, Last
  <2>2. ASSUME NEW r \in Records, Untouched(r, c.outbox)
        PROVE  r \in replica <=> r \in c.recs
    BY <1>2, <2>2 DEF Settled, Untouched
  <2> QED  BY <2>1, <2>2 DEF SettledFor
<1>3. ASSUME SettledFor(c, replica) PROVE Settled(c)
  <2> SUFFICES ASSUME NEW r \in Records PROVE
        LET about == {e \in c.outbox : e.rec = r}
            last  == {e \in about : \A f \in about : f.at <= e.at}
        IN  IF about = {} THEN r \in replica <=> r \in c.recs
                          ELSE \A e \in last : e.op = "Insert" <=> r \in c.recs
     BY DEF Settled
  <2>1. CASE {e \in c.outbox : e.rec = r} = {}
    BY <1>3, <2>1 DEF SettledFor, Untouched
  <2>2. ASSUME NEW e \in c.outbox, e.rec = r,
               \A f \in {f \in c.outbox : f.rec = r} : f.at <= e.at
        PROVE  e.op = "Insert" <=> r \in c.recs
    BY <1>3, <2>2 DEF SettledFor, Last
  <2> QED  BY <2>1, <2>2
<1> QED  BY <1>2, <1>3

LEMMA SettledIsTruthful ==
  ASSUME NEW x, x.outbox \subseteq Event, NEW rep, SettledFor(x, rep)
  PROVE  Truthful(x)
BY DEF SettledFor, Truthful, Event

LEMMA SameRecords ==
  ASSUME NEW x, NEW y, x.recs = y.recs, x.outbox = y.outbox, NEW t, NEW rep
  PROVE  /\ Older(x, t) <=> Older(y, t)
         /\ Truthful(x) <=> Truthful(y)
         /\ SettledFor(x, rep) <=> SettledFor(y, rep)
BY DEF Older, Truthful, SettledFor

LEMMA StillOlder ==
  ASSUME NEW x, x.outbox \subseteq Event, NEW t \in Nat, NEW n \in Nat,
         Older(x, t), t <= n
  PROVE  Older(x, n)
BY DEF Older, Event

LEMMA OlderTracks ==
  ASSUME NEW x, x.outbox \subseteq Event, NEW t \in Nat, Older(x, t)
  PROVE  Tracks(x, t)
BY DEF Older, Tracks, Event

\* run_pending pays the debt: its Deletes come after every event of the capture
\* and of the backup, its Inserts after its Deletes, and what was written to the
\* backup since comes after both.
LEMMA SyncSettles ==
  ASSUME NEW c \in Content, NEW cap \in Capture, NEW t \in Nat, NEW n \in Nat,
         NEW rep, Older(c, n), t + 2 <= n, Tracks(c, t), Older(cap, t),
         OwedFor(c, cap, rep)
  PROVE  /\ Older(Synced(c, cap, t), n)
         /\ SettledFor(Synced(c, cap, t), rep)
         /\ OwedFor(Synced(c, cap, t), cap, rep)
<1> DEFINE s == Synced(c, cap, t)
           D == [at : {t},     op : {"Delete"}, rec : cap.recs]
           I == [at : {t + 1}, op : {"Insert"}, rec : c.recs]
<1>1. /\ s \in Content /\ s.recs = c.recs
      /\ s.outbox = c.outbox \cup cap.outbox \cup D \cup I
  BY SyncedFields
<1>2. /\ c.outbox \subseteq Event /\ cap.outbox \subseteq Event
      /\ c.recs \subseteq Records /\ cap.recs \subseteq Records
      /\ s.outbox \subseteq Event
  BY <1>1, ContentFields, CaptureFields
<1> HIDE DEF s
<1>3. \A e \in D : e.at = t /\ e.op = "Delete" /\ e.rec \in cap.recs
  OBVIOUS
<1>4. \A e \in I : e.at = t + 1 /\ e.op = "Insert" /\ e.rec \in c.recs
  OBVIOUS
<1>5. \A r \in cap.recs : \E e \in D : e.rec = r /\ e.at = t
  <2> TAKE r \in cap.recs
  <2>1. [at |-> t, op |-> "Delete", rec |-> r] \in D  OBVIOUS
  <2> QED  BY <2>1
<1>6. \A r \in c.recs : \E e \in I : e.rec = r /\ e.at = t + 1
  <2> TAKE r \in c.recs
  <2>1. [at |-> t + 1, op |-> "Insert", rec |-> r] \in I  OBVIOUS
  <2> QED  BY <2>1
<1> HIDE DEF D, I
<1>7. /\ \A e \in cap.outbox : e.at < t /\ e.at \in Nat
      /\ \A e \in c.outbox : e.at < n /\ e.at \in Nat
  BY <1>2 DEF Older, Event
<1>8. Older(s, n)
  BY <1>1, <1>3, <1>4, <1>7 DEF Older
<1>9. ASSUME NEW e \in s.outbox, Last(e, s.outbox)
      PROVE  e.op = "Insert" <=> e.rec \in c.recs
  <2>0. CASE e \in c.outbox /\ e.at >= t
    <3>1. Last(e, c.outbox)
      BY <1>1, <1>9, <2>0 DEF Last
    <3> QED  BY <2>0, <3>1 DEF Tracks
  <2>4. ASSUME ~(e \in c.outbox /\ e.at >= t)
        PROVE  \/ e \in c.outbox /\ e.at < t
               \/ e \in cap.outbox /\ e.at < t
               \/ e \in D /\ e.at = t /\ e.op = "Delete"
               \/ e \in I /\ e.at = t + 1 /\ e.op = "Insert"
    BY <1>1, <1>3, <1>4, <1>7, <2>4
  <2>1. CASE ~(e \in c.outbox /\ e.at >= t) /\ e.rec \in c.recs
    <3>1. e.at >= t + 1
      BY <1>1, <1>6, <1>9, <2>1 DEF Last
    <3> QED  BY <1>7, <2>1, <2>4, <3>1
  <2>2. CASE ~(e \in c.outbox /\ e.at >= t) /\ e.rec \notin c.recs /\ e.rec \in cap.recs
    <3>1. e.at >= t
      BY <1>1, <1>5, <1>9, <2>2 DEF Last
    <3> QED  BY <1>4, <1>7, <2>2, <2>4, <3>1
  <2>3. CASE ~(e \in c.outbox /\ e.at >= t) /\ e.rec \notin c.recs /\ e.rec \notin cap.recs
    <3>1. CASE e \in c.outbox
      BY <1>1, <1>9, <2>3, <3>1 DEF OwedFor, Truthful, Last
    <3>2. CASE e \in cap.outbox
      BY <1>1, <1>9, <2>3, <3>2 DEF OwedFor, Truthful, Last
    <3> QED  BY <1>3, <1>4, <2>3, <2>4, <3>1, <3>2
  <2> QED  BY <2>0, <2>1, <2>2, <2>3
<1>10. ASSUME NEW r \in Records, Untouched(r, s.outbox)
       PROVE  r \in rep <=> r \in c.recs
  <2>1. r \notin c.recs /\ r \notin cap.recs
    BY <1>1, <1>5, <1>6, <1>10 DEF Untouched
  <2> QED  BY <1>1, <1>10, <2>1 DEF Untouched, OwedFor
<1>11. SettledFor(s, rep)
  BY <1>1, <1>9, <1>10 DEF SettledFor
<1>12. OwedFor(s, cap, rep)
  <2>1. Truthful(s) /\ Truthful(cap)
    BY <1>2, <1>11, SettledIsTruthful DEF OwedFor
  <2>2. ASSUME NEW r \in Records \ (s.recs \cup cap.recs),
               Untouched(r, s.outbox \cup cap.outbox)
        PROVE  r \notin rep
    BY <1>1, <2>2 DEF OwedFor, Untouched
  <2> QED  BY <2>1, <2>2 DEF OwedFor
<1> QED  BY <1>8, <1>11, <1>12 DEF s

\* Emptying the tables queues a Delete for every record they held.
LEMMA ClearSettles ==
  ASSUME NEW c \in Content, NEW v \in Vaults, NEW t \in Nat, NEW n \in Nat,
         NEW rep, t < n, Older(c, t), SettledFor(c, rep)
  PROVE  /\ Older(Cleared(c, v, t), n)
         /\ SettledFor(Cleared(c, v, t), rep)
<1> DEFINE s == Cleared(c, v, t)
           D == [at : {t}, op : {"Delete"}, rec : c.recs]
<1>1. s \in Content /\ s.recs = {} /\ s.outbox = c.outbox \cup D
  BY ClearedFields
<1>2. c.outbox \subseteq Event /\ c.recs \subseteq Records
  BY ContentFields
<1> HIDE DEF s
<1>3. \A e \in D : e.at = t /\ e.op = "Delete" /\ e.rec \in c.recs
  OBVIOUS
<1>4. \A r \in c.recs : \E e \in D : e.rec = r /\ e.at = t
  <2> TAKE r \in c.recs
  <2>1. [at |-> t, op |-> "Delete", rec |-> r] \in D  OBVIOUS
  <2> QED  BY <2>1
<1> HIDE DEF D
<1>5. \A e \in c.outbox : e.at < t /\ e.at \in Nat
  BY <1>2 DEF Older, Event
<1>6. Older(s, n)
  BY <1>1, <1>3, <1>5 DEF Older
<1>7. ASSUME NEW e \in s.outbox, Last(e, s.outbox)
      PROVE  e.op # "Insert"
  <2>1. CASE e.rec \in c.recs
    <3>1. e.at >= t
      BY <1>1, <1>4, <1>7, <2>1 DEF Last
    <3> QED  BY <1>1, <1>3, <1>5, <2>1, <3>1
  <2>2. CASE e.rec \notin c.recs
    <3>1. e \in c.outbox /\ Last(e, c.outbox)
      BY <1>1, <1>3, <1>7, <2>2 DEF Last
    <3> QED  BY <2>2, <3>1 DEF SettledFor
  <2> QED  BY <2>1, <2>2
<1>8. ASSUME NEW r \in Records, Untouched(r, s.outbox)
      PROVE  r \notin rep
  <2>1. r \notin c.recs /\ Untouched(r, c.outbox)
    BY <1>1, <1>4, <1>8 DEF Untouched
  <2> QED  BY <2>1 DEF SettledFor
<1>9. SettledFor(s, rep)
  BY <1>1, <1>7, <1>8 DEF SettledFor
<1> QED  BY <1>6, <1>9 DEF s

\* A write and its event leave the debt as it was.
LEMMA WriteKeeps ==
  ASSUME Live \in Content, clock \in Nat, NEW r \in Records, NEW rep,
         Older(Live, clock)
  PROVE  /\ Older(Written(r), clock + 1)
         /\ SettledFor(Live, rep) => SettledFor(Written(r), rep)
         /\ \A cap \in Capture : OwedFor(Live, cap, rep) => OwedFor(Written(r), cap, rep)
<1> DEFINE c == Live
           w == Written(r)
           op == IF r \in c.recs THEN "Delete" ELSE "Insert"
           n == [at |-> clock, op |-> op, rec |-> r]
<1>1. /\ w \in Content /\ w.outbox = c.outbox \cup {n}
      /\ w.recs = IF r \in c.recs THEN c.recs \ {r} ELSE c.recs \cup {r}
  BY WrittenFields
<1>2. c.outbox \subseteq Event /\ w.outbox \subseteq Event
  BY <1>1, ContentFields
<1>3. /\ n.at = clock /\ n.rec = r /\ n.op \in {"Insert", "Delete"}
      /\ n.op = "Insert" <=> r \in w.recs
  BY <1>1
<1> HIDE DEF n, w, c
<1>4. \A e \in c.outbox : e.at < clock /\ e.at \in Nat
  BY <1>2 DEF Older, Event, c
<1>5. Older(w, clock + 1)
  BY <1>1, <1>3, <1>4 DEF Older
<1>6. ASSUME NEW e \in w.outbox, Last(e, w.outbox), e.rec = r
      PROVE  e = n
  <2>1. e.at >= clock
    BY <1>1, <1>3, <1>6 DEF Last
  <2> QED  BY <1>1, <1>4, <2>1
<1>7. ASSUME NEW e \in w.outbox, Last(e, w.outbox), e.rec # r
      PROVE  /\ e \in c.outbox /\ Last(e, c.outbox)
             /\ e.rec \in w.recs <=> e.rec \in c.recs
  BY <1>1, <1>3, <1>7 DEF Last
<1>8. ASSUME NEW q \in Records, NEW O, Untouched(q, w.outbox \cup O)
      PROVE  Untouched(q, c.outbox \cup O) /\ (q \in w.recs <=> q \in c.recs)
  BY <1>1, <1>3, <1>8 DEF Untouched
<1>9. ASSUME SettledFor(c, rep)
      PROVE  SettledFor(w, rep)
  <2>1. ASSUME NEW e \in w.outbox, Last(e, w.outbox)
        PROVE  e.op = "Insert" <=> e.rec \in w.recs
    BY <1>3, <1>6, <1>7, <1>9, <2>1 DEF SettledFor
  <2>2. ASSUME NEW q \in Records, Untouched(q, w.outbox)
        PROVE  q \in rep <=> q \in w.recs
    <3>1. Untouched(q, c.outbox) /\ (q \in w.recs <=> q \in c.recs)
      BY <1>8, <2>2, w.outbox \cup {} = w.outbox, c.outbox \cup {} = c.outbox
    <3> QED  BY <1>9, <3>1 DEF SettledFor
  <2> QED  BY <2>1, <2>2 DEF SettledFor
<1>10. ASSUME NEW cap \in Capture, OwedFor(c, cap, rep)
       PROVE  OwedFor(w, cap, rep)
  <2>1. ASSUME NEW e \in w.outbox, Last(e, w.outbox), e.rec \notin w.recs
        PROVE  e.op = "Delete"
    BY <1>3, <1>6, <1>7, <1>10, <2>1 DEF OwedFor, Truthful
  <2>2. ASSUME NEW q \in Records \ (w.recs \cup cap.recs),
               Untouched(q, w.outbox \cup cap.outbox)
        PROVE  q \notin rep
    BY <1>8, <1>10, <2>2 DEF OwedFor
  <2> QED  BY <1>10, <2>1, <2>2 DEF OwedFor, Truthful
<1> QED  BY <1>5, <1>9, <1>10 DEF c, w

Oldest(e, O) == \A f \in O : e.at <= f.at

Delivered(e, rep, rep2) ==
    rep2 = IF e.op = "Insert" THEN rep \cup {e.rec} ELSE rep \ {e.rec}

\* A write to a database that the running switch has still to stamp.
LEMMA WriteTracks ==
  ASSUME Live \in Content, clock \in Nat, NEW r \in Records, NEW t \in Nat,
         t + 2 <= clock, Older(Live, clock), Tracks(Live, t)
  PROVE  Tracks(Written(r), t)
<1> DEFINE c == Live
           w == Written(r)
           op == IF r \in c.recs THEN "Delete" ELSE "Insert"
           n == [at |-> clock, op |-> op, rec |-> r]
<1>1. /\ w \in Content /\ w.outbox = c.outbox \cup {n}
      /\ w.recs = IF r \in c.recs THEN c.recs \ {r} ELSE c.recs \cup {r}
  BY WrittenFields
<1>2. c.outbox \subseteq Event
  BY ContentFields
<1>3. /\ n.at = clock /\ n.rec = r
      /\ n.op = "Insert" <=> r \in w.recs
  BY <1>1
<1> HIDE DEF n, w, c
<1>4. \A e \in c.outbox : e.at < clock /\ e.at \in Nat
  BY <1>2 DEF Older, Event, c
<1> SUFFICES ASSUME NEW e \in w.outbox, e.at >= t
             PROVE  /\ e.at > t + 1
                    /\ Last(e, w.outbox) => (e.op = "Insert" <=> e.rec \in w.recs)
  BY DEF Tracks, w
<1>5. CASE e = n
  BY <1>3, <1>5
<1>6. CASE e \in c.outbox
  <2>1. e.at > t + 1 /\ (Last(e, c.outbox) => (e.op = "Insert" <=> e.rec \in c.recs))
    BY <1>6 DEF Tracks, c
  <2>2. ASSUME Last(e, w.outbox)
        PROVE  e.op = "Insert" <=> e.rec \in w.recs
    <3>1. e.rec # r
      BY <1>1, <1>3, <1>4, <1>6, <2>2 DEF Last
    <3>2. Last(e, c.outbox)
      BY <1>1, <1>6, <2>2 DEF Last
    <3> QED  BY <1>1, <2>1, <3>1, <3>2
  <2> QED  BY <2>1, <2>2
<1> QED  BY <1>1, <1>5, <1>6


\* So does delivering the oldest row: if it is the last word on its record, it was
\* true of it, and if not, a later one still is.
LEMMA DrainKeeps ==
  ASSUME NEW c \in Content, NEW e \in c.outbox, Oldest(e, c.outbox),
         NEW d \in Content, d.recs = c.recs, d.outbox = c.outbox \ {e}, NEW rep, NEW rep2,
         Delivered(e, rep, rep2)
  PROVE  /\ \A t \in Nat : Older(c, t) => Older(d, t)
         /\ SettledFor(c, rep) => SettledFor(d, rep2)
         /\ \A cap \in Capture : OwedFor(c, cap, rep) => OwedFor(d, cap, rep2)
<1>1. d.recs = c.recs /\ d.outbox = c.outbox \ {e}
  OBVIOUS
<1>2. c.outbox \subseteq Event
  BY ContentFields
<1>3. \A f \in c.outbox : f.at \in Nat /\ f.op \in {"Insert", "Delete"} /\ f.rec \in Records
  BY <1>2 DEF Event
<1>4. ASSUME NEW f \in d.outbox, Last(f, d.outbox)
      PROVE  Last(f, c.outbox)
  BY <1>1, <1>3, <1>4 DEF Last, Oldest
<1>5. ASSUME NEW O, Untouched(e.rec, d.outbox \cup O)
      PROVE  Last(e, c.outbox)
  BY <1>1, <1>3, <1>5 DEF Untouched, Last
<1>6. ASSUME NEW r, NEW O, r # e.rec, Untouched(r, d.outbox \cup O)
      PROVE  Untouched(r, c.outbox \cup O) /\ (r \in rep2 <=> r \in rep)
  BY <1>1, <1>6 DEF Untouched, Delivered
<1>7. e.rec \in rep2 <=> e.op = "Insert"
  BY DEF Delivered
<1>8. \A t \in Nat : Older(c, t) => Older(d, t)
  BY <1>1 DEF Older
<1>9. ASSUME SettledFor(c, rep)
      PROVE  SettledFor(d, rep2)
  <2>1. ASSUME NEW f \in d.outbox, Last(f, d.outbox)
        PROVE  f.op = "Insert" <=> f.rec \in d.recs
    BY <1>1, <1>4, <1>9, <2>1 DEF SettledFor
  <2>2. ASSUME NEW r \in Records, Untouched(r, d.outbox)
        PROVE  r \in rep2 <=> r \in d.recs
    <3>1. d.outbox = d.outbox \cup {} /\ c.outbox = c.outbox \cup {}
      OBVIOUS
    <3>2. CASE r = e.rec
      BY <1>1, <1>5, <1>7, <1>9, <2>2, <3>1, <3>2 DEF SettledFor
    <3>3. CASE r # e.rec
      BY <1>1, <1>6, <1>9, <2>2, <3>1, <3>3 DEF SettledFor
    <3> QED  BY <3>2, <3>3
  <2> QED  BY <2>1, <2>2 DEF SettledFor
<1>10. ASSUME NEW cap \in Capture, OwedFor(c, cap, rep)
       PROVE  OwedFor(d, cap, rep2)
  <2>1. Truthful(d) /\ Truthful(cap)
    BY <1>1, <1>4, <1>10 DEF OwedFor, Truthful
  <2>2. ASSUME NEW r \in Records \ (d.recs \cup cap.recs),
               Untouched(r, d.outbox \cup cap.outbox)
        PROVE  r \notin rep2
    <3>1. CASE r = e.rec
      <4>1. e.op = "Delete"
        BY <1>1, <1>5, <1>10, <2>2, <3>1 DEF OwedFor, Truthful
      <4> QED  BY <1>7, <3>1, <4>1
    <3>2. CASE r # e.rec
      BY <1>1, <1>6, <1>10, <2>2, <3>2 DEF OwedFor
    <3> QED  BY <3>1, <3>2
  <2> QED  BY <2>1, <2>2 DEF OwedFor
<1> QED  BY <1>8, <1>9, <1>10

\* Installing a backup turns a settled outbox into a debt: the capture knows
\* every record of the replica that no queued event is about.
LEMMA InstallOwes ==
  ASSUME NEW c \in Content, Truthful(c), NEW cap \in Capture, NEW rep,
         SettledFor(cap, rep)
  PROVE  OwedFor(c, cap, rep)
<1>1. Truthful(cap)
  BY SettledIsTruthful, CaptureFields
<1> QED  BY <1>1 DEF OwedFor, SettledFor, Untouched

LEMMA DebtFields ==
  ASSUME TypeOK, DebtInv
  PROVE  /\ saved \in Content /\ saved.outbox \subseteq Event /\ clock \in Nat
         /\ Truthful(saved)
         /\ Whole(pending) => pending \in Capture /\ pending.outbox \subseteq Event
         /\ Whole(sidecar) => sidecar \in Capture /\ sidecar.outbox \subseteq Event
         /\ Whole(staged) => staged \in Content /\ staged.outbox \subseteq Event
         /\ \A v \in Vaults : backups[v] # None =>
              backups[v] \in Content /\ backups[v].outbox \subseteq Event
<1>1. /\ saved \in Content /\ clock \in Nat
      /\ Whole(pending) => pending \in Capture
      /\ Whole(sidecar) => sidecar \in Capture
      /\ Whole(staged) => staged \in Content
      /\ \A v \in Vaults : backups[v] # None => backups[v] \in Content
  BY DEF TypeOK, Whole, FileOf
<1>2. saved.outbox \subseteq Event
  BY <1>1, ContentFields
<1>3. Truthful(saved)
  <2>1. CASE sidecar = None /\ ~Unpublished
    BY <1>2, <2>1, SettledIsTruthful DEF DebtInv
  <2>2. CASE ~(sidecar = None /\ ~Unpublished)
    BY <2>2 DEF DebtInv, OwedFor
  <2> QED  BY <2>1, <2>2
<1> QED  BY <1>1, <1>2, <1>3, ContentFields, CaptureFields

\* What was older than the clock stays older as it goes on.
LEMMA OlderStays ==
  ASSUME TypeOK, FilesInv, DebtInv, clock' \in Nat, clock <= clock'
  PROVE  /\ Older(saved, clock')
         /\ Whole(pending) => Older(pending, clock')
         /\ sidecar # None => Older(sidecar, clock')
         /\ Whole(staged) => Older(staged, clock')
         /\ \A v \in Vaults : backups[v] # None => Older(backups[v], clock')
BY DebtFields, StillOlder DEF DebtInv, FilesInv, FilesFit, Identities, Whole

LEMMA CaptureDebt ==
  ASSUME TypeOK, FilesInv, OneCapture, DebtInv, CaptureToSidecar
  PROVE  DebtInv'
<1>1. /\ Live = saved /\ saved \in Content /\ ~marker /\ sidecar = None
      /\ pending = None
  BY DebtFields
  DEF CaptureToSidecar, FilesInv, FilesFit, AtStep, Clean, NothingBegun,
      OneCapture
<1>2. /\ CaptureOf(saved).recs = saved.recs
      /\ CaptureOf(saved).outbox = saved.outbox
  BY <1>1, Captured
<1>3. SettledFor(saved, replica) /\ Older(saved, clock)
  BY <1>1 DEF DebtInv, Unpublished
<1>4. SettledFor(CaptureOf(saved), replica) /\ Older(CaptureOf(saved), clock)
  BY <1>2, <1>3, SameRecords
<1>5. CASE pending' = CaptureOf(Live) /\ CloseBrain /\ Goto("stage")
  BY <1>1, <1>3, <1>4, <1>5
  DEF DebtInv, Unpublished, CaptureToSidecar
<1>6. CASE pending' \in {pending, Torn} /\ Fail("capture")
  BY <1>1, <1>3, <1>6
  DEF DebtInv, Unpublished, CaptureToSidecar,
      Whole
<1> QED  BY <1>5, <1>6 DEF CaptureToSidecar

LEMMA StageDebt ==
  ASSUME TypeOK, StagesABackup, FilesInv, OneCapture, DebtInv, StageBackup
  PROVE  DebtInv'
<1>0. /\ UNCHANGED <<pending, sidecar, marker, saved, replica, backups>>
      /\ pc = "stage" /\ ~marker /\ staged = None
  BY DEF StageBackup, FilesInv, FilesFit, AtStep
<1>1. CASE /\ staged' = [backups[target] EXCEPT !.file = clock]
           /\ clock' = clock + 1 /\ Goto("mark")
  <2>1. /\ target \in Vaults /\ backups[target] \in Content /\ clock \in Nat
        /\ Older(backups[target], clock) /\ Truthful(backups[target])
    BY <1>0 DEF TypeOK, StagesABackup, DebtInv
  <2>2. Older(staged', clock) /\ Truthful(staged') /\ staged' \in Content
    BY <1>1, <2>1, Refiled, SameRecords
  <2>3. Older(staged', clock')
    BY <1>1, <2>1, <2>2, ContentFields, StillOlder
  <2>4. clock' \in Nat /\ clock <= clock'
    BY <1>1, <2>1
  <2>5. ~Unpublished /\ ~Unpublished'
    BY <1>0 DEF Unpublished
  <2> QED  BY <1>0, <1>1, <2>2, <2>3, <2>4, <2>5, OlderStays
           DEF DebtInv, Whole
<1>2. CASE staged' \in {staged, Torn} /\ Fail("stage") /\ UNCHANGED clock
  BY <1>0, <1>2 DEF DebtInv, Unpublished, Whole
<1> QED  BY <1>1, <1>2 DEF StageBackup

LEMMA InstallDebt ==
  ASSUME TypeOK, FilesInv, OneCapture, DebtInv, CommitStagedBackup
  PROVE  DebtInv'
<1>0. /\ pc = "install" /\ marker /\ Whole(pending) /\ Whole(staged)
      /\ sidecar = None
      /\ UNCHANGED <<pending, sidecar, marker, replica, backups, clock>>
  BY FilesAssumption
  DEF CommitStagedBackup, FilesInv, FilesFit, AtStep, OneCapture, Whole
<1>1. CASE saved' = staged /\ staged' = None /\ Goto("dirsync")
  <2>1. /\ staged \in Content /\ pending \in Capture
        /\ Truthful(staged) /\ Older(staged, clock)
        /\ SettledFor(pending, replica)
    BY <1>0, DebtFields DEF DebtInv, Unpublished, Whole
  <2>2. OwedFor(staged, pending, replica)
    BY <2>1, InstallOwes
  <2> QED  BY <1>0, <1>1, <2>1, <2>2 DEF DebtInv, Unpublished, Whole
<1>2. CASE Fail("install") /\ UNCHANGED <<staged, saved>>
  BY <1>0, <1>2 DEF DebtInv, Unpublished
<1> QED  BY <1>1, <1>2 DEF CommitStagedBackup

LEMMA ClearDebt ==
  ASSUME TypeOK, FilesInv, OneCapture, DebtInv, StampInv, ClearVaultTables
  PROVE  DebtInv'
<1>0. /\ pc = "clear" /\ ~marker /\ pending = None /\ staged = None
      /\ sidecar = None
      /\ UNCHANGED <<pending, sidecar, staged, marker, replica, backups, clock>>
      /\ Live = saved
  BY DEF ClearVaultTables, FilesInv, FilesFit, AtStep, Clean, NothingBegun,
      OneCapture
<1>1. CASE saved' = Cleared(Live, target, now) /\ Goto("reopen")
  <2>1. /\ saved \in Content /\ clock \in Nat /\ now \in Nat /\ target \in Vaults
        /\ Older(saved, now) /\ SettledFor(saved, replica) /\ now < clock
    BY <1>0, DebtFields DEF DebtInv, Unpublished, TypeOK, StampInv, SwitchSteps
  <2>2. Older(saved', clock) /\ SettledFor(saved', replica)
    BY <1>0, <1>1, <2>1, ClearSettles
  <2> QED  BY <1>0, <1>1, <2>2 DEF DebtInv, Unpublished, Whole
<1>2. CASE Fail("clear") /\ UNCHANGED <<saved, align>>
  BY <1>0, <1>2 DEF DebtInv, Unpublished
<1> QED  BY <1>1, <1>2 DEF ClearVaultTables

LEMMA RunPendingDebt ==
  ASSUME TypeOK, FilesInv, OneCapture, DebtInv, Clean, NEW t \in Nat,
         Whole(sidecar) => Tracks(saved, t) /\ Older(sidecar, t),
         NEW next \in {"consume", "boot_consume"},
         NEW skip \in {"config", "idle"}, NEW at \in {"err", "idle"},
         RunPending(t, next, skip, at), SyncUnchanged
  PROVE  DebtInv'
<1>0. /\ pending = None /\ staged = None
      /\ UNCHANGED <<pending, staged, marker, replica, backups>>
      /\ Live = saved
  BY DEF SyncUnchanged, FilesInv, FilesFit, NothingBegun, Clean
<1>1. CASE /\ Whole(sidecar) /\ UNCHANGED sidecar
           /\ Commit(Synced(Live, sidecar, t)) /\ clock' = Past(t)
  <2>1. saved \in Content /\ clock \in Nat /\ sidecar \in Capture
        /\ Older(saved, clock) /\ OwedFor(saved, sidecar, replica)
    BY <1>0, <1>1, DebtFields DEF DebtInv, Whole
  <2>2. clock' \in Nat /\ clock <= clock' /\ t + 2 <= clock'
    BY <1>1, <2>1 DEF Past
  <2>3. Older(saved, clock')
    BY <2>1, <2>2, ContentFields, StillOlder
  <2>4. /\ Older(saved', clock') /\ SettledFor(saved', replica)
        /\ OwedFor(saved', sidecar, replica)
    BY <1>0, <1>1, <2>1, <2>2, <2>3, SyncSettles DEF Commit
  <2> QED  BY <1>0, <1>1, <2>2, <2>4, OlderStays
           DEF DebtInv, Unpublished, Whole
<1>2. CASE /\ ~Whole(sidecar) /\ sidecar' = None /\ Goto(skip)
           /\ UNCHANGED <<saved, clock>>
  <2>1. sidecar = None
    BY <1>2 DEF FilesInv, FilesFit, Identities, Whole
  <2> QED  BY <1>0, <1>2, <2>1 DEF DebtInv, Unpublished
<1>3. CASE UNCHANGED <<sidecar, saved, clock>> /\ FailTo("sync", at)
  BY <1>0, <1>3 DEF DebtInv, Unpublished
<1> QED  BY <1>1, <1>2, <1>3 DEF RunPending, Whole

LEMMA SyncDebt ==
  ASSUME TypeOK, FilesInv, OneCapture, DebtInv, StampInv, SyncOutbox
  PROVE  DebtInv'
<1>1. Clean /\ now \in Nat /\ RunPending(now, "consume", "config", "err") /\ SyncUnchanged
  BY DEF SyncOutbox, FilesInv, AtStep, TypeOK
<1>2. Whole(sidecar) => Tracks(saved, now) /\ Older(sidecar, now)
  BY DEF SyncOutbox, StampInv, Whole
<1> QED  BY <1>1, <1>2, RunPendingDebt

LEMMA BootSyncDebt ==
  ASSUME TypeOK, FilesInv, OneCapture, DebtInv, BootSync
  PROVE  DebtInv'
<1>1. /\ Clean /\ clock \in Nat
      /\ RunPending(clock, "boot_consume", "idle", "idle") /\ SyncUnchanged
  BY DEF BootSync, FilesInv, AtStep, TypeOK
<1>2. Whole(sidecar) => Tracks(saved, clock) /\ Older(sidecar, clock)
  BY <1>1, DebtFields, OlderTracks DEF DebtInv, Whole
<1> QED  BY <1>1, <1>2, RunPendingDebt

LEMMA WriteDebt ==
  ASSUME CleanupsSucceed, TypeOK, FilesInv, OneCapture, DebtInv,
         NEW r \in Records, Write(r)
  PROVE  DebtInv'
<1>0. /\ UNCHANGED <<pending, sidecar, staged, marker, replica, backups, pc>>
      /\ clock' = clock + 1 /\ saved' = Written(r)
      /\ Live = saved
  BY DEF Write, Commit, FilesInv, FilesFit, AtStep, Clean,
      NothingBegun, HeadlessReads
<1>1. saved \in Content /\ clock \in Nat /\ Older(saved, clock)
  BY DebtFields DEF DebtInv
<1>2. /\ Older(saved', clock')
      /\ SettledFor(saved, replica) => SettledFor(saved', replica)
      /\ \A cap \in Capture : OwedFor(saved, cap, replica) => OwedFor(saved', cap, replica)
  BY <1>0, <1>1, WriteKeeps
<1>3. clock' \in Nat /\ clock <= clock'
  BY <1>0, <1>1
<1>4. /\ Whole(pending) => pending \in Capture
      /\ sidecar # None => sidecar \in Capture
  BY DebtFields DEF FilesInv, FilesFit, Identities, Whole
<1> QED  BY <1>0, <1>2, <1>3, <1>4, OlderStays DEF DebtInv, Unpublished

LEMMA DrainDebt ==
  ASSUME TypeOK, FilesInv, OneCapture, DebtInv, Drain
  PROVE  DebtInv'
<1>0. /\ UNCHANGED <<pending, sidecar, staged, marker, backups, clock, pc>>
      /\ pc = "idle" /\ pending = None /\ staged = None /\ Live = saved
  BY DEF Drain, FilesInv, FilesFit, AtStep, Clean, NothingBegun
<1>1. PICK e \in saved.outbox :
         /\ \A f \in saved.outbox : e.at <= f.at
         /\ saved' = [saved EXCEPT !.outbox = @ \ {e}]
         /\ replica' = IF e.op = "Insert" THEN replica \cup {e.rec}
                                          ELSE replica \ {e.rec}
  BY <1>0 DEF Drain, Commit
<1>2. saved \in Content /\ clock \in Nat /\ Older(saved, clock)
  BY DebtFields DEF DebtInv
<1>3. /\ Older(saved', clock)
      /\ SettledFor(saved, replica) => SettledFor(saved', replica')
      /\ \A cap \in Capture : OwedFor(saved, cap, replica) => OwedFor(saved', cap, replica')
  <2>1. /\ saved' \in Content /\ saved'.recs = saved.recs
        /\ saved'.outbox = saved.outbox \ {e}
    BY <1>1, <1>2, DrainedFields
  <2>2. Oldest(e, saved.outbox) /\ Delivered(e, replica, replica')
    BY <1>1 DEF Oldest, Delivered
  <2> QED  BY <1>2, <2>1, <2>2, DrainKeeps
<1>4. sidecar # None => sidecar \in Capture
  BY DebtFields DEF FilesInv, FilesFit, Identities, Whole
<1> QED  BY <1>0, <1>3, <1>4 DEF DebtInv, Unpublished, Whole

LEMMA BackupDebt ==
  ASSUME TypeOK, FilesInv, OneCapture, DebtInv, Backup
  PROVE  DebtInv'
<1>1. /\ Live = saved /\ Older(saved, clock) /\ Truthful(saved)
      /\ config \in Vaults
  BY DebtFields
  DEF Backup, DebtInv, TypeOK, FilesInv, FilesFit, AtStep, Clean, NothingBegun
<1>2. ASSUME NEW v \in Vaults, backups'[v] # None
      PROVE  Older(backups'[v], clock) /\ Truthful(backups'[v])
  BY <1>1, <1>2 DEF DebtInv, Backup, TypeOK
<1> QED  BY <1>1, <1>2 DEF DebtInv, Unpublished, Backup

LEMMA BeginDebt ==
  ASSUME TypeOK, FilesInv, OneCapture, DebtInv, NEW v \in Vaults,
         NEW restore \in BOOLEAN, BeginSwitch(v, restore)
  PROVE  DebtInv'
<1>1. /\ pc = "idle" /\ pc' \in {"capture", "clear"}
      /\ pending = None /\ staged = None
      /\ clock \in Nat /\ clock' = clock + 2
      /\ UNCHANGED <<sidecar, pending, staged, marker, backups, replica, saved>>
  BY FileNumbers DEF BeginSwitch, FilesInv, AtStep, Clean
<1>2. clock' \in Nat /\ clock <= clock'
  BY <1>1
<1> QED  BY <1>1, <1>2, OlderStays DEF DebtInv, Unpublished, Whole

LEMMA DebtInvSwitchStep ==
  ASSUME CleanupsSucceed, TypeOK, StagesABackup, FilesInv, OneCapture, DebtInv,
         StampInv, SwitchStep
  PROVE  DebtInv'
<1>1. CASE CaptureToSidecar  BY <1>1, CaptureDebt
<1>2. CASE StageBackup  BY <1>2, StageDebt
<1>3. CASE CommitStagedBackup  BY <1>3, InstallDebt
<1>4. CASE ClearVaultTables  BY <1>4, ClearDebt
<1>5. CASE SyncOutbox  BY <1>5, SyncDebt
<1> USE FilesAssumption
    DEF DebtInv, Unpublished, OneCapture, FilesInv, FilesFit, Replaced,
        NothingBegun, AtStep, Clean, Whole, CleanupsSucceed
<1>6. CASE WriteInstallMarker  BY <1>6 DEF WriteInstallMarker
<1>7. CASE PreserveOutgoingWal  BY <1>7 DEF PreserveOutgoingWal
<1>8. CASE RemoveSqliteSidecars  BY <1>8 DEF RemoveSqliteSidecars
<1>9. CASE SyncInstallDir  BY <1>9 DEF SyncInstallDir
<1>10. CASE PublishSidecar  BY <1>10 DEF PublishSidecar, Publish
<1>11. CASE DiscardOutgoingWal  BY <1>11 DEF DiscardOutgoingWal, DropKeptWal
<1>12. CASE ClearInstallMarker  BY <1>12 DEF ClearInstallMarker, Unmark
<1>13. CASE ReopenBrain  BY <1>13 DEF ReopenBrain
<1>14. CASE ConsumeSidecar  BY <1>14 DEF ConsumeSidecar, DropSidecar
<1>15. CASE SetVaultPath  BY <1>15 DEF SetVaultPath
<1> HIDE DEF DebtInv, Unpublished, OneCapture, FilesInv, FilesFit, Replaced,
             NothingBegun, AtStep, Clean, Whole, CleanupsSucceed
<1> QED  BY <1>1, <1>2, <1>3, <1>4, <1>5, <1>6, <1>7, <1>8, <1>9, <1>10, <1>11,
         <1>12, <1>13, <1>14, <1>15 DEF SwitchStep

LEMMA DebtInvErrorStep ==
  ASSUME CleanupsSucceed, TypeOK, StagesABackup, FilesInv, OneCapture, DebtInv,
         StampInv, ErrorStep
  PROVE  DebtInv'
<1> USE FilesAssumption
    DEF DebtInv, Unpublished, OneCapture, FilesInv, FilesFit, Replaced,
        NothingBegun, AtStep, Clean, Whole, CleanupsSucceed
<1>1. CASE ErrPublish  BY <1>1 DEF ErrPublish, Publish
<1>2. CASE ErrDiscardWal  BY <1>2 DEF ErrDiscardWal, DropKeptWal
<1>3. CASE ErrDiscardPending  BY <1>3 DEF ErrDiscardPending, DropPending
<1>4. CASE ErrRestoreWal  BY <1>4 DEF ErrRestoreWal, RestoreWal
<1>5. CASE ErrRemoveStaged  BY <1>5 DEF ErrRemoveStaged, DropStaged
<1>6. CASE ErrClearMarker  BY <1>6 DEF ErrClearMarker, Unmark
<1>7. CASE ErrAlignConfig  BY <1>7 DEF ErrAlignConfig
<1>8. CASE RecoverReopen  BY <1>8 DEF RecoverReopen
<1> HIDE DEF DebtInv, Unpublished, OneCapture, FilesInv, FilesFit, Replaced,
             NothingBegun, AtStep, Clean, Whole, CleanupsSucceed
<1> QED  BY <1>1, <1>2, <1>3, <1>4, <1>5, <1>6, <1>7, <1>8 DEF ErrorStep

LEMMA DebtInvBootStep ==
  ASSUME CleanupsSucceed, TypeOK, StagesABackup, FilesInv, OneCapture, DebtInv,
         StampInv, BootStep
  PROVE  DebtInv'
<1>1. CASE BootSync  BY <1>1, BootSyncDebt
<1> USE FilesAssumption
    DEF DebtInv, Unpublished, OneCapture, FilesInv, FilesFit, Replaced,
        NothingBegun, AtStep, Clean, Whole, CleanupsSucceed
<1>2. CASE BootNoMarker  BY <1>2 DEF BootNoMarker, DropPending
<1>3. CASE BootRemoveStray  BY <1>3 DEF BootRemoveStray, DropStaged
<1>4. CASE BootCommitted  BY <1>4 DEF BootCommitted, DropKeptWal
<1>5. CASE BootPublish  BY <1>5 DEF BootPublish, Publish
<1>6. CASE BootRestoreWal  BY <1>6 DEF BootRestoreWal, RestoreWal
<1>7. CASE BootDiscardPending  BY <1>7 DEF BootDiscardPending, DropPending
<1>8. CASE BootRemoveStaged  BY <1>8 DEF BootRemoveStaged, DropStaged
<1>9. CASE BootClearMarker  BY <1>9 DEF BootClearMarker, Unmark
<1>10. CASE BootOpen  BY <1>10 DEF BootOpen
<1>11. CASE BootConsume  BY <1>11 DEF BootConsume, DropSidecar
<1> HIDE DEF DebtInv, Unpublished, OneCapture, FilesInv, FilesFit, Replaced,
             NothingBegun, AtStep, Clean, Whole, CleanupsSucceed
<1> QED  BY <1>1, <1>2, <1>3, <1>4, <1>5, <1>6, <1>7, <1>8, <1>9, <1>10, <1>11
         DEF BootStep

LEMMA DebtInvEnvironment ==
  ASSUME CleanupsSucceed, TypeOK, StagesABackup, FilesInv, OneCapture, DebtInv,
         StampInv, Environment
  PROVE  DebtInv'
<1>1. ASSUME NEW r \in Records, Write(r)
      PROVE  DebtInv'
  BY <1>1, WriteDebt
<1>2. CASE Drain  BY <1>2, DrainDebt
<1>3. CASE Backup  BY <1>3, BackupDebt
<1>4. ASSUME NEW v \in Vaults, NEW restore \in BOOLEAN, BeginSwitch(v, restore)
      PROVE  DebtInv'
  BY <1>4, BeginDebt
<1> USE FilesAssumption
    DEF DebtInv, Unpublished, OneCapture, FilesInv, FilesFit, Replaced,
        NothingBegun, AtStep, Clean, Whole, CleanupsSucceed
<1>5. CASE Launch  BY <1>5 DEF Launch
<1>6. CASE Crash  BY <1>6 DEF Crash
<1>7. CASE Quit  BY <1>7 DEF Quit
<1>8. CASE McpAttach  BY <1>8 DEF McpAttach
<1>9. CASE McpExit  BY <1>9 DEF McpExit
<1> HIDE DEF DebtInv, Unpublished, OneCapture, FilesInv, FilesFit, Replaced,
             NothingBegun, AtStep, Clean, Whole, CleanupsSucceed
<1> QED  BY <1>1, <1>2, <1>3, <1>4, <1>5, <1>6, <1>7, <1>8, <1>9
         DEF Environment

LEMMA DebtInvStep ==
  ASSUME CleanupsSucceed, TypeOK, StagesABackup, FilesInv, OneCapture, DebtInv,
         StampInv, [Next]_vars
  PROVE  DebtInv'
<1>1. CASE UNCHANGED vars
  BY <1>1 DEF vars, DebtInv, Unpublished, Whole
<1>2. CASE Next
  BY <1>2, DebtInvSwitchStep, DebtInvErrorStep, DebtInvBootStep,
     DebtInvEnvironment
  DEF Next
<1> QED  BY <1>1, <1>2

-----------------------------------------------------------------------------
(* What a running switch stamps, and when *)

LEMMA BeginStamp ==
  ASSUME TypeOK, FilesInv, OneCapture, DebtInv, NEW v \in Vaults,
         NEW restore \in BOOLEAN, BeginSwitch(v, restore)
  PROVE  StampInv'
<1>1. /\ pc' \in {"capture", "clear"} /\ now' = clock /\ clock' = clock + 2
      /\ UNCHANGED <<saved, backups>> /\ clock \in Nat
  BY FileNumbers DEF BeginSwitch
<1> QED  BY <1>1 DEF StampInv, DebtInv, SwitchSteps

LEMMA CaptureStamp ==
  ASSUME TypeOK, FilesInv, OneCapture, DebtInv, StampInv, CaptureToSidecar
  PROVE  StampInv'
<1>1. /\ pc = "capture" /\ Live = saved /\ saved \in Content
      /\ UNCHANGED <<now, clock, backups>>
  BY DebtFields
  DEF CaptureToSidecar, FilesInv, FilesFit, AtStep, Clean, NothingBegun
<1>2. Older(CaptureOf(saved), now)
  BY <1>1, Captured, SameRecords DEF StampInv
<1>3. \/ pending' = CaptureOf(saved) /\ pc' = "stage"
      \/ pc' = "err"
  BY <1>1 DEF CaptureToSidecar
<1> QED  BY <1>1, <1>2, <1>3 DEF StampInv, SwitchSteps

LEMMA StageStamp ==
  ASSUME TypeOK, StagesABackup, StampInv, StageBackup
  PROVE  StampInv'
<1>1. /\ pc = "stage" /\ clock \in Nat /\ now \in Nat
      /\ target \in Vaults /\ backups[target] \in Content
      /\ Older(backups[target], now)
      /\ UNCHANGED <<now, pending>>
  BY DEF TypeOK, StagesABackup, StampInv, StageBackup
<1>2. CASE /\ staged' = [backups[target] EXCEPT !.file = clock]
           /\ clock' = clock + 1 /\ Goto("mark")
  <2>1. Older(staged', now)
    BY <1>1, <1>2, Refiled, SameRecords
  <2> QED  BY <1>1, <1>2, <2>1 DEF StampInv, SwitchSteps
<1>3. CASE Fail("stage")
  BY <1>3 DEF StampInv, SwitchSteps
<1> QED  BY <1>2, <1>3 DEF StageBackup

LEMMA InstallStamp ==
  ASSUME TypeOK, FilesInv, OneCapture, StampInv, CommitStagedBackup
  PROVE  StampInv'
<1>1. /\ pc = "install" /\ sidecar = None /\ now \in Nat /\ staged \in Content
      /\ UNCHANGED <<now, clock, pending, sidecar>>
  BY FilesAssumption
  DEF CommitStagedBackup, FilesInv, AtStep, OneCapture, TypeOK, Whole, FileOf
<1>2. CASE saved' = staged /\ Goto("dirsync")
  <2>1. Tracks(staged, now)
    BY <1>1, ContentFields, OlderTracks DEF StampInv
  <2> QED  BY <1>1, <1>2, <2>1 DEF StampInv, SwitchSteps
<1>3. CASE Fail("install")
  BY <1>3 DEF StampInv, SwitchSteps
<1> QED  BY <1>2, <1>3 DEF CommitStagedBackup

LEMMA PublishStamp ==
  ASSUME FilesInv, StampInv, PublishSidecar
  PROVE  StampInv'
<1>1. /\ pc = "publish" /\ Whole(pending) /\ installed
      /\ UNCHANGED <<now, clock, saved, installed>>
  BY DEF PublishSidecar, Publish, FilesInv, AtStep
<1>2. CASE sidecar' = pending /\ pc' = "discard"
  BY <1>1, <1>2 DEF StampInv, SwitchSteps
<1>3. CASE pc' = "err"
  BY <1>3 DEF StampInv, SwitchSteps
<1> QED  BY <1>1, <1>2, <1>3 DEF PublishSidecar, Publish, Whole

LEMMA ClearStamp ==
  ASSUME FilesInv, OneCapture, StampInv, ClearVaultTables
  PROVE  StampInv'
<1>1. /\ pc = "clear" /\ ~installed /\ sidecar = None
      /\ pc' \in {"reopen", "err"}
      /\ UNCHANGED <<now, clock, sidecar, installed>>
  BY DEF ClearVaultTables, FilesInv, AtStep, OneCapture
<1> QED  BY <1>1 DEF StampInv, SwitchSteps

LEMMA WriteStamp ==
  ASSUME CleanupsSucceed, TypeOK, FilesInv, DebtInv, StampInv,
         NEW r \in Records, Write(r)
  PROVE  StampInv'
<1>1. /\ UNCHANGED <<pc, now, sidecar, pending, staged, backups, installed>>
      /\ clock' = clock + 1 /\ saved' = Written(r) /\ Live = saved
      /\ pc \notin {"capture", "clear"}
  BY DEF Write, Commit, CleanupsSucceed, FilesInv, FilesFit, AtStep, Clean,
      NothingBegun, HeadlessReads
<1>2. /\ saved \in Content /\ clock \in Nat /\ now \in Nat /\ Older(saved, clock)
  BY DebtFields DEF DebtInv, TypeOK
<1>3. now + 2 <= clock /\ Tracks(saved, now) => Tracks(saved', now)
  BY <1>1, <1>2, WriteTracks
<1> QED  BY <1>1, <1>2, <1>3 DEF StampInv, SwitchSteps

LEMMA StampInvStep ==
  ASSUME CleanupsSucceed, TypeOK, StagesABackup, FilesInv, OneCapture, DebtInv,
         StampInv, [Next]_vars
  PROVE  StampInv'
<1>1. CASE CaptureToSidecar    BY <1>1, CaptureStamp
<1>2. CASE StageBackup         BY <1>2, StageStamp
<1>3. CASE CommitStagedBackup  BY <1>3, InstallStamp
<1>4. CASE PublishSidecar      BY <1>4, PublishStamp
<1>5. CASE ClearVaultTables    BY <1>5, ClearStamp
<1>6. CASE \/ WriteInstallMarker \/ PreserveOutgoingWal \/ RemoveSqliteSidecars
           \/ SyncInstallDir \/ DiscardOutgoingWal \/ ClearInstallMarker
           \/ ReopenBrain
  <2>1. UNCHANGED <<now, clock, saved, sidecar, pending, staged, installed>>
    BY <1>6
    DEF WriteInstallMarker, PreserveOutgoingWal, RemoveSqliteSidecars,
        SyncInstallDir, DiscardOutgoingWal, DropKeptWal, ClearInstallMarker,
        Unmark, ReopenBrain
  <2>2. \/ pc' = "err"
        \/ <<pc, pc'>> \in {<<"mark", "preserve">>, <<"preserve", "unlink">>,
                            <<"unlink", "install">>, <<"dirsync", "publish">>,
                            <<"discard", "unmark">>, <<"unmark", "reopen">>,
                            <<"reopen", "sync">>}
    BY <1>6, Zenon
    DEF WriteInstallMarker, PreserveOutgoingWal, RemoveSqliteSidecars,
        SyncInstallDir, DiscardOutgoingWal, DropKeptWal, ClearInstallMarker,
        Unmark, ReopenBrain
  <2> QED  BY <2>1, <2>2 DEF StampInv, SwitchSteps
<1>7. CASE SyncOutbox \/ ConsumeSidecar \/ SetVaultPath
  <2>1. pc' \in {"consume", "config", "err", "idle"}
    BY <1>7 DEF SyncOutbox, RunPending, ConsumeSidecar, DropSidecar, SetVaultPath
  <2> QED  BY <2>1 DEF StampInv, SwitchSteps
<1>8. CASE ErrorStep
  <2>1. pc' \in ErrorSteps \cup {"idle", "stranded"}
    BY <1>8, Zenon
    DEF ErrorStep, ErrPublish, Publish, ErrDiscardWal, DropKeptWal,
        ErrDiscardPending, DropPending, ErrRestoreWal, RestoreWal,
        ErrRemoveStaged, DropStaged, ErrClearMarker, Unmark, ErrAlignConfig,
        RecoverReopen, ErrorSteps
  <2> QED  BY <2>1 DEF StampInv, SwitchSteps, ErrorSteps
<1>9. CASE BootStep
  <2>1. pc' \in BootSteps \cup {"idle"}
    BY <1>9, Zenon
    DEF BootStep, BootNoMarker, DropPending, BootRemoveStray, DropStaged,
        BootCommitted, DropKeptWal, BootPublish, Publish, BootRestoreWal,
        RestoreWal, BootDiscardPending, BootRemoveStaged, BootClearMarker,
        Unmark, BootOpen, BootSync, RunPending, BootConsume, DropSidecar,
        BootSteps
  <2> QED  BY <2>1 DEF StampInv, SwitchSteps, BootSteps
<1>10. ASSUME NEW v \in Vaults, NEW restore \in BOOLEAN, BeginSwitch(v, restore)
       PROVE  StampInv'
  BY <1>10, BeginStamp
<1>11. ASSUME NEW r \in Records, Write(r)
       PROVE  StampInv'
  BY <1>11, WriteStamp
<1>12. CASE Launch \/ Crash \/ Quit \/ Drain \/ Backup
  <2>1. pc' \in {"boot", "down", "idle"}
    BY <1>12 DEF Launch, Crash, Quit, Drain, Backup
  <2> QED  BY <2>1 DEF StampInv, SwitchSteps
<1>13. CASE McpAttach \/ McpExit \/ UNCHANGED vars
  <2>1. UNCHANGED <<pc, now, clock, saved, sidecar, pending, staged, backups,
                    installed>>
    BY <1>13 DEF McpAttach, McpExit, vars
  <2> QED  BY <2>1 DEF StampInv
<1> QED
  BY <1>1, <1>2, <1>3, <1>4, <1>5, <1>6, <1>7, <1>8, <1>9, <1>10, <1>11, <1>12,
     <1>13
  DEF Next, SwitchStep, Environment

-----------------------------------------------------------------------------
(* Whose records the brain holds *)

LEMMA Counters ==
  ASSUME TypeOK
  PROVE  /\ faults \in Nat /\ MaxFaults \in Nat
         /\ switches \in Nat /\ MaxSwitches \in Nat
BY RestoreSyncAssumption DEF TypeOK

LEMMA MarkVault ==
  ASSUME TypeOK, VaultInv, WriteInstallMarker
  PROVE  VaultInv'
<1>1. /\ pc = "mark"
      /\ \/ pc' = "preserve" /\ faults' = faults
         \/ pc' = "err" /\ faults' = faults + 1
  BY Zenon DEF WriteInstallMarker
<1>2. UNCHANGED <<saved, align, target, config, staged, backups>>
  BY DEF WriteInstallMarker
<1> QED  BY <1>1, <1>2, Counters DEF VaultInv, SwitchSteps, ErrorSteps

LEMMA SyncVault ==
  ASSUME TypeOK, FilesInv, VaultInv, NEW t \in Nat, NEW next, NEW skip, NEW at,
         RunPending(t, next, skip, at), SyncUnchanged,
         \/ pc = "sync" /\ next = "consume" /\ skip = "config" /\ at = "err"
         \/ pc = "boot_sync" /\ next = "boot_consume" /\ skip = "idle" /\ at = "idle"
  PROVE  VaultInv'
<1>1. Live \in Content
  BY LiveIsADatabase
<1>0. Live = saved
  BY DEF FilesInv, FilesFit, AtStep, Clean, NothingBegun
<1>2. saved'.vault = saved.vault
  <2>1. CASE Whole(sidecar) /\ Commit(Synced(Live, sidecar, t))
    <3>1. sidecar \in Capture
      BY <2>1 DEF TypeOK, FileOf, Whole
    <3> QED  BY <1>1, <1>0, <2>1, <3>1, SyncedFields DEF Commit
  <2>2. CASE saved' = saved  BY <2>2
  <2> QED  BY <2>1, <2>2 DEF RunPending, Whole
<1>3. UNCHANGED <<align, target, config, staged, backups>>
  BY DEF SyncUnchanged
<1>4. \/ pc = "sync" /\ pc' \in {"consume", "config"}
      \/ pc = "sync" /\ pc' = "err" /\ faults' = faults + 1
      \/ pc = "boot_sync" /\ pc' \in {"boot_consume", "idle"}
  BY DEF RunPending
<1> QED  BY <1>2, <1>3, <1>4, Counters DEF VaultInv, SwitchSteps, ErrorSteps

LEMMA StageVault ==
  ASSUME TypeOK, StagesABackup, VaultInv, StageBackup
  PROVE  VaultInv'
<1>1. pc = "stage" /\ UNCHANGED <<saved, align, target, config, backups>>
  BY DEF StageBackup
<1>2. /\ clock \in Nat /\ backups[target] \in Content
      /\ backups[target].vault = target
  BY <1>1 DEF TypeOK, StagesABackup, VaultInv
<1>3. CASE staged' = [backups[target] EXCEPT !.file = clock] /\ Goto("mark")
  <2>1. staged'.vault = target
    BY <1>2, <1>3, Refiled
  <2> QED  BY <1>1, <1>3, <2>1 DEF VaultInv, SwitchSteps, ErrorSteps
<1>4. CASE Fail("stage")
  <2>1. pc' = "err" /\ faults' = faults + 1
    BY <1>4
  <2> QED  BY <1>1, <2>1, Counters DEF VaultInv, SwitchSteps, ErrorSteps
<1> QED  BY <1>3, <1>4 DEF StageBackup

LEMMA ClearVault ==
  ASSUME TypeOK, VaultInv, ClearVaultTables
  PROVE  VaultInv'
<1>1. now \in Nat /\ Live \in Content /\ target \in Vaults
  BY LiveIsADatabase DEF TypeOK
<1>2. Cleared(Live, target, now).vault = target
  BY <1>1, ClearedFields
<1>0. pc = "clear" /\ UNCHANGED <<target, config, staged, backups>>
  BY DEF ClearVaultTables
<1>3. CASE /\ saved' = Cleared(Live, target, now) /\ align' = TRUE
           /\ Goto("reopen")
  BY <1>0, <1>2, <1>3 DEF VaultInv, SwitchSteps, ErrorSteps
<1>4. CASE Fail("clear") /\ UNCHANGED <<saved, align>>
  <2>1. pc' = "err" /\ faults' = faults + 1
    BY <1>4
  <2> QED  BY <1>0, <1>4, <2>1, Counters DEF VaultInv, SwitchSteps, ErrorSteps
<1> QED  BY <1>3, <1>4 DEF ClearVaultTables

LEMMA WriteVault ==
  ASSUME CleanupsSucceed, TypeOK, FilesInv, VaultInv, NEW r \in Records,
         Write(r)
  PROVE  VaultInv'
<1>1. clock \in Nat /\ Live \in Content
  BY LiveIsADatabase DEF TypeOK
<1>2. Live = saved
  BY DEF Write, FilesInv, FilesFit, HeadlessReads, AtStep, Clean, NothingBegun
<1>3. saved'.vault = saved.vault
  BY <1>1, <1>2, WrittenFields DEF Write, Commit
<1> QED  BY <1>3 DEF VaultInv, Write

LEMMA DrainVault ==
  ASSUME TypeOK, FilesInv, VaultInv, Drain
  PROVE  VaultInv'
<1>1. Live \in Content /\ Live = saved
  BY LiveIsADatabase DEF Drain, FilesInv, FilesFit, AtStep, Clean, NothingBegun
<1>2. PICK e \in Live.outbox : Commit([Live EXCEPT !.outbox = @ \ {e}])
  BY DEF Drain
<1>3. saved'.vault = saved.vault
  BY <1>1, <1>2, DrainedFields DEF Commit
<1> QED  BY <1>3 DEF VaultInv, Drain

LEMMA BackupVault ==
  ASSUME TypeOK, FilesInv, VaultInv, Backup
  PROVE  VaultInv'
<1>1. pc = "idle" /\ Live = saved /\ saved.vault = config /\ config \in Vaults
  BY DEF TypeOK, Backup, FilesInv, FilesFit, AtStep, Clean, NothingBegun,
      VaultInv, SwitchSteps, ErrorSteps
<1>2. ASSUME NEW v \in Vaults, backups'[v] # None PROVE backups'[v].vault = v
  BY <1>1, <1>2 DEF VaultInv, Backup, TypeOK
<1> QED  BY <1>1, <1>2
         DEF VaultInv, Backup, SwitchSteps, ErrorSteps

LEMMA UnmarkVault ==
  ASSUME TypeOK, VaultInv, ClearInstallMarker
  PROVE  VaultInv'
<1>1. /\ pc = "unmark" /\ pc' = "reopen"
  BY Zenon DEF ClearInstallMarker, Unmark
<1>2. UNCHANGED <<saved, align, target, config, staged, backups>>
  BY DEF ClearInstallMarker, Unmark
<1> QED  BY <1>1, <1>2 DEF VaultInv, SwitchSteps, ErrorSteps

LEMMA ConfigVault ==
  ASSUME TypeOK, VaultInv, SetVaultPath
  PROVE  VaultInv'
<1>1. pc = "config" /\ align = TRUE /\ saved.vault = target
      /\ UNCHANGED <<saved, staged, backups>>
  BY DEF TypeOK, VaultInv, SetVaultPath, SwitchSteps
<1>2. CASE config' = target /\ Goto("idle")
  BY <1>1, <1>2 DEF VaultInv, SwitchSteps, ErrorSteps
<1>3. CASE Fail("config") /\ UNCHANGED <<config, locals>>
  <2>1. pc' = "err" /\ faults' = faults + 1
    BY <1>3
  <2> QED  BY <1>1, <1>3, <2>1, Counters DEF VaultInv, SwitchSteps, ErrorSteps
<1> QED  BY <1>2, <1>3 DEF SetVaultPath

LEMMA VaultInvSwitchStep ==
  ASSUME CleanupsSucceed, ConfigIsWritten, TypeOK, StagesABackup, FilesInv,
         VaultInv, SwitchStep
  PROVE  VaultInv'
<1>1. CASE StageBackup  BY <1>1, StageVault
<1>2. CASE WriteInstallMarker  BY <1>2, MarkVault
<1>3. CASE ClearInstallMarker  BY <1>3, UnmarkVault
<1>4. CASE ClearVaultTables  BY <1>4, ClearVault
<1>5. CASE SyncOutbox  BY <1>5, SyncVault DEF SyncOutbox, TypeOK
<1> USE Counters, RestoreSyncAssumption
    DEF VaultInv, TypeOK, FilesInv, AtStep, Clean, Whole, CleanupsSucceed,
        ConfigIsWritten, SwitchSteps, ErrorSteps
<1>6. CASE CaptureToSidecar  BY <1>6 DEF CaptureToSidecar
<1>7. CASE PreserveOutgoingWal  BY <1>7 DEF PreserveOutgoingWal
<1>8. CASE RemoveSqliteSidecars  BY <1>8 DEF RemoveSqliteSidecars
<1>9. CASE CommitStagedBackup  BY <1>9 DEF CommitStagedBackup
<1>10. CASE SyncInstallDir  BY <1>10 DEF SyncInstallDir
<1>11. CASE PublishSidecar  BY <1>11 DEF PublishSidecar, Publish
<1>12. CASE DiscardOutgoingWal  BY <1>12 DEF DiscardOutgoingWal, DropKeptWal
<1>13. CASE ReopenBrain  BY <1>13 DEF ReopenBrain
<1>14. CASE ConsumeSidecar  BY <1>14 DEF ConsumeSidecar, DropSidecar
<1>15. CASE SetVaultPath  BY <1>15, ConfigVault
<1> HIDE DEF VaultInv, TypeOK, FilesInv, AtStep, Clean, Whole, CleanupsSucceed,
             ConfigIsWritten, SwitchSteps, ErrorSteps
<1> QED  BY <1>1, <1>2, <1>3, <1>4, <1>5, <1>6, <1>7, <1>8, <1>9, <1>10, <1>11,
         <1>12, <1>13, <1>14, <1>15 DEF SwitchStep

LEMMA VaultInvErrorStep ==
  ASSUME CleanupsSucceed, ConfigIsWritten, TypeOK, StagesABackup, FilesInv,
         VaultInv, ErrorStep
  PROVE  VaultInv'
<1> USE Counters, RestoreSyncAssumption
    DEF VaultInv, TypeOK, FilesInv, AtStep, Clean, Whole, CleanupsSucceed,
        ConfigIsWritten, SwitchSteps, ErrorSteps
<1>1. CASE ErrPublish  BY <1>1 DEF ErrPublish, Publish
<1>2. CASE ErrDiscardWal  BY <1>2 DEF ErrDiscardWal, DropKeptWal
<1>3. CASE ErrDiscardPending  BY <1>3 DEF ErrDiscardPending, DropPending
<1>4. CASE ErrRestoreWal  BY <1>4 DEF ErrRestoreWal, RestoreWal
<1>5. CASE ErrRemoveStaged  BY <1>5 DEF ErrRemoveStaged, DropStaged
<1>6. CASE ErrClearMarker  BY <1>6 DEF ErrClearMarker, Unmark
<1>7. CASE ErrAlignConfig  BY <1>7 DEF ErrAlignConfig
<1>8. CASE RecoverReopen  BY <1>8 DEF RecoverReopen
<1> HIDE DEF VaultInv, TypeOK, FilesInv, AtStep, Clean, Whole, CleanupsSucceed,
             ConfigIsWritten, SwitchSteps, ErrorSteps
<1> QED  BY <1>1, <1>2, <1>3, <1>4, <1>5, <1>6, <1>7, <1>8 DEF ErrorStep

LEMMA VaultInvBootStep ==
  ASSUME CleanupsSucceed, ConfigIsWritten, TypeOK, StagesABackup, FilesInv,
         VaultInv, BootStep
  PROVE  VaultInv'
<1>1. CASE BootSync  BY <1>1, SyncVault DEF BootSync, TypeOK
<1> USE Counters, RestoreSyncAssumption
    DEF VaultInv, TypeOK, FilesInv, AtStep, Clean, Whole, CleanupsSucceed,
        ConfigIsWritten, SwitchSteps, ErrorSteps
<1>2. CASE BootNoMarker  BY <1>2 DEF BootNoMarker, DropPending
<1>3. CASE BootRemoveStray  BY <1>3 DEF BootRemoveStray, DropStaged
<1>4. CASE BootCommitted  BY <1>4 DEF BootCommitted, DropKeptWal
<1>5. CASE BootPublish  BY <1>5 DEF BootPublish, Publish
<1>6. CASE BootRestoreWal  BY <1>6 DEF BootRestoreWal, RestoreWal
<1>7. CASE BootDiscardPending  BY <1>7 DEF BootDiscardPending, DropPending
<1>8. CASE BootRemoveStaged  BY <1>8 DEF BootRemoveStaged, DropStaged
<1>9. CASE BootClearMarker  BY <1>9 DEF BootClearMarker, Unmark
<1>10. CASE BootOpen  BY <1>10 DEF BootOpen
<1>11. CASE BootConsume  BY <1>11 DEF BootConsume, DropSidecar
<1> HIDE DEF VaultInv, TypeOK, FilesInv, AtStep, Clean, Whole, CleanupsSucceed,
             ConfigIsWritten, SwitchSteps, ErrorSteps
<1> QED  BY <1>1, <1>2, <1>3, <1>4, <1>5, <1>6, <1>7, <1>8, <1>9, <1>10, <1>11
         DEF BootStep

LEMMA VaultInvEnvironment ==
  ASSUME CleanupsSucceed, ConfigIsWritten, TypeOK, StagesABackup, FilesInv,
         VaultInv, Environment
  PROVE  VaultInv'
<1>1. ASSUME NEW r \in Records, Write(r)
      PROVE  VaultInv'
  BY <1>1, WriteVault
<1>2. CASE Drain  BY <1>2, DrainVault
<1>3. CASE Backup  BY <1>3, BackupVault
<1> USE Counters, RestoreSyncAssumption
    DEF VaultInv, TypeOK, FilesInv, AtStep, Clean, Whole, CleanupsSucceed,
        ConfigIsWritten, SwitchSteps, ErrorSteps
<1>4. ASSUME NEW v \in Vaults, NEW restore \in BOOLEAN, BeginSwitch(v, restore)
      PROVE  VaultInv'
  BY <1>4 DEF BeginSwitch, CloseBrain
<1>5. CASE Launch  BY <1>5 DEF Launch
<1>6. CASE Crash  BY <1>6 DEF Crash
<1>7. CASE Quit  BY <1>7 DEF Quit, CloseBrain
<1>8. CASE McpAttach  BY <1>8 DEF McpAttach
<1>9. CASE McpExit  BY <1>9 DEF McpExit
<1> HIDE DEF VaultInv, TypeOK, FilesInv, AtStep, Clean, Whole, CleanupsSucceed,
             ConfigIsWritten, SwitchSteps, ErrorSteps
<1> QED  BY <1>1, <1>2, <1>3, <1>4, <1>5, <1>6, <1>7, <1>8, <1>9
         DEF Environment

LEMMA VaultInvStep ==
  ASSUME CleanupsSucceed, ConfigIsWritten, TypeOK, StagesABackup, FilesInv,
         VaultInv, [Next]_vars
  PROVE  VaultInv'
<1>1. CASE UNCHANGED vars
  BY <1>1 DEF vars, VaultInv
<1>2. CASE Next
  BY <1>2, VaultInvSwitchStep, VaultInvErrorStep, VaultInvBootStep,
     VaultInvEnvironment
  DEF Next
<1> QED  BY <1>1, <1>2

-----------------------------------------------------------------------------
(* The theorems *)

\* The files are always on one side of the install or on the other.
LEMMA SoundFilesInvariant ==
  ASSUME CleanupsSucceed
  PROVE  Spec => []SoundFiles
<1>1. Init => SoundFiles
  <2> SUFFICES ASSUME Init
               PROVE  SoundFiles
    OBVIOUS
  <2>1. main \in Content
    BY RestoreSyncAssumption DEF Init, Content
  <2>2. TypeOK
    BY <2>1, RestoreSyncAssumption, FilesAssumption
    DEF Init, TypeOK, FileOf, Steps
  <2>3. StagesABackup
    BY DEF Init, StagesABackup
  <2>4. main.file = 0
    BY DEF Init
  <2>5. FilesInv
    BY <2>4, FilesAssumption DEF Init, FilesInv, FilesFit, NothingBegun,
      NothingReplaced, Replaced, Identities, HeadlessReads, AtStep, Live,
      HasRows, Preserved, Whole, Clean
  <2> QED  BY <2>2, <2>3, <2>5 DEF SoundFiles
<1>2. SoundFiles /\ [Next]_vars => SoundFiles'
  BY TypeStep, FilesInvStep, StagesABackupStep DEF SoundFiles
<1> QED  BY <1>1, <1>2, PTL DEF Spec

\* Every file is absent, cut short, or a database or capture that the code wrote,
\* and control is at one of the listed steps of switch_vault or of startup.
THEOREM TypeCorrect ==
  ASSUME CleanupsSucceed
  PROVE  Spec => []TypeOK
<1>1. SoundFiles => TypeOK
  BY DEF SoundFiles
<1> QED  BY <1>1, SoundFilesInvariant, PTL

\* The brain is never a torn copy, no torn capture is published, and no journal
\* lies beside another file's database: not when a switch fails, nor when the process
\* dies anywhere in the switch or in the recovery that startup runs for it.
THEOREM FilesStaySound ==
  ASSUME CleanupsSucceed
  PROVE  Spec => []FilesAreSound
<1>1. SoundFiles => FilesAreSound
  <2> SUFFICES ASSUME SoundFiles
               PROVE  FilesAreSound
    OBVIOUS
  <2>1. main # Torn /\ wal # Torn
    BY ContentFields, FilesAssumption DEF SoundFiles, TypeOK
  <2>2. sidecar # Torn
    BY FilesAssumption DEF SoundFiles, FilesInv, FilesFit, Identities
  <2> QED  BY <2>1, <2>2
           DEF FilesAreSound, SoundFiles, FilesInv, FilesFit, Identities
<1> QED  BY <1>1, SoundFilesInvariant, PTL

\* A published capture, which startup will sync, never belongs to the file in
\* use: reconcile_interrupted_install publishes only on the far side of the install.
THEOREM CapturesAreOfReplacedFiles ==
  ASSUME CleanupsSucceed
  PROVE  Spec => []CaptureBelongsToReplacedFile
<1>1. SoundFiles => CaptureBelongsToReplacedFile
  BY LiveFile
  DEF SoundFiles, CaptureBelongsToReplacedFile, FilesInv, FilesFit, Identities
<1> QED  BY <1>1, SoundFilesInvariant, PTL

\* The application works on what was last committed, and on no left-over of a switch:
\* the error path and startup recovery both undo or finish the whole of it.
THEOREM TheBrainIsWhole ==
  ASSUME CleanupsSucceed
  PROVE  Spec => []BrainWhole
<1>1. SoundFiles => BrainWhole
  BY DEF SoundFiles, BrainWhole, FilesInv, FilesFit, NothingBegun, AtStep,
      Clean
<1> QED  BY <1>1, SoundFilesInvariant, PTL

\* The steps that change a capture of a replaced file all publish it.
LEMMA PendingChanges ==
  ASSUME CleanupsSucceed, TypeOK, FilesInv, [Next]_vars, Whole(pending),
         pending.file # Live.file, pending' # pending
  PROVE  sidecar' = pending
<1>1. marker /\ staged = None
  BY LiveFile DEF FilesInv, FilesFit, NothingBegun, NothingReplaced
<1>2. CASE SwitchStep
  BY <1>1, <1>2, FilesAssumption
  DEF SwitchStep, CaptureToSidecar, StageBackup, WriteInstallMarker,
      PreserveOutgoingWal, RemoveSqliteSidecars, CommitStagedBackup,
      SyncInstallDir, PublishSidecar, Publish, DiscardOutgoingWal, DropKeptWal,
      ClearInstallMarker, Unmark, ClearVaultTables, ReopenBrain, SyncOutbox,
      SyncUnchanged, ConsumeSidecar, DropSidecar, SetVaultPath,
      CleanupsSucceed, FilesInv, AtStep, Clean, Whole
<1>3. CASE ErrorStep
  BY <1>1, <1>3
  DEF ErrorStep, ErrPublish, Publish, ErrDiscardWal, DropKeptWal,
      ErrDiscardPending, ErrRestoreWal, RestoreWal, ErrRemoveStaged,
      DropStaged, ErrClearMarker, Unmark, ErrAlignConfig, RecoverReopen,
      CleanupsSucceed, FilesInv, AtStep, Whole
<1>4. CASE BootStep
  BY <1>1, <1>4
  DEF BootStep, BootNoMarker, BootRemoveStray, DropStaged, BootCommitted,
      DropKeptWal, BootPublish, Publish, BootRestoreWal, RestoreWal,
      BootDiscardPending, BootRemoveStaged, BootClearMarker, Unmark, BootOpen,
      BootSync, SyncUnchanged, BootConsume, DropSidecar, CleanupsSucceed,
      FilesInv, AtStep, Whole
<1>5. CASE Environment
  BY <1>1, <1>5
  DEF Environment, BeginSwitch, Launch, Crash, Quit, Write, Drain, Backup,
      McpAttach, McpExit, FilesInv, AtStep, Clean, Whole
<1> QED  BY <1>2, <1>3, <1>4, <1>5 DEF Next, vars

\* A capture of a file that has been replaced is only ever published, by the
\* switch, its error path or a later start.
THEOREM OwedCapturesArePublished ==
  ASSUME CleanupsSucceed
  PROVE  Spec => OwedCaptureIsPublished
<1>1. SoundFiles /\ [Next]_vars =>
        [pending \notin {None, Torn} /\ pending.file # Live.file /\ pending' # pending
           => sidecar' = pending]_vars
  BY PendingChanges DEF SoundFiles, Whole
<1> QED  BY <1>1, SoundFilesInvariant, PTL DEF Spec, OwedCaptureIsPublished

LEMMA OneCaptureInvariant ==
  ASSUME CleanupsSucceed, CapturesAreSynced
  PROVE  Spec => []OneCapture
<1>1. Init => OneCapture
  BY DEF Init, OneCapture, ErrorSteps
<1>2. SoundFiles /\ OneCapture /\ [Next]_vars => OneCapture'
  BY OneCaptureStep DEF SoundFiles
<1> QED  BY <1>1, <1>2, SoundFilesInvariant, PTL DEF Spec

\* The steps that change a published capture are the two that consume it.
LEMMA SidecarChanges ==
  ASSUME CleanupsSucceed, TypeOK, FilesInv, OneCapture, [Next]_vars, Whole(sidecar),
         sidecar' # sidecar
  PROVE  pc \in {"consume", "boot_consume"}
<1>1. pending = None
  BY DEF OneCapture, Whole
<1>2. CASE SwitchStep
  BY <1>1, <1>2
  DEF SwitchStep, CaptureToSidecar, StageBackup, WriteInstallMarker,
      PreserveOutgoingWal, RemoveSqliteSidecars, CommitStagedBackup,
      SyncInstallDir, PublishSidecar, Publish, DiscardOutgoingWal, DropKeptWal,
      ClearInstallMarker, Unmark, ClearVaultTables, ReopenBrain, SyncOutbox,
      RunPending, ConsumeSidecar, DropSidecar, SetVaultPath, Whole
<1>3. CASE ErrorStep
  BY <1>1, <1>3
  DEF ErrorStep, ErrPublish, Publish, ErrDiscardWal, DropKeptWal,
      ErrDiscardPending, DropPending, ErrRestoreWal, RestoreWal,
      ErrRemoveStaged, DropStaged, ErrClearMarker, Unmark, ErrAlignConfig,
      RecoverReopen
<1>4. CASE BootStep
  BY <1>1, <1>4
  DEF BootStep, BootNoMarker, DropPending, BootRemoveStray, DropStaged,
      BootCommitted, DropKeptWal, BootPublish, Publish, BootRestoreWal,
      RestoreWal, BootDiscardPending, BootRemoveStaged, BootClearMarker,
      Unmark, BootOpen, BootSync, RunPending, BootConsume, DropSidecar, Whole
<1>5. CASE Environment
  BY <1>5
  DEF Environment, BeginSwitch, Launch, Crash, Quit, Write, Drain, Backup,
      McpAttach, McpExit
<1> QED  BY <1>2, <1>3, <1>4, <1>5 DEF Next, vars

\* A published capture is not overwritten or removed before run_pending has
\* committed its sync.
THEOREM PublishedCapturesAreKept ==
  ASSUME CleanupsSucceed, CapturesAreSynced
  PROVE  Spec => PublishedCaptureIsKept
<1>1. SoundFiles /\ OneCapture /\ [Next]_vars =>
        [sidecar \notin {None, Torn} /\ sidecar' # sidecar
           => pc \in {"consume", "boot_consume"}]_vars
  BY SidecarChanges DEF SoundFiles, Whole
<1> QED  BY <1>1, SoundFilesInvariant, OneCaptureInvariant, PTL
         DEF Spec, PublishedCaptureIsKept

LEMMA DebtInvariant ==
  ASSUME CleanupsSucceed, CapturesAreSynced
  PROVE  Spec => []DebtInv
<1>1. Init => DebtInv
  <2> SUFFICES ASSUME Init
               PROVE  DebtInv
    OBVIOUS
  <2>1. saved.outbox = {} /\ saved.recs = replica
    BY DEF Init
  <2>2. Older(saved, clock) /\ SettledFor(saved, replica)
    BY <2>1 DEF Older, SettledFor
  <2>3. ASSUME NEW v \in Vaults, backups[v] # None
        PROVE  Older(backups[v], clock) /\ Truthful(backups[v])
    BY <2>3, BackupsAssumption DEF Init, Older
  <2> QED  BY <2>2, <2>3 DEF Init, DebtInv, Unpublished, Whole
<1>2. Init => StampInv
  BY DEF Init, StampInv, SwitchSteps
<1>3. SoundFiles /\ OneCapture /\ DebtInv /\ StampInv /\ [Next]_vars
        => DebtInv' /\ StampInv'
  BY DebtInvStep, StampInvStep DEF SoundFiles
<1> QED  BY <1>1, <1>2, <1>3, SoundFilesInvariant, OneCaptureInvariant, PTL DEF Spec

\* What the outbox holds, with what an owed sync will add, brings the replica to
\* exactly the records of the brain in use, after any number of switches,
\* restores, crashes and writes by either process.
THEOREM TheReplicaIsOwed ==
  ASSUME CleanupsSucceed, CapturesAreSynced
  PROVE  Spec => []ReplicaIsOwed
<1>1. SoundFiles /\ DebtInv => ReplicaIsOwed
  <2> SUFFICES ASSUME SoundFiles, DebtInv, pc = "idle"
               PROVE  Settled(IF sidecar \in {None, Torn} THEN Live
                                                          ELSE Synced(Live, sidecar, clock))
    BY DEF ReplicaIsOwed
  <2>1. TypeOK /\ FilesInv
    BY DEF SoundFiles
  <2>2. Live = saved /\ saved \in Content /\ clock \in Nat /\ ~Unpublished
    BY <2>1, DebtFields
    DEF FilesInv, FilesFit, AtStep, Clean, NothingBegun, Unpublished
  <2>3. CASE sidecar \in {None, Torn}
    <3>1. sidecar = None
      BY <2>1, <2>3 DEF FilesInv, FilesFit, Identities
    <3> QED  BY <2>2, <2>3, <3>1, SettledMeans DEF DebtInv
  <2>4. CASE sidecar \notin {None, Torn}
    <3>1. /\ sidecar \in Capture /\ Older(saved, clock)
          /\ Older(sidecar, clock)
          /\ OwedFor(saved, sidecar, replica)
      BY <2>1, <2>4, DebtFields DEF DebtInv, Whole
    <3>2. Tracks(saved, clock) /\ Older(saved, clock + 2)
      BY <2>2, <3>1, ContentFields, OlderTracks, StillOlder
    <3>3. /\ Synced(saved, sidecar, clock) \in Content
          /\ SettledFor(Synced(saved, sidecar, clock), replica)
      BY <2>2, <3>1, <3>2, SyncedFields, SyncSettles
    <3> QED  BY <2>2, <2>4, <3>3, SettledMeans
  <2> QED  BY <2>3, <2>4
<1> QED  BY <1>1, SoundFilesInvariant, DebtInvariant, PTL

\* Without crashes the configured vault is the one the brain was filled for, on
\* the success path and on the error path of switch_vault.
THEOREM TheConfigFollowsTheBrain ==
  ASSUME CleanupsSucceed, ConfigIsWritten
  PROVE  Spec => []ConfigFollowsBrain
<1>1. Init => VaultInv
  BY BackupsAssumption DEF Init, VaultInv, SwitchSteps, ErrorSteps
<1>2. SoundFiles /\ VaultInv /\ [Next]_vars => VaultInv'
  BY VaultInvStep DEF SoundFiles
<1>3. SoundFiles /\ VaultInv => ConfigFollowsBrain
  BY DEF SoundFiles, FilesInv, FilesFit, NothingBegun, AtStep, Clean, VaultInv,
    SwitchSteps, ErrorSteps, ConfigFollowsBrain
<1> QED  BY <1>1, <1>2, <1>3, SoundFilesInvariant, PTL DEF Spec
=============================================================================
