# Curated Thoughts in TLA+

Curated Thoughts is a desktop application (Tauri, Rust) that keeps a curated
knowledge base, the *brain*, in one SQLite file. Documents of a vault are
ingested and embedded, a librarian model proposes facts and tasks, the user
approves or denies them, and the resulting wiki is served to the UI, to other
tools over MCP and, through an outbox, to a Postgres replica. Several processes
share the brain: the desktop application, headless `--mcp` servers and the `ct`
command line.

This directory holds TLA+ models of the parts of that system in which processes,
crashes and retries meet, the TLC configurations that check them, and proofs of
the results that do not depend on the size of the instance.

    tlc -workers 2 -config RestoreSyncCrash.cfg MCRestoreSync
    tlapm OutboxProofs.tla

Source paths below are relative to `src-tauri/src` unless they say otherwise.

## 1. Inventory

| Part | State | Operations | What is hard about it | What makes it correct |
|---|---|---|---|---|
| Vault switch, restore sync (`lib.rs` `switch_vault`, `db/restore_sync.rs`) | `brain.db` and `-wal`, five sibling files, `config.json`, the vault's backup | switch, startup reconciliation, replica sync | a crash between any two file operations, failing calls, a second process on the same file | the brain is the whole old or the whole new file; what the replica is owed is never lost |
| Deletion breaker (`db/breaker.rs`, `db/heal.rs`, `db/evidence_regrade.rs`) | budget keys in `llm_wiki_meta`, entries, flags, export files | heal, GUI heal, regrade, V20 migration, reset | passes of several processes over one budget; documents that leave the index during a pass | bounded loss, final trips, a backup of what is purged |
| Outbox (`db/outbox_format.rs`, `outbox/*`) | outbox rows, the remote table, per worker its batch | push, poll, insert, acknowledge | no transaction spans both databases; late answers, kills, two workers | nothing lost, nothing twice, commit order under Halt |
| Outbox worker's lifecycle (`lib.rs`, `outbox/postgres.rs`) | the handle slot, tasks, the open file | start, stop, switch commands | async commands interleave at each await | commands return; one worker, on the current file |
| Ingest pipeline and watchdog (`pipeline/mod.rs`, `pipeline/watchdog/*`, `db/queue.rs`) | document rows, chunks, the job channel, heartbeat, claims, strikes | watch, sweep, ingest, reindex, trip, respawn, blame | stuck workers that finish late, files that change while they are processed | the index is that of one content; blame falls on the right document; nothing stays pending |
| Review queue, stated ledger (`db/queue.rs`, `db/stated_ledger.rs`) | the queue's denials, append-only ledger files of the vault, stamps on facts | confirm, deny, un-deny, rebuild | the ledger is written before the database; a crash, a refused transaction, a second process between the two | what was reported survives and is carried by the vault; no denial is forgotten |
| Proposals and commits (`db/proposals*.rs`, `db/commit.rs`, `librarian/*`) | proposals with items and sources, entries, synthesis marks of documents | synthesize, insert, supersede, approve, reject, auto-approve | the model and the embedder are slow: documents are edited and deleted, and proposals decided by others, meanwhile | each proposal is decided once and the brain holds what was accepted; nothing unsourced is approved by itself |
| Schema (`db/connection.rs` `migrate`) | `schema_version`, tables, columns | one ladder of versions per open | stamps outside the transaction of the body, versions put off, two opens at once, death in between | a stamp means the version ran; a brain that opens is usable |
| Embedding (`embed_sweep.rs`, `embed_scheme.rs`) | vectors and scheme stamps of entries, the active scheme | sweeps, cut-over, search, every writer of an entry | entries edited and schemes changed during a provider's call | a vector describes its entry's text; a query meets vectors of its own scheme |
| Entities (`db/entities.rs`, `db/entity_gate.rs`, `db/merge_duplicates.rs`) | entities, redirects, edges | gate, merge, archive | chains of redirects | every redirect ends at a live entity |
| `ct` (`tools/src`) | vault lock, reindex runs | lock, reindex, backfill | works on the live database | exclusive with itself and the pipeline |
| Wisdom, OKF bundles, config, drafts, tasks | tables, files | single transactions | thresholds, formats | no concurrency of their own |
| Search, graph, retrieval, chunkers, inference, MCP and cloud bridge, React UI | derived or none | queries, rendering, I/O | little state of their own | |

How they interact: the UI and the MCP tools call commands; commands commit
transactions on the brain, each with its outbox rows; the outbox worker drains
those rows. The watcher stages document rows, the watchdog's sweep sends them to
the pipeline, ingest triggers the librarian. Heal, regrade and migration delete
under the breaker's budget. A vault switch stops the workers, replaces the file
all of them use, and starts them again.

## 2. Modules

| Module | Models | Checked and proved by |
|---|---|---|
| `RestoreSync` | one action per file operation of `switch_vault` and of startup reconciliation | `MCRestoreSync`, `RestoreSyncProofs` |
| `BulkBreaker` | one action per transaction of heal, GUI heal, regrade and V20 | `MCBulkBreaker`, `BulkBreakerProofs` |
| `EventLog` | what the outbox promises: the remote table is a growing prefix of the log of mutations | |
| `Outbox` | rows, workers, late inserts; refines `EventLog` | `MCOutbox`, `OutboxProofs` |
| `OutboxLifecycle` | the handle slot and the commands around it | `MCOutboxLifecycle`, `OutboxProofs` |
| `IngestPipeline` | watcher, sweep, worker, ingest command, supervisor | `MCIngestPipeline`, `IngestPipelineProofs` |
| `SchemaMigration` | the ladder of versions, climbed by opens that overlap, die or put versions off | `MCSchemaMigration`, `SchemaMigrationProofs` |
| `StatedLedger` | the confirmation queue, the vault's ledgers, the re-derivation of a new brain | `MCStatedLedger`, `StatedLedgerProofs` |
| `EntryVectors` | sweeps, cut-over, readers and writers of entries' vectors | `MCEntryVectors`, `EntryVectorsProofs` |
| `Proposals` | documents, synthesis runs, proposals and their resolution | `MCProposals`, `ProposalsProofs` |

Modules meet where the code does, and each keeps the other's part abstract:
`SchemaMigration` holds of V20 what `BulkBreaker` details; `Proposals` holds of
the pipeline that a document's chunks follow its content, which is what
`IngestPipeline` is about; `EntryVectors` takes the facts that `Proposals` commits
as writes of an entry; every commit of a module is a `Push` of `Outbox`.

What would come next, most important first: `EntityRedirects` (merge chains and
their acyclicity under two mergers); `VaultLock` with the `ct` reindex against
`IngestPipeline`; a composition of `RestoreSync` with `OutboxLifecycle` (which file a
worker drains across a switch).

### RestoreSync

State: the seven files (`main`, `wal`, `sidecar`, `pending`, `staged`, `marker`,
`kept`), the backups, `config`, the locals of `switch_vault` (`pc`, `target`,
`installed`, `align`). A file's content is the vault it belongs to, an identity,
its records and its outbox; `Torn` is a file cut short. Each action of
SwitchStep, ErrorStep and BootStep is one call of the code; `Crash` may fall
between any two; `Faults` names the calls that may fail. `now` is the clock as the
switch reads it, once, before its first file operation: everything it queues later is
stamped with it. Removing a file never fails, except the install marker (the code
ignores the others' errors too, and the marker's is the one with a consequence).

The environment writes, drains, backs up and quits. A headless process
(`mcp_server.rs:354-400`) takes no lock and knows nothing of a switch or of a crash: it
opens the brain at any moment (`McpAttach`), writes at any moment, and exits or dies,
with or without the checkpoint of a last connection. When its journal is unlinked
under it, it goes on with a file that nobody else sees (`stale`); what it commits there
is lost, in the model as in the program, and it may open the brain anew. One headless
process is there at a time, and of two connections cut off from the brain only the
later is remembered. `Races` names the windows in which that process does what the
switch does not survive (section 5).

### BulkBreaker

One action per transaction or autocommit read of a pass. An entry is its state
(live, soft-deleted, gone) and whether its source is still indexed. The budget,
the trip marker, the epoch and the baseline are the meta keys. Edges, outbox rows
and `healed` events of a deletion are left out, and the order of rows is free.
`Modes` lists the settings a behaviour may have: whether passes overlap, whether
documents change meanwhile, whether `--allow-bulk` is given, and whether the open that
migrates knows the vault (`rooted`). `past20` is the code's own test, `MAX(version) >= 20`,
and not V20's stamp: an open whose re-grade was refused goes on up the ladder
(`ClimbOn`) and, when it is rooted, stamps V22, which ends both the heals' deference and
the retries. `masked` is the history of that.

### Outbox, EventLog, OutboxLifecycle

Events are numbered in commit order. A worker polls the oldest `BatchSize` rows,
inserts one by one (`Send`, `Land`, `Answer`, or a failure under Halt or Skip),
then acknowledges in chunks; a failed insert may still land later (`LandLate`).
`Setups` lists which workers are under Skip, whether rows may be backdated and which
table is polled. Every caller leaves that at its default, `outbox`, to which no writer
writes, so that in the program as it is nothing drains (section 5). The run and the
theorems are of both: the default, where what they say is only that the rows stay, and
the worker's own code pointed at the table of the writers.
`EventLog` is the promise in two actions; `Outbox` maps its log to the committed
events and its remote table to itself. `OutboxLifecycle` leaves the rows out and
keeps the slot, the tasks, their open file and the commands' awaits.

### IngestPipeline

A process is a worker, numbered by its epoch, or the ingest command (0). It is in
the stage it last published; the action of a stage does the stage's work and ends
with the guarded publication of the next, so a replaced worker still finishes the
stage it is in, as in the code. `bytes` are what `Reading` read and hashed and `text` is
what was extracted: the same content for a plain file, while a PDF or DOCX (`binary`, chosen at the start from
`Binaries`) is opened again, after the publication between the two, and may be another by then, or
gone. `row` holds the document row with its chunks and
the strikes of its path. `Overrun` replaces time: any stage may take too long.
`Trip`, `Replace` and `Blame` are the supervisor's three transactions, `Sweep`
its idle tick, `Reindex` the two commands that send many jobs at once.

Abstracted: the epoch check and the publication are one step (the sequence lock
is not modelled with two writers in it); embedding keys, their repair and the
`none` tier; linking, merged with summarising; the pending counter of the UI; a
sweep and a reindex are one step each, their batch limit and order any order;
all respawns fall within one hour; file events of one path are coalesced.

### SchemaMigration

`op[p]` is where process p stands in the ladder and the version it read at its
start. `Rooted` are the processes that read the vault's root from the configuration and
may create the file: the desktop, and `ct` commands that open through
`AppDb::open_with_config`. A version is a body (`applied`) and a stamp (`stamps`), taken in one step if
the code puts them in one transaction, in two if the stamp follows the commit;
V4 and V15, statements without a transaction, also have a state in which they are
half run (`torn`), over which they cannot be run again. V13 and V17 look at a table's columns
(`body`) and add what they missed in statements without a lock (`alter`), which fail when
another open was faster; the three ALTERs of V17 are one. V20 to V22 wait for a vault
or for rows that can be exported; V23 to V28 run their bodies at every open. The
order is the code's, not the numerical one. What a body does to rows is left out,
but for the rows of V20 (`flagged`), which the healer may delete. `Die` is a crash,
SQLITE_BUSY, or another error that fails the open, such as the re-grade's; a headless
process opens once. `settled` remembers whether there was nothing left for V20 to wait
for when an open began.

### StatedLedger

A command is several steps: it reads the row, appends to the ledger, and commits
one transaction, and between two of them anything may happen. The queue's commands
run one at a time (`DbState`), the modal's confirmation on its own connection. A
new brain (`NewBrain`) starts with facts and without denials; the first open that
knows the vault re-derives both from the ledgers, once per brain. A text is a
title with a body; `Norm` is what the folded hash keeps of it, and the exact hash of
a confirmation is the text itself. `Edit` is an agent's `fact_update`, which writes the
payload's confidence, `Rewrite` a person's `update_wisdom`, which keeps the stamp on the
new text, and `Add` an approved proposal, whose fact may be born stamped (`Origins`);
`orphans` is the history of facts whose full stamp came that way. `done` is what the last step reported, `half` the
history of un-denials that got no further than the ledger.

### EntryVectors

A vector is the scheme and the text it was computed from. `ReadBatch` and
`ApplyEmbeddings` are the two transactions of a sweep, with the provider's answer
or failure (`BatchFails`) between them; `Search` reads the active scheme once and
compares under it, `Activate` moves it. `revived` and `excused` are histories: rows
un-denied since they were last written, and rows whose text changed under a
vector in one of the ways section 5 describes.

### Proposals

A synthesis run reads a document's chunks (`Start`), waits for the model, inserts
its proposals one transaction each (`Insert`, which supersedes the older pending ones
of the same target) and, in folders that ask for it, approves each at once
(`ResolveAuto`); then it marks the document (`Watermark`). A desk checks that the
proposal is pending and embeds (`Load`) before its transaction (`Resolve`).
Documents are staged, re-chunked and deleted at any moment; `Delete` records the
loss on pending proposals in the same transaction. A fact is the proposal and the
text it came with; an entity minted by a resolution has its proposal's id. Items
that add no fact are one abstract item that may land or not. `ran` and `orphaned` are
histories. Left out: edited items, the entity gate, tiers, events, outbox rows.

## 3. Runs

| Run | Shows | Instance |
|---|---|---|
| `RestoreSyncCrash` | TypeOK, FilesAreSound, CaptureBelongsToReplacedFile, BrainWhole, PublishedCaptureIsKept, OwedCaptureIsPublished, ReplicaIsOwed with crashes, also of a vault that is left and entered again | 2 vaults, 2 switches, 2 crashes, 1 failing call, 1 write, 1 headless process |
| `RestoreSyncFaults` | ReplicaIsOwed, ConfigFollowsBrain, SwitchEnds, CaptureIsSynced, any one call failing | 1 switch, 3 records, 2 headless processes |
| `BulkBreakerPasses` | WithinBudget and NoWipe of serial passes; PurgedIsBackedUp, FlaggedReachesExport, DeletesAreSound, TripHolds also of overlapping ones | 4 rows, 2 healers, the GUI's, a regrade; budget of 2 rows |
| `OutboxWorkers` | NothingLost, ExactlyOnce, and the refinement ImplementsEventLog where no worker is under Skip and no row backdated | 2 workers; 3 events under Halt, or 2 with a Skip worker and backdated rows; 2 failures; workers on the writers' table or on the default one |
| `OutboxCommands` | SerialCommandsAreSafe, CommandsReturn | 2 starts, stop and switch, 3 commands |
| `IngestRaces` | IndexIsOneVersion, IndexedHashIsCurrent, BlamedForItsOwn, NewWedgeIsSeen, ClaimsOutliveNoChannel | 1 document, plain or PDF/DOCX, 3 contents, 2 respawns, 2 overruns, an edit, a command, a failure |
| `IngestLostClaim` | *violation*: PendingIsSwept | 1 document, 1 edit, no failure |
| `SchemaOpens` | StampMeansApplied, DeferredIsNotMasked, OpenedIsUsable, NoBootLoop, RootedOpenCompletes | the desktop and a headless process; a new brain and one of V15; 1 death |
| `StatedQueue` | ConfirmIsDurable, SuppressionIsCarried, LedgerIsObeyed | 2 facts of one text, 2 texts that differ in case, 2 upsets (a death, refusal, edit, archival or new brain each); proposals add stamped or unstamped facts |
| `EntryVectorsSweeps` | ComparedWithinScheme, CutoverIsComplete, VectorDescribesText | 2 entries, 2 sweeps, 1 reader, a title of import only |
| `ProposalsResolved` | BrainMatchesRecord, AutoApprovedIsSourced | 2 documents, 2 contents, 2 proposals, 1 run, 1 desk, 1 edit or deletion |
| `ProposalsMarked` | *violation*: MarkIsWhatWasRead | the same |

Why the bounds are enough. Each run has room for the smallest instance of every
hazard it is about: two switches give a file that is left and entered again; two
crashes let startup die in its own recovery; two passes or workers are the
smallest race; two respawns give three generations of workers, one of them
suspended in its transaction while a second is replaced; three contents give one
that shares a chunk with another and one without chunks. A desk and a run that
approves by itself are two resolvers of one proposal, and two proposals let one
supersede the other; one deletion is what an automatic approval races with. Two
opens, one of which may die, are the smallest overlap, and V15 the oldest version
whose later steps all guard themselves; a new brain climbs the whole ladder. Two
sweeps and one reader over two entries put a batch of one beside a write of the
same entry, of the other, and beside the cut-over. Counters that grow
without end in the program (clock, epochs, commands, failures) are bounded by the
constants `Max...` in the guards. `CHECK_DEADLOCK FALSE` is set where these bounds
let the system stop. Every action fires in a passing run.

Fairness. `RestoreSync`: a running switch and a starting application take their
next step (straight-line code). `OutboxLifecycle`: each
command takes its next step once the lock or the task it awaits is free, each
task exits once cancelled. `IngestPipeline` (`FairSpec`): the supervisor's loop
ticks every 5 s, the watcher delivers events, and the current worker goes on as
long as its stage is not late; a late or replaced worker may be stuck for ever,
and edits, commands and failures are never promised. `Outbox`, `SchemaMigration`,
`StatedLedger`, `EntryVectors` and `Proposals` are checked for safety only and assume
none: each of their commands may stop where it is, and nothing waits for another.
`Outbox` also defines a `FairSpec`, in which each worker (a tokio task in a loop) advances;
only section 5 speaks of it.

## 4. Proofs

| Module | Theorems | Argument |
|---|---|---|
| `BulkBreakerProofs` | TypeCorrect, TripsHold, DeletesSound, FlaggedRowsReachTheExport; EpochsStayWithinBudget, NoPopulationIsWiped; PurgesAreBackedUp | trip facts follow from who writes the meta keys; FlagsSettle: unless V22 was stamped over a pending V20 (`masked`), flagged rows are live, and a settled regrade and `past20` leave no flag; SerialInv: of passes that do not overlap one is at work, what it has read is still so, and what it has yet to delete, with what is spent, is within the budget its check counted; BackupInv: a regrade purges rows that are still there and have their files |
| `RestoreSyncProofs` | TypeCorrect, FilesStaySound, CapturesAreOfReplacedFiles, TheBrainIsWhole, OwedCapturesArePublished; PublishedCapturesAreKept, TheReplicaIsOwed; TheConfigFollowsTheBrain | FilesInv: marker and staged copy together tell whether the install rename has happened, and on either side of it the sibling files suffice to restore what was committed; OneCapture: no capture waits while another is published; DebtInv: what is owed to the replica is in the outbox of the live file or of the one capture; StampInv, inductive together with DebtInv: what a switch stamps with its one reading of the clock is later than every event it outlasts; VaultInv: the brain is the configured vault's, or the one the switch has still to write |
| `OutboxProofs` | TypeCorrect, NoEventIsLost, DeliveredOnce, HaltPreservesOrder, OutboxImplementsEventLog | SafeInv: a batch is made of committed rows, what is answered has landed or was skipped; LineInv: the remote table is 1..n, and every batch and late insert continues it |
| `OutboxProofs`, of `OutboxLifecycle` | LifecycleTypeCorrect, SerialCommandsSafe | Owned: of commands that do not overlap one is in flight, the slot is empty from its take to its end, and a live worker is registered, awaited, or about to be stored by the start that spawned it; so a switch replaces the file with no worker alive |
| `IngestPipelineProofs` | TypeCorrect, IndexIsNeverMixed, HashIsNeverStale, NobodyIsBlamedForAnother, EveryWedgeIsSeen, NoClaimOutlivesAChannel | Sound: types, epochs counted as respawns, bytes read before they are used; Blamed: strikes, the trip under way and the late stage are together no more than the overruns; TrippedOnOld: a tripped stage is the old worker's while its successor is idle; GoodIndex: a guarded swap computes exactly the chunks of the extracted text, which for a plain file are those of the hashed bytes |
| `SchemaMigrationProofs` | TypeCorrect, StampsAreTrue, NothingIsMasked; WhatServesIsWhole, NoOpenFailsAlone; RootedOpensComplete | StampInv: a process between body and stamp has run the body, and a gate it read open stays open; LadderInv, of brains of version 15 or later: every version behind an open has run, unless it may be put off, and of two opens that overlap neither counts as alone; RootedOpens: an open that knows the vault leaves V22 stamped, and V25 behind it done; RootInv: without doomed rows the stamps leave no gap up to V22, and all that an open that knows the vault has left behind is stamped |
| `StatedLedgerProofs` | TypeCorrect, ConfirmationIsDurable, SuppressionsAreCarried, TheLedgerIsObeyed | Remembered: what a re-derivation has read is still in the ledger, which only grows but for un-denials; Confirms and StampIsCarried: a command past its append, and every stamped fact that is no orphan, has its line |
| `EntryVectorsProofs` | TypeCorrect, SearchesStayInScheme, CutoversAreComplete, VectorsDescribe | BatchesAreCurrent: the guard of the write (still no vector, or still the text that was read) is what makes an old batch harmless; Stamped: a vector has its row's scheme |
| `ProposalsProofs` | TypeCorrect, RecordsAreTrue, AutoApprovalsAreSourced, NoShells | SourcesRecorded: a pending proposal has all its documents or a record of one it lost; the record and the deletion are one transaction, and so are the check and the commit |

Each holds for every value of the constants that satisfies the module's named
assumptions. HaltPreservesOrder and OutboxImplementsEventLog assume that no worker
is under Skip and no row is backdated; the latter is the safety part of the
refinement (initial states and steps). `OutboxProofs` extends both specifications,
which share no variable.

The theorems of `RestoreSyncProofs` have hypotheses, named in that module, that rule
out the failures section 5 shows the code not to survive. CleanupsSucceed, of all
of them: publishing the capture, removing the marker and renaming the kept journal
back do not fail, and no headless process opens, writes or checkpoints the brain in one
of the windows that `HeadlessRaces` names (`Races = {}`). CapturesAreSynced, of the two about the replica: the
sync after a switch fails in the last switch at most. ConfigIsWritten, of the last:
no crash, and the configuration is written at the first or the second attempt. Every
other call may fail at any moment, any number of times, in any number of switches,
and the process may die between any two. This is more than any run has, except that
`RestoreSyncFaults` also lets one of the cleanups fail, once. BackupsAssumption says
of the backups there are at first what the program sees to: each was taken of its own
vault, earlier than now, and its outbox ends with a deletion of each record it speaks
of and does not hold. BrainWhole alone is not inductive: that an error path or a
start finds its way back depends on which of the files are there, at every step of
the switch and of the recovery, and on the recovery not having begun twice.

WithinBudget and NoWipe carry their premise, that nothing overlaps a pass (`Serial`), in
the property; overlapping passes break WithinBudget (section 5). PurgesAreBackedUp
assumes RegradesAreSerial: there is one regrader, or no pass overlaps another (of two
overlapping regrades one removes the files of the other, section 5). The ladder's three theorems need no premise beyond
those of their properties. Their step cases come down to three shapes: a step that
works on a version (Works, Completes), one that only moves an open along the ladder or
off it (Moves), and a start.

The other invariants the runs check are not
inductive by themselves: NothingLost needs to know that a row is deleted only
from a worker's `done`, BlamedForItsOwn that a verdict not yet given is
already paid for, AutoApprovedIsSourced that no loss goes unrecorded while the
proposal is pending, and ConfirmIsDurable that a line precedes every stamp.

WhatServesIsWhole is of brains found at V15 or later: a serving process has every
version the program's statements need, except, by name, what its own open was let
leave undone: V22 and V25 if it does not know the vault, V20 and V21 if the brain had
doomed rows (that V21 is then left for good is in section 5). It covers any number
of opens of either kind, `ct` beside the desktop among them; the run has one of each.
IndexIsNeverMixed says of every file that its chunks are those of one content, and of
a plain file that it is the content last hashed by an ingest; of a PDF or DOCX that is
not so (section 5).

Only model-checked: liveness (CommandsReturn, SwitchEnds, CaptureIsSynced), which the
prover does not reach. Every invariant and every action property of a passing run is stated by a theorem.

## 5. Where the code and its documents disagree

Two disagreements are runs that TLC refutes and are listed as findings:

- `IngestLostClaim`: a sweep claim outlives its job (`pipeline/watchdog/sweep.rs:62`).
- `ProposalsMarked`: a synthesis marks content that was never read
  (`librarian/synthesis.rs:1171`; `librarian/mod.rs:230` calls such a document clean).

Others were met while modelling. The models contain them, and the passing runs
exclude them by the constant or the premise named here; TLC refutes the property
named when that is lifted, or, of a property that is defined and that no run claims,
as soon as it is checked.

- `RestoreSync`, `Races = {"window"}` (FilesAreSound): a headless process that opens the
  brain between the unlink of the journal and the install leaves the outgoing file's
  journal beside the backup (`lib.rs:2059`), against `db/restore_sync.rs:343-344`.
- `RestoreSync`, `Races = {"restart"}` with a crash (BrainWhole): one that starts after the
  crash, before the desktop, makes a `-wal`, and startup then deletes the kept journal
  (`db/restore_sync.rs:327`), against `:488`.
- `RestoreSync`, `Races = {"stamped"}` (ReplicaIsOwed): what one writes after the switch has
  read the clock has a later stamp than the Delete that should undo it (`lib.rs:2030`).
- `RestoreSync`, `Races = {"copied"}` and `{"exit"}` (BrainWhole): one writes between the
  copy of the journal and its removal, or checkpoints, as the last connection, a
  journal that is no longer the brain's or over which a kept copy will be put (`:24-26`).
- `RestoreSync`, faults `walrename` with `install`: the rename that puts the kept
  journal back fails and the journal is removed (`db/restore_sync.rs:327-330`).
- `RestoreSync`, `sync` in `Faults`: a second switch publishes over a capture
  whose sync failed (`:469`).
- `RestoreSync`, `unmark` in `Faults` with crashes: a marker that could not be removed makes
  the next start read a committed install (`:285-287`).
- A crash between the install and `set_vault_path` leaves the new brain under the
  old vault's configuration (`lib.rs:2128`); hence ConfigFollowsBrain has no crashes.
- `RestoreSync`, `publish` in `Faults` with crashes: startup removes the marker
  although publishing failed, and the next start discards the capture
  (`db/restore_sync.rs:519-530`); OwedCaptureIsPublished, against `lib.rs:2137-2139`.
- `BulkBreaker`, passes that overlap: a heal spends a budget another writer has been
  granted (`db/heal.rs:110`; WithinBudget), and of two regrades one removes the
  backup files of the other (`db/evidence_regrade.rs:277`; PurgedIsBackedUp), against
  the comment above it.
- `BulkBreaker`, `races = {"grounding"}`: rows that become stale after the check
  join the batch, together the whole population (`db/heal.rs:88`).
- `BulkBreaker`, RecoveryStaysPending, which no run claims: an open whose V20 was refused
  goes on and stamps V22, `MAX(version) < 20` is false from then on, and the next heal
  deletes rows that were never exported, against `db/connection.rs:522-525`.
- `Outbox`, Drains under `FairSpec`, which no run claims: the worker polls a table no
  writer fills (`outbox/mod.rs:37`), an open point in `db/outbox_format.rs:7-8`.
- `Outbox`, `backdated`: the ledger rebuild stamps rows with an older
  moment (`db/stated_ledger.rs:320`), so order by `created_at` is not commit order.
- `OutboxLifecycle`, overlapping commands: the second of two starts drops the
  first one's handle, a start that overlaps a switch keeps the replaced file
  (`lib.rs:540`); SerialCommandsAreSafe is about commands that did not overlap.
- `IngestPipeline`, HashIsOfWhatIsChunked with binary documents, which no run claims: the
  text of a PDF or DOCX is read after its bytes were hashed (`pipeline/mod.rs:820`),
  against `db/queries.rs:91`; when the edit in between is undone the row's hash is right
  again and the wrong chunks stay for good.
- `IngestPipeline`, documents in `unchecked`: the swap of a document that was new
  when its bytes were read makes no race check and keeps the watcher's hash
  (`pipeline/mod.rs:1039`), so two ingests of a new document can leave chunks of
  both, and an edit in between leaves the new hash on the old chunks.
- `IngestPipeline`: the swap of an older read overwrites the pending status the
  watcher has just written; the edit waits for the next event or start.
- `IngestPipeline`: an ingest that fails in the embedding leaves its row pending
  and its claim in place (`pipeline/mod.rs:1005`), like the leak of
  `IngestLostClaim`. After a trip the heartbeat keeps the old stage until the new worker
  gets a job, and the trip gate skips the sweep that could give it one
  (`pipeline/watchdog/mod.rs:318`).
- `IngestPipeline`: a replaced worker already in its transaction still commits,
  though `pipeline/mod.rs:195` says that it must not touch the database.
- `SchemaMigration`, ReviewedByLands, which no run claims: an open that puts V20 and V21
  off stamps V22 (`db/connection.rs:692`), V21 is then never run, against `:581-582`, and
  every resolution of a proposal fails for want of its column.
- `SchemaMigration`, brains older than V15 (OpenedIsUsable and NoBootLoop have the
  premise): two overlapping opens of a fresh brain, or a crash, can stamp V9 to V11
  without V7, and V12 fails at every later open; a half-run V4 or V15 stays so; an
  opener with an old reading of 11 to 14 runs V15 again and drops V28's columns. The
  update after V8 and the re-keying after V5 are lost with a crash. Headless
  processes serve reads even when the migration failed. The table of V25 is made at a
  rooted open only, and processes that open the brain without the root serve without
  it until then.
- `switch_vault` reopens the brain (`lib.rs:2097`) before `set_vault_path`, so V22 and
  the re-derivation of that open see the old vault's root.
- `StatedLedger`, DenyIsApplied: a denial whose commit failed is taken up by a
  re-derivation, which records the key and leaves the fact live; the retry finds the
  key and reports success (`db/queue.rs:721-722`).
- `StatedLedger`, `Races = {TRUE}`: an edit between a confirmation's read and its stamp
  leaves the stamp on a text nobody vouched for (`db/stated_ledger.rs:251`). - `StatedLedger`, StampIsDerived, which no run claims: a rewrite keeps the stamp on a text
  nobody confirmed (`db/wisdom.rs:478`), an agent's `fact_update` or a proposal may bring
  one, against INTENT.md:96-106, and a later confirmation returns early with success, so
  that the ledger never hears of it.
- `StatedLedger`: the re-derivation runs once, at the first open with a vault, when a
  rebuilt brain has no facts yet, so that facts ingested again are never stamped,
  although the design (`docs/superpowers/specs/2026-10-20-user-confirmation-queue-design.md`,
  :514-520, :699) says a rebuild re-derives; a brain restored from a replica keeps the
  marker too. An un-denial revives every deleted row of the text, whoever archived
  it, and after a denial the twins of the fact stay live and hidden.
- `EntryVectors`, `excused`: the sweep's guard is `embedding_blob IS NULL` and not the
  text, so that a row edited without a vector, or replaced by an import, between the
  batch's read and its write gets a vector of its old text, against
  `embed_scheme.rs:50-56`; and an imported fact whose title is not the derived one keeps
  its vector when an update derives the title again (`db/commit.rs:1925`).
- `EntryVectors`, `revived`: rows un-denied after the cut-over come back with their old
  stamp and are hidden from the readers until a scheme sweep is asked for.
- `Proposals`: a file that is moved by create-then-remove leaves two pending proposals
  for the same bytes; whether a fact is `user_stated` is decided before the transaction
  and by the document's hash then, not by the text the proposal was made from; a
  summary changed within the second its proposal was made in is not seen as a
  conflict. No property claims otherwise.

## 6. Not modelled

Section 1 lists the parts; PROJECT.json gives a reason for each. In short: merges of
entities and the `ct` reindex, which run in single IMMEDIATE transactions or under the
vault lock; single transactions without concurrency; formats, parsing, similarity
thresholds and rendering; child processes and network protocols. An older binary on
the same brain is nowhere modelled, nor is a power loss that reorders writes the code
has not synced.
