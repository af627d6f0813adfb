------------------------------- MODULE Outbox -------------------------------
(***************************************************************************)
(* The Postgres outbox worker (src-tauri/src/outbox/mod.rs, postgres.rs)   *)
(* and the rows it drains (db/outbox_format.rs).                           *)
(*                                                                         *)
(* Every wiki mutation pushes one row into an outbox table in the same     *)
(* SQLite transaction.  A worker of the desktop process polls the oldest   *)
(* rows by (created_at, rowid), inserts them into Postgres one at a time   *)
(* with a 10 s limit each, and deletes the rows it has processed           *)
(* afterwards, in chunks.  The headless server runs no worker; two run at  *)
(* once after start commands that overlapped (OutboxLifecycle).  Nothing   *)
(* makes the insert and the delete one step: the process can die, the      *)
(* answer can be lost, and an insert that timed out here can still execute *)
(* there.                                                                  *)
(*                                                                         *)
(* The name of the polled table is a setting: every caller leaves it at    *)
(* its default, "outbox", which is not the table the rows are written to.  *)
(*                                                                         *)
(* Events are numbered in commit order, which is also rowid order.         *)
(***************************************************************************)
EXTENDS Naturals, Sequences, FiniteSets

CONSTANTS
  Workers,       \* the worker tasks
  Setups,        \* what an execution may be like: see setup
  WriterTable,   \* the table push_outbox_row inserts into
  WorkerTables,  \* values of OutboxConfig.outbox_table; every caller has "outbox"
  BatchSize,     \* OutboxConfig.batch_size
  Chunk,         \* rows one DELETE of acknowledge covers (500 in the code)
  MaxEvents,     \* bound on the bound setup.events
  MaxStamp,      \* bound: created_at values
  MaxFaults      \* bound: failed inserts, failed acknowledges, kills, stops

ASSUME OutboxAssumption ==
  /\ Workers # {} /\ IsFiniteSet(Workers)
  /\ Setups \subseteq 
       [skip : SUBSET Workers, backdated : BOOLEAN, events : 0..MaxEvents,
        table : WorkerTables]
  /\ BatchSize \in Nat \ {0} /\ Chunk \in Nat \ {0}
  /\ MaxEvents \in Nat /\ MaxStamp \in Nat /\ MaxFaults \in Nat

VARIABLES
  stamp,         \* stamp[e]: created_at of event e; Len(stamp) are committed
  rows,          \* events whose row is still in WriterTable
  remote,        \* ids in wiki_outbox_events, in arrival order
  late,          \* events with a timed-out insert that may still execute
  skipped,       \* events acknowledged after an error under Skip
  pc,            \* worker: "off", "idle", "sending", "ack"
  todo,          \* worker: events of its batch it has not answered for yet
  done,          \* worker: processed_ids
  call,          \* worker: its current insert, "none", "sent" or "landed"
  cancelled,     \* worker: the cancel flag
  faults,
  setup          \* skip: the workers whose OutboxConfig.on_error is Skip, not
                 \* Halt; backdated: may a row carry a created_at older than
                 \* its predecessors'?  events: bound on mutations committed;
                 \* table: the table the workers poll

worker == <<pc, todo, done, call, cancelled>>
vars == <<stamp, rows, remote, late, skipped, worker, faults, setup>>

Committed == 1..Len(stamp)
Landed    == {remote[i] : i \in DOMAIN remote}

TypeOK ==
  /\ stamp \in Seq(0..MaxStamp) /\ Len(stamp) <= MaxEvents
  /\ rows \subseteq Committed /\ late \subseteq Committed
  /\ skipped \subseteq Committed
  /\ remote \in Seq(Nat) /\ Landed \subseteq Committed
  /\ pc \in [Workers -> {"off", "idle", "sending", "ack"}]
  /\ todo \in [Workers -> SUBSET Committed]
  /\ done \in [Workers -> SUBSET Committed]
  /\ call \in [Workers -> {"none", "sent", "landed"}]
  /\ cancelled \in [Workers -> BOOLEAN]
  /\ faults \in 0..MaxFaults
  /\ setup \in Setups

Init ==
  /\ stamp = <<>> /\ rows = {} /\ remote = <<>> /\ late = {} /\ skipped = {}
  /\ pc = [w \in Workers |-> "off"]
  /\ todo = [w \in Workers |-> {}] /\ done = [w \in Workers |-> {}]
  /\ call = [w \in Workers |-> "none"]
  /\ cancelled = [w \in Workers |-> FALSE]
  /\ faults = 0
  /\ setup \in Setups

-----------------------------------------------------------------------------
(* The order of the poll: ORDER BY created_at ASC, rowid ASC.              *)
Before(e, f) == stamp[e] < stamp[f] \/ (stamp[e] = stamp[f] /\ e < f)

(* The first n events of S in that order, or all of S when it is smaller   *)
(* (a singleton set of sets).                                              *)
Heads(S, n) ==
  {B \in SUBSET S : /\ \A e \in B, f \in S \ B : Before(e, f)
                    /\ Cardinality(B) <= n
                    /\ Cardinality(B) = n \/ B = S}

IsOldest(e, S) == e \in S /\ \A f \in S \ {e} : Before(e, f)

(* What fetch_pending sees: a table that does not exist reads as empty.    *)
Visible == IF setup.table = WriterTable THEN rows ELSE {}

(* created_at of a new row.  Most writers stamp the wall clock; the ledger *)
(* rebuild stamps the moment of the original confirmation, and two writers *)
(* that read the clock before waiting for the write lock can commit in the *)
(* other order.                                                            *)
Stamps ==
  IF setup.backdated \/ stamp = <<>> THEN 0..MaxStamp
                                      ELSE stamp[Len(stamp)]..MaxStamp

(* A wiki mutation commits together with its outbox row.                   *)
Push ==
  /\ Len(stamp) < setup.events
  /\ \E s \in Stamps : stamp' = Append(stamp, s)
  /\ rows' = rows \cup {Len(stamp) + 1}
  /\ UNCHANGED <<remote, late, skipped, worker, faults, setup>>

-----------------------------------------------------------------------------
(* The sink connects and the worker opens its own SQLite connection.       *)
Start(w) ==
  /\ pc[w] = "off"
  /\ pc' = [pc EXCEPT ![w] = "idle"]
  /\ cancelled' = [cancelled EXCEPT ![w] = FALSE]
  /\ UNCHANGED <<stamp, rows, remote, late, skipped, todo, done, call, faults,
                 setup>>

(* OutboxWorkerHandle::stop: only raises the flag; the task looks at it    *)
(* before a poll and before each event.                                    *)
Stop(w) ==
  /\ pc[w] # "off" /\ ~cancelled[w] /\ faults < MaxFaults
  /\ cancelled' = [cancelled EXCEPT ![w] = TRUE]
  /\ faults' = faults + 1
  /\ UNCHANGED <<stamp, rows, remote, late, skipped, pc, todo, done, call,
                 setup>>

Exit(w) ==
  /\ pc[w] = "idle" /\ cancelled[w]
  /\ pc' = [pc EXCEPT ![w] = "off"]
  /\ UNCHANGED <<stamp, rows, remote, late, skipped, todo, done, call,
                 cancelled, faults, setup>>

(* do_sync: fetch_pending returns a non-empty batch.                       *)
Poll(w) ==
  /\ pc[w] = "idle" /\ ~cancelled[w]
  /\ Visible # {}
  /\ \E B \in Heads(Visible, BatchSize) : todo' = [todo EXCEPT ![w] = B]
  /\ pc' = [pc EXCEPT ![w] = "sending"]
  /\ UNCHANGED <<stamp, rows, remote, late, skipped, done, call, cancelled,
                 faults, setup>>

(* A poll that finds nothing (or no such table) sleeps again.              *)
PollEmpty(w) ==
  /\ pc[w] = "idle" /\ ~cancelled[w]
  /\ Visible = {}
  /\ UNCHANGED vars

(* The next event of the batch goes out.                                   *)
Send(w) ==
  /\ pc[w] = "sending" /\ call[w] = "none" /\ todo[w] # {} /\ ~cancelled[w]
  /\ call' = [call EXCEPT ![w] = "sent"]
  /\ UNCHANGED <<stamp, rows, remote, late, skipped, pc, todo, done,
                 cancelled, faults, setup>>

(* Mutant: a plain INSERT, as if the table had no primary key.             *)
InsertPlain(e) == remote' = Append(remote, e)

(* INSERT ... ON CONFLICT (id) DO NOTHING executes in Postgres.            *)
Insert(e) == remote' = IF e \in Landed THEN remote ELSE Append(remote, e)

Land(w) ==
  /\ call[w] = "sent"
  /\ \E e \in todo[w] : IsOldest(e, todo[w]) /\ Insert(e)
  /\ call' = [call EXCEPT ![w] = "landed"]
  /\ UNCHANGED <<stamp, rows, late, skipped, pc, todo, done, cancelled, faults,
                 setup>>

(* An insert the client gave up on executes after all.                     *)
LandLate ==
  \E e \in late :
    /\ Insert(e)
    /\ late' = late \ {e}
    /\ UNCHANGED <<stamp, rows, skipped, worker, faults, setup>>

(* Ok(()): the event is processed.                                         *)
Answer(w) ==
  /\ call[w] = "landed"
  /\ \E e \in todo[w] :
       /\ IsOldest(e, todo[w])
       /\ todo' = [todo EXCEPT ![w] = @ \ {e}]
       /\ done' = [done EXCEPT ![w] = @ \cup {e}]
  /\ call' = [call EXCEPT ![w] = "none"]
  /\ UNCHANGED <<stamp, rows, remote, late, skipped, pc, cancelled, faults,
                 setup>>

(* What may still happen to an insert whose answer will not be read.       *)
Abandon(w, e) ==
  IF call[w] = "sent" THEN late' \in {late, late \cup {e}} ELSE late' = late

(* Mutant: a failed event stays in the outbox but the loop goes on.        *)
FailHaltGoesOn(w) ==
  /\ w \notin setup.skip
  /\ call[w] # "none" /\ faults < MaxFaults
  /\ \E e \in todo[w] :
       /\ IsOldest(e, todo[w]) /\ Abandon(w, e)
       /\ todo' = [todo EXCEPT ![w] = @ \ {e}]
  /\ call' = [call EXCEPT ![w] = "none"]
  /\ faults' = faults + 1
  /\ UNCHANGED <<stamp, rows, remote, skipped, pc, done, cancelled, setup>>

(* The insert fails, or 10 s pass without an answer, under Halt: the rest  *)
(* of the batch is left for the next poll.                                 *)
FailHalt(w) ==
  /\ w \notin setup.skip
  /\ call[w] # "none" /\ faults < MaxFaults
  /\ \E e \in todo[w] : IsOldest(e, todo[w]) /\ Abandon(w, e)
  /\ todo' = [todo EXCEPT ![w] = {}]
  /\ call' = [call EXCEPT ![w] = "none"]
  /\ pc' = [pc EXCEPT ![w] = "ack"]
  /\ faults' = faults + 1
  /\ UNCHANGED <<stamp, rows, remote, skipped, done, cancelled, setup>>

(* The same under Skip: the event counts as processed and the loop goes on.*)
FailSkip(w) ==
  /\ w \in setup.skip
  /\ call[w] # "none" /\ faults < MaxFaults
  /\ \E e \in todo[w] :
       /\ IsOldest(e, todo[w])
       /\ Abandon(w, e)
       /\ todo' = [todo EXCEPT ![w] = @ \ {e}]
       /\ done' = [done EXCEPT ![w] = @ \cup {e}]
       /\ skipped' = skipped \cup {e}
  /\ call' = [call EXCEPT ![w] = "none"]
  /\ faults' = faults + 1
  /\ UNCHANGED <<stamp, rows, remote, pc, cancelled, setup>>

(* Mutant: the whole batch is acknowledged, not what was processed.        *)
EndBatchAcksAll(w) ==
  /\ pc[w] = "sending" /\ call[w] = "none"
  /\ todo[w] = {} \/ cancelled[w]
  /\ done' = [done EXCEPT ![w] = @ \cup todo[w]]
  /\ todo' = [todo EXCEPT ![w] = {}]
  /\ pc' = [pc EXCEPT ![w] = "ack"]
  /\ UNCHANGED <<stamp, rows, remote, late, skipped, call, cancelled, faults,
                 setup>>

(* The loop over the batch ends: it is used up, or the flag went up.       *)
EndBatch(w) ==
  /\ pc[w] = "sending" /\ call[w] = "none"
  /\ todo[w] = {} \/ cancelled[w]
  /\ todo' = [todo EXCEPT ![w] = {}]
  /\ pc' = [pc EXCEPT ![w] = "ack"]
  /\ UNCHANGED <<stamp, rows, remote, late, skipped, done, call, cancelled,
                 faults, setup>>

(* acknowledge deletes one chunk of processed_ids, the oldest first; with  *)
(* nothing left the worker goes back to its poll loop.                     *)
Ack(w) ==
  /\ pc[w] = "ack"
  /\ \E B \in Heads(done[w], Chunk) :
       /\ rows' = rows \ B
       /\ done' = [done EXCEPT ![w] = @ \ B]
       /\ pc' = IF B = done[w] THEN [pc EXCEPT ![w] = "idle"] ELSE pc
  /\ UNCHANGED <<stamp, remote, late, skipped, todo, call, cancelled, faults,
                 setup>>

(* A DELETE fails (the database is busy): the `?` drops the rest.          *)
AckFails(w) ==
  /\ pc[w] = "ack" /\ done[w] # {} /\ faults < MaxFaults
  /\ done' = [done EXCEPT ![w] = {}]
  /\ pc' = [pc EXCEPT ![w] = "idle"]
  /\ faults' = faults + 1
  /\ UNCHANGED <<stamp, rows, remote, late, skipped, todo, call, cancelled,
                 setup>>

(* The worker's process dies; of two workers, one after the other.         *)
Kill(w) ==
  /\ pc[w] # "off" /\ faults < MaxFaults
  /\ IF call[w] = "none" THEN late' = late
     ELSE \E e \in todo[w] : IsOldest(e, todo[w]) /\ Abandon(w, e)
  /\ pc' = [pc EXCEPT ![w] = "off"]
  /\ todo' = [todo EXCEPT ![w] = {}]
  /\ done' = [done EXCEPT ![w] = {}]
  /\ call' = [call EXCEPT ![w] = "none"]
  /\ faults' = faults + 1
  /\ UNCHANGED <<stamp, rows, remote, skipped, cancelled, setup>>

Advance(w) == \/ Start(w) \/ Exit(w) \/ Poll(w) \/ PollEmpty(w) \/ Send(w)
              \/ Land(w) \/ Answer(w) \/ EndBatch(w) \/ Ack(w)
Disturb(w) == \/ Stop(w) \/ FailHalt(w) \/ FailSkip(w) \/ AckFails(w) \/ Kill(w)

Next ==
  \/ Push
  \/ LandLate
  \/ \E w \in Workers : Advance(w) \/ Disturb(w)

Spec == Init /\ [][Next]_vars

(* A worker that can take a step takes one, Postgres executes what it was  *)
(* sent, and a process that went down comes back (the worker is started    *)
(* with every launch).  Failures are not fair: they happen up to MaxFaults.*)
FairSpec == Spec /\ \A w \in Workers : WF_vars(Advance(w))

-----------------------------------------------------------------------------
(* Every committed mutation is still in the outbox or has arrived, unless  *)
(* the operator chose Skip and this event failed: across lost answers,     *)
(* failed acknowledges, kills and a second worker on the same table the    *)
(* row is only deleted after its insert succeeded.                         *)
NothingLost == \A e \in Committed : e \in rows \cup Landed \cup skipped

(* However often an event is sent again, and however late a timed-out      *)
(* insert executes, the remote table holds it once.                        *)
ExactlyOnce == \A i, j \in DOMAIN remote : remote[i] = remote[j] => i = j

(* Every worker halts on an error and stamps follow the commit order.      *)
Plain == setup.skip = {} /\ ~setup.backdated

(* "Halt preserves ordering": the remote side receives the mutations in    *)
(* the order the brain committed them, so that replaying them ends in the  *)
(* state the brain is in.                                                  *)
RemoteInCommitOrder ==
  Plain => \A i, j \in DOMAIN remote : i < j => remote[i] < remote[j]

(* The remote table is always a gapless prefix of the log of mutations:    *)
(* the worker implements the abstract event log, as long as the setup is   *)
(* plain (in any other it is mapped to an empty log).                      *)
Log == INSTANCE EventLog WITH
         Events <- 1..MaxEvents,
         log    <- IF Plain THEN [i \in Committed |-> i] ELSE <<>>,
         remote <- IF Plain THEN remote ELSE <<>>
ImplementsEventLog == Log!Spec

(* Every committed mutation reaches Postgres eventually, unless a worker   *)
(* under Skip gave it up: "the enterprise DB receives all wiki events"     *)
(* (docs/superpowers/specs/2026-05-17-prisma-adapter-rust-design.md:35).   *)
(* With the table the code polls none does, and no run claims it (README,  *)
(* divergences).                                                           *)
Drains == \A e \in 1..MaxEvents : (e \in Committed) ~> (e \in Landed \cup skipped)

=============================================================================
