--------------------------- MODULE IngestPipeline ---------------------------
(***************************************************************************)
(* Live ingest in the desktop app: the vault watcher stages rows, the      *)
(* watchdog's sweep sends them to the pipeline worker, the worker swaps    *)
(* the new chunks in, and the watchdog replaces a worker that overstays    *)
(* its stage (src-tauri/src/pipeline/mod.rs, pipeline/watchdog/*.rs,       *)
(* db/queue.rs, lib.rs).                                                   *)
(*                                                                         *)
(* A process is a worker, numbered by its epoch, or the ingest command,    *)
(* numbered 0, which runs the same funnel without an epoch guard.  A       *)
(* process is "in" the stage it last published; the action of that stage   *)
(* does the stage's work and ends with the guarded attempt to publish the  *)
(* next one.  So a worker replaced in the middle of a stage still finishes *)
(* that stage's work.  Time is left out: any stage may overrun its budget. *)
(***************************************************************************)
EXTENDS Naturals, Sequences, FiniteSets

CONSTANTS
  Docs,
  Binaries,      \* which of them may be PDF and DOCX files
  Versions,      \* contents a file may have: 1, 2, ...; 0 is no file
  ChunksOf,      \* content -> set of its chunk hashes
  OldChunks,     \* hashes an earlier chunker gave a document
  StampCurrent,  \* is the reindex stamp that of this chunker?
  Starts,        \* how a document may begin: "new", "indexed", "legacy"
  Capacity,      \* PIPELINE_CHANNEL_CAPACITY
  RespawnCap,    \* RESPAWN_CAP_PER_HOUR; the run spans less than an hour
  MaxEdits, MaxOverruns, MaxFaults, MaxCommands

ASSUME IngestAssumption ==
  /\ IsFiniteSet(Docs) /\ Docs # {} /\ Binaries \subseteq SUBSET Docs
  /\ Versions \subseteq Nat \ {0} /\ 1 \in Versions
  /\ DOMAIN ChunksOf = Versions
  /\ OldChunks # {} /\ \A v \in Versions : ChunksOf[v] \cap OldChunks = {}
  /\ StampCurrent \in BOOLEAN
  /\ Starts \subseteq {"new", "indexed", "legacy"}
  /\ Capacity \in Nat \ {0} /\ RespawnCap \in Nat \ {0}
  /\ {MaxEdits, MaxOverruns, MaxFaults, MaxCommands} \subseteq Nat

VARIABLES
  binary,        \* the documents that are PDF or DOCX files
  disk,          \* content of each file
  event,         \* files with a file event the watcher has yet to handle
  row,           \* the documents table, the chunks and the stall strikes
  channel,       \* jobs in the current worker's channel
  proc,          \* the command and the workers
  epoch,
  hb,            \* the heartbeat, and whether its stage is late and tripped
  dog,           \* the supervisor: where it is in a trip, and for whom
  claims,        \* InFlightClaims
  respawns, degraded,
  used,          \* bounds: edits, overruns, faults and commands so far
  overran,       \* (history) overruns per document
  unchecked,     \* (history) documents last swapped without the race check
  dropped        \* (history) documents whose job a respawn dropped, still pending

vars == <<binary, disk, event, row, channel, proc, epoch, hb, dog, claims, respawns,
          degraded, used, overran, unchecked, dropped>>
data    == <<binary, disk, event>>
watch   == <<dog, claims, respawns, degraded>>
history == <<overran, unchecked, dropped>>

Command == 0
Workers == 1..(RespawnCap + 1)
Procs   == {Command} \cup Workers
Working == {"reading", "extracting", "chunking", "embedding", "committing",
            "summarizing"}
Statuses == {"none", "pending", "pending_reindex", "indexed", "error"}
Chunks   == OldChunks \cup UNION {ChunksOf[v] : v \in Versions}

Rows == [id : Nat, status : Statuses, hash : Versions \cup {0},
         last : Versions \cup {0}, chunks : SUBSET Chunks,
         quarantined : BOOLEAN, strikes : Nat]
States == [at : Working \cup {"idle", "gone"}, doc : Docs, force : BOOLEAN,
           bytes : Versions \cup {0}, text : Versions \cup {0}, id : Nat,
           had : BOOLEAN, staged : BOOLEAN, stored : SUBSET Chunks]
Jobs == [doc : Docs, force : BOOLEAN]

TypeOK ==
  /\ disk \in [Docs -> Versions \cup {0}] /\ event \subseteq Docs
  /\ binary \subseteq Docs
  /\ row \in [Docs -> Rows]
  /\ channel \in Seq(Jobs) /\ Len(channel) <= Capacity
  /\ proc \in [Procs -> States]
  /\ epoch \in Workers
  /\ hb \in [stage : Working \cup {"idle"}, doc : Docs, late : BOOLEAN,
             tripped : BOOLEAN]
  /\ dog \in [at : {"watch", "replace", "blame"}, doc : Docs,
              stage : Working \cup {"idle"}]
  /\ claims \subseteq Docs /\ unchecked \subseteq Docs /\ dropped \subseteq Docs
  /\ respawns \in 0..RespawnCap /\ degraded \in BOOLEAN
  /\ overran \in [Docs -> 0..MaxOverruns]

AnyDoc == CHOOSE d \in Docs : TRUE
Rest(at) == [at |-> at, doc |-> AnyDoc, force |-> FALSE, bytes |-> 0, text |-> 0,
             id |-> 0, had |-> FALSE, staged |-> FALSE, stored |-> {}]

Watching == [at |-> "watch", doc |-> AnyDoc, stage |-> "idle"]

FirstRow(kind) ==
  [id |-> IF kind = "new" THEN 0 ELSE 1,
   status |-> IF kind = "new" THEN "none" ELSE "indexed",
   hash |-> IF kind = "new" THEN 0 ELSE 1, last |-> IF kind = "new" THEN 0 ELSE 1,
   chunks |-> CASE kind = "new" -> {} [] kind = "legacy" -> OldChunks
                [] OTHER -> ChunksOf[1],
   quarantined |-> FALSE, strikes |-> 0]

Init ==
  \E kind \in [Docs -> Starts] :
    /\ binary \in Binaries /\ disk = [d \in Docs |-> 1]
    /\ event = {d \in Docs : kind[d] = "new"}
    /\ row = [d \in Docs |-> FirstRow(kind[d])]
    /\ channel = <<>>
    /\ proc = [p \in Procs |-> Rest(IF p \in {Command, 1} THEN "idle" ELSE "gone")]
    /\ epoch = 1
    /\ hb = [stage |-> "idle", doc |-> AnyDoc, late |-> FALSE, tripped |-> FALSE]
    /\ dog = Watching
    /\ claims = {} /\ respawns = 0 /\ degraded = FALSE
    /\ used = [edits |-> 0, overruns |-> 0, faults |-> 0, commands |-> 0]
    /\ overran = [d \in Docs |-> 0] /\ unchecked = {} /\ dropped = {}

---------------------------------------------------------------------------
\* The vault and the watcher.

Exists(d)    == row[d].status # "none"
Sweepable(r) == r.status \in {"pending", "pending_reindex"} /\ ~r.quarantined
Spend(what)  == used' = [used EXCEPT ![what] = @ + 1]

\* A row is inserted with a fresh id; strikes are kept per path.
Inserted(r, v) == [r EXCEPT !.id = @ + 1, !.status = "pending", !.hash = v,
                            !.last = 0, !.chunks = {}, !.quarantined = FALSE]
Deleted(r) == [Inserted(r, 0) EXCEPT !.id = r.id, !.status = "none"]

\* upsert_document.
Upserted(r, v) == IF r.status = "none" THEN Inserted(r, v)
                  ELSE [r EXCEPT !.hash = v, !.status = "pending"]

\* The user saves, replaces or deletes a file.
Edit(d) ==
  /\ used.edits < MaxEdits
  /\ \E v \in (Versions \cup {0}) \ {disk[d]} : disk' = [disk EXCEPT ![d] = v]
  /\ event' = event \cup {d}
  /\ Spend("edits")
  /\ UNCHANGED <<binary, row, channel, proc, epoch, hb, watch, history>>

\* The watcher's callback: enqueue_vault_event stages the row, or deletes it.
Watch(d) ==
  /\ d \in event
  /\ event' = event \ {d}
  /\ row' = [row EXCEPT ![d] =
       IF disk[d] = 0 THEN Deleted(@)
       ELSE IF @.status = "none" \/ @.hash # disk[d] \/ @.status \in {"pending", "error"}
            THEN Upserted(@, disk[d]) ELSE @]
  /\ unchecked' = IF disk[d] = 0 THEN unchecked \ {d} ELSE unchecked
  /\ UNCHANGED <<binary, disk, channel, proc, epoch, hb, watch, used, overran, dropped>>

---------------------------------------------------------------------------
\* A process publishes stages, and gives up once it is superseded.

Live(p) == p = Command \/ p = epoch

\* Heartbeat::enter.  A published stage starts its own clock, so a trip on the
\* one before says nothing of it.
BeatKeepsTrip(r) ==
  [stage |-> r.at, doc |-> r.doc, late |-> FALSE, tripped |-> hb.tripped]
Beat(r) == [stage |-> r.at, doc |-> r.doc, late |-> FALSE, tripped |-> FALSE]

\* StageReporter::enter, with r the state the process takes into the stage.
Enter(p, r) ==
  IF ~Live(p)
  THEN proc' = [proc EXCEPT ![p] = Rest("gone")] /\ UNCHANGED hb
  ELSE /\ proc' = [proc EXCEPT ![p] = r]
       /\ hb' = IF p = Command THEN hb ELSE Beat(r)

\* The funnel returns: a worker summarises what it ingested, then is idle.
Return(p, ok) ==
  Enter(p, IF ok /\ p # Command
           THEN [Rest("summarizing") EXCEPT !.doc = proc[p].doc] ELSE Rest("idle"))

Mine(p) == Exists(proc[p].doc) /\ row[proc[p].doc].id = proc[p].id
SetRow(p, r) == row' = [row EXCEPT ![proc[p].doc] = r]
Stay == UNCHANGED <<data, channel, epoch, watch, overran, dropped>>

\* Does any of the chunks need a vector?
NeedsEmbed(p) == proc[p].force \/ ~(ChunksOf[proc[p].text] \subseteq proc[p].stored)

\* The worker takes a job.
Receive(p) ==
  /\ p = epoch /\ proc[p].at = "idle" /\ channel # <<>>
  /\ Enter(p, [Rest("reading") EXCEPT !.doc = Head(channel).doc,
                                      !.force = Head(channel).force])
  /\ channel' = Tail(channel)
  /\ UNCHANGED <<data, row, epoch, watch, used, history>>

\* ingest_document_cmd.
StartCommand(d) ==
  /\ proc[Command].at = "idle" /\ used.commands < MaxCommands
  /\ Enter(Command, [Rest("reading") EXCEPT !.doc = d])
  /\ Spend("commands")
  /\ UNCHANGED <<data, row, channel, epoch, watch, history>>

\* Reading: the bytes are read and compared with the row.
Reading(p) ==
  LET d == proc[p].doc  r == row[d]  v == disk[d] IN
  /\ proc[p].at = "reading"
  /\ \/ v = 0 /\ Return(p, FALSE)
     \/ v # 0 /\ ~proc[p].force /\ r.status = "indexed" /\ r.hash = v /\ Return(p, TRUE)
     \/ /\ v # 0 /\ ~(~proc[p].force /\ r.status = "indexed" /\ r.hash = v)
        /\ Enter(p, [proc[p] EXCEPT !.at = "extracting", !.bytes = v,
                       !.had = Exists(d), !.id = IF Exists(d) THEN r.id ELSE 0,
                       !.staged = (r.status = "pending")])
  /\ Stay /\ UNCHANGED <<row, used, unchecked>>

\* Extracting: the text is extracted, and a new document gets its row.  The
\* bytes that were hashed are the text of a plain document; a PDF or DOCX file
\* is opened once more for it, and may have been changed or be gone by now.
Extracted(p) == IF proc[p].doc \in binary THEN disk[proc[p].doc] ELSE proc[p].bytes
Extracting(p) ==
  LET d == proc[p].doc  new == Upserted(row[d], proc[p].bytes) IN
  /\ proc[p].at = "extracting"
  /\ \/ /\ used.faults < MaxFaults /\ Spend("faults")
        /\ Return(p, FALSE) /\ UNCHANGED row
     \/ Extracted(p) = 0 /\ Return(p, FALSE) /\ UNCHANGED <<row, used>>
     \/ /\ Extracted(p) # 0
        /\ IF proc[p].had THEN UNCHANGED row ELSE SetRow(p, new)
        /\ Enter(p, [proc[p] EXCEPT !.at = "chunking", !.text = Extracted(p),
                       !.id = IF proc[p].had THEN @ ELSE new.id])
        /\ UNCHANGED used
  /\ Stay /\ UNCHANGED unchecked

\* reset_pending_row.
Reset(r) == IF r.status \in {"pending", "pending_reindex"} /\ r.last # 0
            THEN [r EXCEPT !.status = "indexed", !.hash = r.last] ELSE r
IndexedAs(r, v, cs) == [r EXCEPT !.status = "indexed", !.hash = v, !.last = v,
                                 !.chunks = cs, !.strikes = 0]

\* Chunking: a pure rechunk is refused or is a no-op, a document without
\* chunks is committed here, and anything else goes on to be embedded.
Chunking(p) ==
  LET d == proc[p].doc  r == row[d]  v == proc[p].bytes
      cs == ChunksOf[proc[p].text]
      stored == IF proc[p].had /\ Mine(p) THEN r.chunks ELSE {}
      same   == proc[p].had /\ cs # {} /\ Mine(p) /\ r.last = v
      refuse == same /\ proc[p].force /\ ~StampCurrent /\ stored # cs
      noop   == same /\ ~proc[p].force
  IN
  /\ proc[p].at = "chunking"
  /\ \/ refuse /\ SetRow(p, Reset(r)) /\ Return(p, FALSE) /\ UNCHANGED unchecked
     \/ /\ noop /\ Return(p, TRUE) /\ UNCHANGED unchecked
        /\ IF proc[p].staged THEN SetRow(p, [Reset(r) EXCEPT !.strikes = 0])
           ELSE UNCHANGED row
     \/ /\ cs = {} /\ Return(p, TRUE)
        /\ SetRow(p, IF Mine(p) THEN IndexedAs(r, v, IF proc[p].had THEN {} ELSE r.chunks)
                     ELSE [r EXCEPT !.strikes = 0])
        /\ unchecked' = IF ~Mine(p) THEN unchecked
                        ELSE IF proc[p].had THEN unchecked \ {d} ELSE unchecked \cup {d}
     \/ /\ ~refuse /\ ~noop /\ cs # {} /\ UNCHANGED <<row, unchecked>>
        /\ Enter(p, [proc[p] EXCEPT !.at = "embedding", !.stored = stored])
  /\ Stay /\ UNCHANGED used

\* Embedding: a failure keeps an existing document's row as it is.
Embedding(p) ==
  /\ proc[p].at = "embedding"
  /\ \/ /\ NeedsEmbed(p) /\ used.faults < MaxFaults /\ Spend("faults")
        /\ IF proc[p].had \/ ~Mine(p) THEN UNCHANGED row
           ELSE SetRow(p, [row[proc[p].doc] EXCEPT !.status = "error"])
        /\ Return(p, FALSE)
     \/ /\ UNCHANGED <<row, used>>
        /\ Enter(p, [proc[p] EXCEPT !.at = "committing"])
  /\ Stay /\ UNCHANGED unchecked

\* Would the transaction go through?  A replaced row has no place for the
\* chunks, and an existing document must hold what was read before embedding.
RaceFreeUnchecked(p) == Mine(p)
RaceFree(p) ==
  LET r == row[proc[p].doc] IN
  /\ Mine(p)
  /\ IF proc[p].had THEN r.chunks = proc[p].stored
     ELSE r.chunks \cap ChunksOf[proc[p].text] = {}

\* Removed chunks go, kept ones stay, new ones come.
Swapped(now, stored, cs) == (now \ (stored \ cs)) \cup cs

SwapWithoutUpsert(p) ==
  LET r == row[proc[p].doc]  cs == ChunksOf[proc[p].text]
      done == IndexedAs(r, proc[p].bytes, Swapped(r.chunks, proc[p].stored, cs)) IN
  SetRow(p, [done EXCEPT !.hash = r.hash])
Swap(p) ==
  LET r == row[proc[p].doc]  cs == ChunksOf[proc[p].text]
      done == IndexedAs(r, proc[p].bytes, Swapped(r.chunks, proc[p].stored, cs)) IN
  SetRow(p, IF proc[p].had THEN done ELSE [done EXCEPT !.hash = r.hash])

\* Committing: the swap, in one immediate transaction that may find the
\* database busy.
Committing(p) ==
  /\ proc[p].at = "committing"
  /\ \/ /\ used.faults < MaxFaults /\ Spend("faults")
        /\ Return(p, FALSE) /\ UNCHANGED <<row, unchecked>>
     \/ /\ ~RaceFree(p)
        /\ Return(p, FALSE) /\ UNCHANGED <<row, used, unchecked>>
     \/ /\ RaceFree(p) /\ Swap(p)
        /\ unchecked' = IF proc[p].had THEN unchecked \ {proc[p].doc}
                        ELSE unchecked \cup {proc[p].doc}
        /\ Return(p, TRUE) /\ UNCHANGED used
  /\ Stay

\* Summarising, linking, and back to idle.
Summarizing(p) ==
  /\ proc[p].at = "summarizing"
  /\ Enter(p, Rest("idle"))
  /\ Stay /\ UNCHANGED <<row, used, unchecked>>

Step(p) == Receive(p) \/ Reading(p) \/ Extracting(p) \/ Chunking(p)
           \/ Embedding(p) \/ Committing(p) \/ Summarizing(p)

---------------------------------------------------------------------------
\* Producers.

Orders(S) == {q \in [1..Cardinality(S) -> S] :
                \A i, j \in DOMAIN q : q[i] = q[j] => i = j}

\* How many of the documents S there is room for; and their try_send, in any
\* order.
Room(q, S) == IF Cardinality(S) <= Capacity - Len(q) THEN Cardinality(S)
              ELSE Capacity - Len(q)
Send(q, S, job, sent) ==
  /\ sent \subseteq S
  /\ Cardinality(sent) = Room(q, S)
  /\ \E o \in Orders(sent) : channel' = q \o [i \in DOMAIN o |-> job[o[i]]]

\* sweep, over the rows as they are in rows: claims of rows that left the
\* pending set expire, and what is pending and unclaimed is sent and claimed.
SweepRows(rows) ==
  LET kept == {d \in claims : Sweepable(rows[d])}
      todo == {d \in Docs : Sweepable(rows[d])} \ kept
      job == [d \in todo |->
                [doc |-> d, force |-> rows[d].status = "pending_reindex"]] IN
  \E sent \in SUBSET todo :
    /\ Send(channel, todo, job, sent)
    /\ claims' = kept \cup sent
    /\ dropped' = {d \in dropped : Sweepable(rows[d])} \ sent

\* queue_full_reindex, and run_wiki_reembed when forced: what the channel has
\* no room for is staged for the sweep.
Reindex(force) ==
  LET todo == {d \in Docs : row[d].status = "indexed" /\ disk[d] # 0}
      job == [d \in todo |-> [doc |-> d, force |-> force]] IN
  /\ used.commands < MaxCommands /\ todo # {}
  /\ \E sent \in SUBSET todo :
       /\ Send(channel, todo, job, sent)
       /\ row' = [d \in Docs |-> IF d \in todo \ sent
            THEN [row[d] EXCEPT !.status = IF force THEN "pending_reindex" ELSE "pending"]
            ELSE row[d]]
  /\ Spend("commands")
  /\ UNCHANGED <<data, proc, epoch, hb, watch, history>>

---------------------------------------------------------------------------
\* The watchdog's supervisor.

\* The heartbeat's stage exceeds its budget.
Overrun ==
  /\ hb.stage # "idle" /\ ~hb.late /\ used.overruns < MaxOverruns
  /\ hb' = [hb EXCEPT !.late = TRUE]
  /\ overran' = [overran EXCEPT ![hb.doc] = @ + 1]
  /\ Spend("overruns")
  /\ UNCHANGED <<data, row, channel, proc, epoch, watch, unchecked, dropped>>

\* A tick that sees no late stage sweeps.
Sweep ==
  /\ dog.at = "watch" /\ ~degraded /\ ~hb.late
  /\ SweepRows(row)
  /\ UNCHANGED <<data, row, proc, epoch, hb, dog, respawns, degraded, used,
                 overran, unchecked>>

\* A tick that sees a late stage for the first time trips; one that has
\* tripped on it already does nothing at all.
Trip ==
  /\ dog.at = "watch" /\ ~degraded /\ hb.late /\ ~hb.tripped
  /\ hb' = [hb EXCEPT !.tripped = TRUE]
  /\ dog' = [at |-> "replace", doc |-> hb.doc, stage |-> hb.stage]
  /\ UNCHANGED <<data, row, channel, proc, epoch, claims, respawns, degraded,
                 used, history>>

\* The supervisor adopts the new sender; the claims stood for jobs of the old.
AdoptKeepingClaims(lost) == dropped' = dropped \cup lost /\ UNCHANGED claims
Adopt(lost) == dropped' = dropped \cup lost /\ claims' = {}

\* The epoch is bumped, and a fresh worker gets a fresh channel; or there is
\* no pipeline to take one, and ingest is parked.
Replace ==
  LET onIt == {channel[i].doc : i \in DOMAIN channel} \cup
              (IF proc[epoch].at \in Working THEN {proc[epoch].doc} ELSE {})
      lost == {d \in onIt : Sweepable(row[d])}
      out  == [proc EXCEPT ![epoch] = IF @.at = "idle" THEN Rest("gone") ELSE @]
  IN
  /\ dog.at = "replace"
  /\ epoch' = epoch + 1
  /\ channel' = <<>>
  /\ \/ /\ proc' = [out EXCEPT ![epoch + 1] = Rest("idle")]
        /\ Adopt(lost)
        /\ dog' = [dog EXCEPT !.at = "blame"]
        /\ UNCHANGED <<degraded, used>>
     \/ /\ used.faults < MaxFaults /\ Spend("faults")
        /\ proc' = out /\ degraded' = TRUE
        /\ dog' = Watching
        /\ UNCHANGED <<claims, dropped>>
  /\ UNCHANGED <<data, row, hb, respawns, overran, unchecked>>

\* Stages whose dependency is probed before the document is blamed.
Probed == {"embedding", "summarizing", "committing"}

StruckOnce(r) == [r EXCEPT !.strikes = @ + 1, !.quarantined = r.status # "none"]
Struck(r) == [r EXCEPT !.strikes = @ + 1,
                !.quarantined = @ \/ (r.status # "none" /\ r.strikes + 1 >= 2)]

\* Probe, strike, count the respawn against the cap, and sweep.
Blame ==
  /\ dog.at = "blame"
  /\ \E healthy \in IF dog.stage \in Probed THEN BOOLEAN ELSE {TRUE} :
       row' = IF healthy THEN [row EXCEPT ![dog.doc] = Struck(@)] ELSE row
  /\ respawns' = respawns + 1
  /\ dog' = Watching
  /\ UNCHANGED <<data, proc, epoch, hb, used, overran, unchecked>>
  /\ \/ respawns' >= RespawnCap /\ degraded' = TRUE
        /\ UNCHANGED <<channel, claims, dropped>>
     \/ respawns' < RespawnCap /\ UNCHANGED degraded /\ SweepRows(row')

---------------------------------------------------------------------------
Next ==
  \/ \E d \in Docs : Edit(d) \/ Watch(d) \/ StartCommand(d)
  \/ \E force \in BOOLEAN : Reindex(force)
  \/ \E p \in Procs : Step(p)
  \/ Overrun \/ Sweep \/ Trip \/ Replace \/ Blame

Spec == Init /\ [][Next]_vars

\* The supervisor ticks and the watcher delivers; the current worker takes
\* jobs when it is idle, and runs on as long as its stage is not late.  A late
\* worker, or a replaced one, may be wedged for good.
Prompt(p) == p = epoch /\ (~hb.late \/ proc[p].at = "idle") /\ Step(p)

FairSpec ==
  /\ Spec
  /\ WF_vars(Sweep) /\ WF_vars(Trip) /\ WF_vars(Replace) /\ WF_vars(Blame)
  /\ \A d \in Docs : WF_vars(Watch(d))
  /\ \A p \in Workers : WF_vars(Prompt(p))

---------------------------------------------------------------------------
\* Properties.

\* However a replaced worker, its replacement and the ingest command race, a
\* document's chunks are those of one content (or those an earlier chunker
\* left), never a mixture: the swap aborts when the chunks it was computed from
\* have changed.  A plain document's are those of the content its
\* last_indexed_hash names.  Documents whose last swap was a new document's,
\* which makes no such check, are excepted.
Whole(r, vs) == IF r.last = 0 THEN r.chunks = {}
                ELSE r.chunks \in {ChunksOf[v] : v \in vs} \cup {OldChunks}
IndexIsOneVersion ==
  \A d \in Docs \ unchecked :
    Whole(row[d], IF d \in binary THEN Versions ELSE {row[d].last})

\* What db/queries.rs says of last_indexed_hash, "the hash of the bytes ACTUALLY
\* chunked and embedded", for every document, PDF and DOCX files included.  It
\* is not so, and no run claims it (README, divergences).
HashIsOfWhatIsChunked == \A d \in Docs \ unchecked : Whole(row[d], {row[d].last})

\* A row that counts as indexed records the hash of what is indexed, though
\* the watcher writes the hash too, at any moment of an ingest: otherwise
\* the unchanged-file check would skip the document for ever.  The same
\* documents are excepted.
IndexedHashIsCurrent ==
  \A d \in Docs \ unchecked : row[d].status = "indexed" => row[d].hash = row[d].last

\* A document has no more strikes than stages it overran, so none is
\* quarantined before its second overrun, whatever the worker does between
\* the supervisor's snapshot and its verdict.
BlamedForItsOwn ==
  \A d \in Docs : /\ row[d].strikes <= overran[d]
                  /\ row[d].quarantined => overran[d] >= 2

\* The supervisor never takes a new wedge for the one it has tripped on: while
\* it watches, a current worker that is late in its stage has not been tripped
\* on, so the next tick replaces it.
NewWedgeIsSeen ==
  (dog.at = "watch" /\ ~degraded /\ hb.late /\ proc[epoch].at \in Working)
    => ~hb.tripped

\* No claim stands for a job that went down with a replaced worker's channel:
\* the sweep would skip its document, which nothing else sends.
ClaimsOutliveNoChannel == claims \cap dropped = {}

\* "Without this ... a path swept once is skipped by every later sweep, which
\* disables the backstop" (sweep.rs): a pending document is ingested, fails,
\* or is quarantined, unless ingest is parked.
PendingIsSwept ==
  \A d \in Docs :
    row[d].status = "pending"
      ~> (row[d].status # "pending" \/ row[d].quarantined \/ degraded)
=============================================================================
