------------------------ MODULE IngestPipelineProofs ------------------------
(***************************************************************************)
(* What the run IngestRaces checks for one document and two respawns,      *)
(* proved for any number of documents, contents, respawns, edits, overruns *)
(* and failures.                                                           *)
(***************************************************************************)
EXTENDS IngestPipeline, FiniteSetTheorems, TLAPS

(* A process past its reading stage holds the bytes of some content, and   *)
(* past the next one the text of some content: of a plain document's       *)
(* bytes, those very ones.                                                 *)
Holds(r, B) ==
  /\ r.at \in {"extracting", "chunking", "embedding", "committing"}
       => r.bytes \in Versions
  /\ r.at \in {"chunking", "embedding", "committing"}
       => r.text \in Versions /\ (r.doc \in B \/ r.text = r.bytes)
HoldsBytes == \A p \in Procs : Holds(proc[p], binary)

(* A trip under way, or a late stage the supervisor has yet to see, stands *)
(* for an overrun that no strike has been given for.                       *)
Late(d)     == IF hb.late /\ ~hb.tripped /\ hb.doc = d THEN 1 ELSE 0
UnderWay(d) == IF dog.at # "watch" /\ dog.doc = d THEN 1 ELSE 0

(* Every epoch but the first is a respawn, counted when the trip is over.  *)
Counted ==
  /\ dog.at # "watch" => ~degraded
  /\ ~degraded => /\ respawns < RespawnCap
                  /\ epoch = respawns + IF dog.at = "blame" THEN 2 ELSE 1

Bounded ==
  /\ used \in [edits : Nat, overruns : Nat, faults : Nat, commands : Nat]
  /\ used.overruns <= MaxOverruns
  /\ \A d \in Docs : overran[d] <= used.overruns

Sound == TypeOK /\ HoldsBytes /\ Counted /\ Bounded

(* The stage the supervisor tripped on is the old worker's: its successor  *)
(* has published nothing yet.                                              *)
TrippedOnOld ==
  (hb.tripped /\ dog.at # "replace" /\ ~degraded) => proc[epoch].at = "idle"

Blamed ==
  \A d \in Docs : /\ row[d].strikes + UnderWay(d) + Late(d) <= overran[d]
                  /\ row[d].quarantined => overran[d] >= 2

-----------------------------------------------------------------------------
(* Entering a stage: a process that is not the current worker leaves the   *)
(* heartbeat alone, and the current worker's own entry clears it.          *)
LEMMA Entered ==
  ASSUME TypeOK, HoldsBytes, NEW p \in Procs, NEW r \in States, r.at # "gone",
         Holds(r, binary),
         Enter(p, r)
  PROVE  /\ proc' \in [Procs -> States]
         /\ hb' \in [stage : Working \cup {"idle"}, doc : Docs, late : BOOLEAN,
                     tripped : BOOLEAN]
         /\ \A q \in Procs : Holds(proc'[q], binary)
         /\ p = epoch => ~hb'.late /\ ~hb'.tripped
         /\ p # epoch => hb' = hb /\ proc'[epoch] = proc[epoch]
<1>1. epoch \in Nat \ {0} /\ epoch \in Procs /\ Command \notin Workers
  BY DEF TypeOK, Workers, Procs, Command
<1>2. Rest("gone") \in States /\ Rest("gone").at = "gone" /\ Holds(Rest("gone"), binary)
  BY IngestAssumption DEF Rest, States, AnyDoc, Holds
<1>3. CASE ~Live(p)
  BY <1>1, <1>2, <1>3 DEF Enter, Live, TypeOK, HoldsBytes
<1>4. CASE Live(p)
  <2>1. proc' = [proc EXCEPT ![p] = r]  BY <1>4 DEF Enter
  <2>2. hb' = IF p = Command THEN hb ELSE Beat(r)  BY <1>4 DEF Enter
  <2>3. r.at \in Working \cup {"idle"} /\ r.doc \in Docs  BY DEF States
  <2>4. Beat(r) \in [stage : Working \cup {"idle"}, doc : Docs, late : BOOLEAN,
                     tripped : BOOLEAN] /\ ~Beat(r).late /\ ~Beat(r).tripped
    BY <2>3 DEF Beat
  <2>5. p # Command => p = epoch  BY <1>4 DEF Live
  <2>6. p = Command => p # epoch  BY <1>1 DEF Command
  <2>7. hb \in [stage : Working \cup {"idle"}, doc : Docs, late : BOOLEAN,
                     tripped : BOOLEAN] BY DEF TypeOK
  <2>8. proc \in [Procs -> States]  BY DEF TypeOK
  <2>9. \A q \in Procs : Holds(proc'[q], binary)
    BY <2>1, <2>8 DEF HoldsBytes
  <2> QED  BY <1>1, <2>1, <2>2, <2>4, <2>5, <2>6, <2>7, <2>8, <2>9
<1> QED  BY <1>3, <1>4

LEMMA Resting == Rest("idle") \in States /\ Rest("idle").at = "idle"
BY IngestAssumption DEF Rest, States, AnyDoc

(* What every step of a process does: it enters a stage, and may rewrite   *)
(* its document's row, never adding a strike or a quarantine.              *)
Milder(r, s) == r.strikes <= s.strikes /\ (r.quarantined => s.quarantined)

LEMMA InsertedTyped ==
  ASSUME NEW r \in Rows, NEW w \in Versions \cup {0}
  PROVE  /\ Inserted(r, w) \in Rows
         /\ Inserted(r, w).strikes = r.strikes /\ ~Inserted(r, w).quarantined
<1> DEFINE i == [r EXCEPT !.id = @ + 1, !.status = "pending", !.hash = w]
<1>1. i \in Rows /\ i.strikes = r.strikes
  <2>1. r.id + 1 \in Nat  BY DEF Rows
  <2>2. PICK n \in Nat : n = r.id + 1  BY <2>1
  <2>3. i = [r EXCEPT !.id = n, !.status = "pending", !.hash = w]  BY <2>2
  <2>4. "pending" \in Statuses  BY DEF Statuses
  <2> QED  BY <2>3, <2>4 DEF Rows
<1>2. Inserted(r, w) = [i EXCEPT !.last = 0, !.chunks = {}, !.quarantined = FALSE]
  BY DEF Inserted
<1> HIDE DEF i
<1>3. /\ [i EXCEPT !.last = 0, !.chunks = {}, !.quarantined = FALSE] \in Rows
      /\ [i EXCEPT !.last = 0, !.chunks = {}, !.quarantined = FALSE].strikes = i.strikes
      /\ ~[i EXCEPT !.last = 0, !.chunks = {}, !.quarantined = FALSE].quarantined
  BY <1>1 DEF Rows
<1> QED  BY <1>1, <1>2, <1>3

LEMMA RowFunctions ==
  ASSUME NEW r \in Rows, NEW v \in Versions, NEW cs \in SUBSET Chunks
  PROVE  /\ Upserted(r, v) \in Rows /\ Milder(Upserted(r, v), r)
         /\ IndexedAs(r, v, cs) \in Rows /\ Milder(IndexedAs(r, v, cs), r)
         /\ Reset(r) \in Rows /\ Milder(Reset(r), r)
         /\ Deleted(r) \in Rows /\ Milder(Deleted(r), r)
<1>1. /\ r.id \in Nat /\ r.strikes \in Nat /\ r.quarantined \in BOOLEAN
      /\ r.status \in Statuses /\ r.hash \in Versions \cup {0}
      /\ r.last \in Versions \cup {0} /\ r.chunks \in SUBSET Chunks
      /\ r = [id |-> r.id, status |-> r.status, hash |-> r.hash, last |-> r.last,
              chunks |-> r.chunks, quarantined |-> r.quarantined, strikes |-> r.strikes]
  BY DEF Rows
<1>2. {"none", "pending", "indexed"} \subseteq Statuses  BY DEF Statuses
<1>3. \A w \in Versions \cup {0} :
        /\ Inserted(r, w) \in Rows
        /\ Inserted(r, w).strikes = r.strikes /\ ~Inserted(r, w).quarantined
  BY InsertedTyped
<1>4. Deleted(r) \in Rows /\ Deleted(r).strikes = r.strikes /\ ~Deleted(r).quarantined
  <2> DEFINE i == Inserted(r, 0)
  <2>1. i \in Rows /\ i.strikes = r.strikes /\ ~i.quarantined  BY <1>3
  <2>2. Deleted(r) = [i EXCEPT !.id = r.id, !.status = "none"]  BY DEF Deleted
  <2> HIDE DEF i
  <2> QED  BY <1>1, <1>2, <2>1, <2>2 DEF Rows
<1>5. /\ Upserted(r, v) \in Rows /\ Upserted(r, v).strikes = r.strikes
      /\ Upserted(r, v).quarantined => r.quarantined
  <2>1. CASE r.status = "none"  BY <1>3, <2>1 DEF Upserted
  <2>2. CASE r.status # "none"  BY <1>1, <1>2, <2>2 DEF Upserted, Rows
  <2> QED  BY <2>1, <2>2
<1>6. /\ IndexedAs(r, v, cs) \in Rows /\ IndexedAs(r, v, cs).strikes = 0
      /\ IndexedAs(r, v, cs).quarantined = r.quarantined
  BY <1>1, <1>2 DEF IndexedAs, Rows
<1>7. /\ Reset(r) \in Rows /\ Reset(r).strikes = r.strikes
      /\ Reset(r).quarantined = r.quarantined
  BY <1>1, <1>2 DEF Reset, Rows
<1> QED  BY <1>1, <1>4, <1>5, <1>6, <1>7 DEF Milder

LEMMA RowSet ==
  ASSUME TypeOK, NEW p \in Procs, NEW r \in Rows,
         Milder(r, row[proc[p].doc]), SetRow(p, r)
  PROVE  /\ row' \in [Docs -> Rows]
         /\ \A d \in Docs : Milder(row'[d], row[d])
<1>1. proc[p].doc \in Docs /\ row \in [Docs -> Rows]  BY DEF TypeOK, States
<1>2. \A d \in Docs : row[d].strikes \in Nat  BY <1>1 DEF Rows
<1> QED  BY <1>1, <1>2 DEF SetRow, Milder

LEMMA RowKept ==
  ASSUME TypeOK, UNCHANGED row
  PROVE  /\ row' \in [Docs -> Rows]
         /\ \A d \in Docs : Milder(row'[d], row[d])
BY DEF TypeOK, Milder, Rows

LEMMA ChunksTyped == \A v \in Versions : ChunksOf[v] \in SUBSET Chunks
BY DEF Chunks

(* The effect of a step, in the terms the invariants need.                 *)
StepEffect(p) ==
  /\ proc' \in [Procs -> States]
  /\ hb' \in [stage : Working \cup {"idle"}, doc : Docs, late : BOOLEAN,
               tripped : BOOLEAN]
  /\ HoldsBytes'
  /\ p = epoch => ~hb'.late /\ ~hb'.tripped
  /\ p # epoch => hb' = hb /\ proc'[epoch] = proc[epoch]
  /\ row' \in [Docs -> Rows] /\ \A d \in Docs : Milder(row'[d], row[d])
  /\ channel' \in Seq(Jobs) /\ Len(channel') <= Capacity
  /\ unchecked' \in SUBSET Docs
  /\ used' \in [edits : Nat, overruns : Nat, faults : Nat, commands : Nat]
  /\ used'.overruns = used.overruns
  /\ UNCHANGED <<data, epoch, watch, overran, dropped>>

LEMMA Returned ==
  ASSUME TypeOK, HoldsBytes, NEW p \in Procs, NEW ok \in BOOLEAN, Return(p, ok),
         binary' = binary
  PROVE  /\ proc' \in [Procs -> States]
         /\ hb' \in [stage : Working \cup {"idle"}, doc : Docs, late : BOOLEAN,
                      tripped : BOOLEAN]
         /\ HoldsBytes'
         /\ p = epoch => ~hb'.late /\ ~hb'.tripped
         /\ p # epoch => hb' = hb /\ proc'[epoch] = proc[epoch]
<1> DEFINE r == IF ok /\ p # Command
                THEN [Rest("summarizing") EXCEPT !.doc = proc[p].doc] ELSE Rest("idle")
<1>1. r \in States /\ r.at \in {"summarizing", "idle"}
  BY IngestAssumption, Resting DEF Rest, States, AnyDoc, TypeOK, Working
<1>2. Enter(p, r)  BY DEF Return
<1>3. Holds(r, binary)  BY <1>1 DEF Holds
<1> HIDE DEF r
<1> QED  BY <1>1, <1>2, <1>3, Entered DEF HoldsBytes

LEMMA Spent ==
  ASSUME Bounded, NEW w \in {"edits", "faults", "commands"}, Spend(w)
  PROVE  /\ used' \in [edits : Nat, overruns : Nat, faults : Nat, commands : Nat]
         /\ used'.overruns = used.overruns
<1>1. CASE w = "edits"  BY <1>1 DEF Bounded, Spend
<1>2. CASE w = "faults"  BY <1>2 DEF Bounded, Spend
<1>3. CASE w = "commands"  BY <1>3 DEF Bounded, Spend
<1> QED  BY <1>1, <1>2, <1>3

LEMMA DoReceive ==
  ASSUME Sound, NEW p \in Procs, Receive(p)
  PROVE  StepEffect(p)
<1> USE DEF Sound
<1>1. Head(channel) \in Jobs /\ Tail(channel) \in Seq(Jobs)
      /\ Len(Tail(channel)) <= Capacity
  BY IngestAssumption DEF Receive, TypeOK
<1>2. [Rest("reading") EXCEPT !.doc = Head(channel).doc, !.force = Head(channel).force]
        \in States
  BY <1>1, IngestAssumption DEF Rest, States, AnyDoc, Jobs, Working
<1>3. Holds([Rest("reading") EXCEPT !.doc = Head(channel).doc, !.force = Head(channel).force], binary)
  BY DEF Rest, Holds
<1> QED
  BY <1>1, <1>2, <1>3, Entered, RowKept
  DEF Receive, StepEffect, Rest, HoldsBytes, TypeOK, Bounded, data, watch, history

LEMMA DoReading ==
  ASSUME Sound, NEW p \in Procs, Reading(p)
  PROVE  StepEffect(p)
<1> USE DEF Sound
<1> DEFINE d == proc[p].doc
           s == [proc[p] EXCEPT !.at = "extracting", !.bytes = disk[d],
                       !.had = Exists(d), !.id = IF Exists(d) THEN row[d].id ELSE 0,
                       !.staged = (row[d].status = "pending")]
<1>1. UNCHANGED <<data, channel, epoch, watch, overran, dropped, row, used, unchecked>>
  BY DEF Reading, Stay
<1>2. CASE \E ok \in BOOLEAN : Return(p, ok)
  BY <1>1, <1>2, Returned, RowKept DEF StepEffect, TypeOK, Bounded, data
<1>3. CASE disk[d] # 0 /\ Enter(p, s)
  <2>1. proc[p] \in States /\ d \in Docs /\ disk[d] \in Versions
        /\ row[d].id \in Nat /\ Exists(d) \in BOOLEAN
    BY <1>3 DEF TypeOK, States, Rows, Exists
  <2>2. s \in States /\ s.at = "extracting" /\ s.bytes \in Versions
    BY <2>1 DEF States, Working
  <2>3. Holds(s, binary)  BY <2>2 DEF Holds
  <2> HIDE DEF s
  <2> QED  BY <1>1, <1>3, <2>2, <2>3, Entered, RowKept
           DEF StepEffect, TypeOK, Bounded, HoldsBytes, data
<1> QED  BY <1>2, <1>3 DEF Reading

(* The steps that end by entering a stage, with the row that they leave.   *)
LEMMA EnterEffect ==
  ASSUME Sound, NEW p \in Procs, NEW s \in States, s.at # "gone", Holds(s, binary),
         Enter(p, s), Stay,
         row' \in [Docs -> Rows], \A d \in Docs : Milder(row'[d], row[d]),
         unchecked' \in SUBSET Docs,
         used' \in [edits : Nat, overruns : Nat, faults : Nat, commands : Nat],
         used'.overruns = used.overruns
  PROVE  StepEffect(p)
BY Entered DEF StepEffect, Stay, Sound, HoldsBytes, TypeOK, data

LEMMA ReturnEffect ==
  ASSUME Sound, NEW p \in Procs, NEW ok \in BOOLEAN, Return(p, ok), Stay,
         row' \in [Docs -> Rows], \A d \in Docs : Milder(row'[d], row[d]),
         unchecked' \in SUBSET Docs,
         used' \in [edits : Nat, overruns : Nat, faults : Nat, commands : Nat],
         used'.overruns = used.overruns
  PROVE  StepEffect(p)
BY Returned DEF StepEffect, Stay, Sound, TypeOK, data

LEMMA UsedKept ==
  ASSUME Bounded, UNCHANGED used
  PROVE  /\ used' \in [edits : Nat, overruns : Nat, faults : Nat, commands : Nat]
         /\ used'.overruns = used.overruns
BY DEF Bounded

LEMMA AtStage ==
  ASSUME Sound, NEW p \in Procs
  PROVE  /\ proc[p] \in States /\ proc[p].doc \in Docs /\ proc[p].had \in BOOLEAN
         /\ row[proc[p].doc] \in Rows
         /\ Holds(proc[p], binary)
         /\ proc[p].at \in {"extracting", "chunking", "embedding", "committing"}
              => proc[p].bytes \in Versions
         /\ proc[p].at \in {"chunking", "embedding", "committing"}
              => /\ proc[p].text \in Versions
                 /\ proc[p].doc \in binary \/ proc[p].text = proc[p].bytes
                 /\ ChunksOf[proc[p].text] \in SUBSET Chunks
BY ChunksTyped DEF Sound, TypeOK, HoldsBytes, Holds, States

LEMMA DoExtracting ==
  ASSUME Sound, NEW p \in Procs, Extracting(p)
  PROVE  StepEffect(p)
<1> DEFINE d   == proc[p].doc
           new == Upserted(row[d], proc[p].bytes)
           s   == [proc[p] EXCEPT !.at = "chunking", !.text = Extracted(p),
                     !.id = IF proc[p].had THEN @ ELSE new.id]
<1>1. proc[p].bytes \in Versions /\ new \in Rows /\ Milder(new, row[d])
  BY AtStage, RowFunctions DEF Extracting
<1>2. unchecked' \in SUBSET Docs /\ Stay  BY DEF Extracting, Sound, TypeOK
<1>3. CASE Spend("faults") /\ Return(p, FALSE) /\ UNCHANGED row
  BY <1>2, <1>3, ReturnEffect, RowKept, Spent DEF Sound
<1>4. CASE Return(p, FALSE) /\ UNCHANGED <<row, used>>
  BY <1>2, <1>4, ReturnEffect, RowKept, UsedKept DEF Sound
<1>5. CASE /\ IF proc[p].had THEN UNCHANGED row ELSE SetRow(p, new)
           /\ Enter(p, s) /\ UNCHANGED used /\ Extracted(p) # 0
  <2>1. row' \in [Docs -> Rows] /\ \A e \in Docs : Milder(row'[e], row[e])
    BY <1>1, <1>5, RowKept, RowSet DEF Sound
  <2>2. /\ Extracted(p) \in Versions
        /\ proc[p].doc \in binary \/ Extracted(p) = proc[p].bytes
    BY <1>1, <1>5, AtStage DEF Extracted, Sound, TypeOK
  <2>3. /\ s \in States /\ s.at = "chunking" /\ s.bytes = proc[p].bytes
        /\ s.text = Extracted(p) /\ s.doc = proc[p].doc
    <3>1. proc[p] \in States  BY AtStage
    <3>2. new.id \in Nat  BY <1>1 DEF Rows
    <3>3. PICK t \in Versions : t = Extracted(p)  BY <2>2
    <3>4. s = [proc[p] EXCEPT !.at = "chunking", !.text = t,
                 !.id = IF proc[p].had THEN @ ELSE new.id]
      BY <3>3
    <3> HIDE DEF new, s
    <3> QED  BY <3>1, <3>2, <3>3, <3>4 DEF States, Working
  <2>4. Holds(s, binary)  BY <1>1, <2>2, <2>3 DEF Holds
  <2> HIDE DEF s
  <2> QED  BY <1>2, <1>5, <2>1, <2>3, <2>4, EnterEffect, UsedKept DEF Sound
<1> QED  BY <1>3, <1>4, <1>5 DEF Extracting

LEMMA DoChunking ==
  ASSUME Sound, NEW p \in Procs, Chunking(p)
  PROVE  StepEffect(p)
<1> DEFINE d == proc[p].doc  r == row[d]  v == proc[p].bytes
           cs == ChunksOf[proc[p].text]
           stored == IF proc[p].had /\ Mine(p) THEN r.chunks ELSE {}
<1>1. /\ v \in Versions /\ cs \in SUBSET Chunks /\ r \in Rows /\ d \in Docs
      /\ proc[p] \in States
  BY AtStage DEF Chunking
<1>2. v \in Versions /\ proc[p].text \in Versions /\ (d \in binary \/ proc[p].text = v)
  BY AtStage DEF Chunking
<1>3. Stay /\ UNCHANGED used  BY DEF Chunking
<1>4. CASE SetRow(p, Reset(r)) /\ Return(p, FALSE) /\ UNCHANGED unchecked
  <2>1. Reset(r) \in Rows /\ Milder(Reset(r), r)  BY <1>1, RowFunctions
  <2> QED  BY <1>3, <1>4, <2>1, ReturnEffect, RowSet, UsedKept DEF Sound, TypeOK
<1>5. CASE /\ Return(p, TRUE) /\ UNCHANGED unchecked
           /\ IF proc[p].staged THEN SetRow(p, [Reset(r) EXCEPT !.strikes = 0])
              ELSE UNCHANGED row
  <2>1. Reset(r) \in Rows /\ Milder(Reset(r), r)  BY <1>1, RowFunctions
  <2>2. /\ [Reset(r) EXCEPT !.strikes = 0] \in Rows
        /\ Milder([Reset(r) EXCEPT !.strikes = 0], r)
    <3> HIDE DEF r
    <3> QED  BY <1>1, <2>1 DEF Rows, Milder
  <2>3. row' \in [Docs -> Rows] /\ \A e \in Docs : Milder(row'[e], row[e])
    BY <1>5, <2>2, RowKept, RowSet DEF Sound
  <2> QED  BY <1>3, <1>5, <2>3, ReturnEffect, UsedKept DEF Sound, TypeOK
<1>6. CASE /\ Return(p, TRUE)
           /\ SetRow(p, IF Mine(p) THEN IndexedAs(r, v, IF proc[p].had THEN {} ELSE r.chunks)
                        ELSE [r EXCEPT !.strikes = 0])
           /\ unchecked' \in SUBSET Docs
  <2>1. r.chunks \in SUBSET Chunks  BY <1>1 DEF Rows
  <2>2. \A c \in SUBSET Chunks : IndexedAs(r, v, c) \in Rows /\ Milder(IndexedAs(r, v, c), r)
    BY <1>1, RowFunctions
  <2>3. [r EXCEPT !.strikes = 0] \in Rows /\ Milder([r EXCEPT !.strikes = 0], r)
    <3> HIDE DEF r
    <3> QED  BY <1>1 DEF Rows, Milder
  <2> DEFINE new == IF Mine(p) THEN IndexedAs(r, v, IF proc[p].had THEN {} ELSE r.chunks)
                    ELSE [r EXCEPT !.strikes = 0]
  <2>4. new \in Rows /\ Milder(new, r)
    <3>1. (IF proc[p].had THEN {} ELSE r.chunks) \in SUBSET Chunks  BY <2>1
    <3> QED  BY <2>2, <2>3, <3>1
  <2>5. SetRow(p, new)  BY <1>6
  <2> HIDE DEF new
  <2> QED  BY <1>3, <1>6, <2>4, <2>5, ReturnEffect, RowSet, UsedKept DEF Sound
<1>7. CASE /\ UNCHANGED <<row, unchecked>>
           /\ Enter(p, [proc[p] EXCEPT !.at = "embedding", !.stored = stored])
  <2>1. stored \in SUBSET Chunks  BY <1>1 DEF Rows
  <2> DEFINE s == [proc[p] EXCEPT !.at = "embedding", !.stored = stored]
  <2>2. /\ s \in States /\ s.at = "embedding" /\ s.bytes = v
        /\ s.text = proc[p].text /\ s.doc = d
    <3> HIDE DEF stored
    <3> QED  BY <1>1, <2>1 DEF States, Working
  <2>3. Enter(p, s)  BY <1>7
  <2>4. Holds(s, binary)  BY <1>2, <2>2 DEF Holds
  <2> HIDE DEF s
  <2> QED  BY <1>3, <1>7, <2>2, <2>3, <2>4, EnterEffect, RowKept, UsedKept DEF Sound, TypeOK
<1>8. unchecked \in SUBSET Docs  BY DEF Sound, TypeOK
<1> QED  BY <1>1, <1>4, <1>5, <1>6, <1>7, <1>8 DEF Chunking

LEMMA DoEmbedding ==
  ASSUME Sound, NEW p \in Procs, Embedding(p)
  PROVE  StepEffect(p)
<1> DEFINE d == proc[p].doc
           new == [row[d] EXCEPT !.status = "error"]
           s == [proc[p] EXCEPT !.at = "committing"]
<1>1. unchecked' \in SUBSET Docs /\ Stay  BY DEF Embedding, Sound, TypeOK
<1>2. /\ proc[p] \in States /\ row[d] \in Rows
      /\ proc[p].bytes \in Versions /\ proc[p].text \in Versions
      /\ d \in binary \/ proc[p].text = proc[p].bytes
  BY AtStage DEF Embedding
<1>3. CASE /\ Spend("faults") /\ Return(p, FALSE)
           /\ IF proc[p].had \/ ~Mine(p) THEN UNCHANGED row ELSE SetRow(p, new)
  <2>1. new \in Rows /\ Milder(new, row[d])  BY <1>2 DEF Rows, Statuses, Milder
  <2>2. row' \in [Docs -> Rows] /\ \A e \in Docs : Milder(row'[e], row[e])
    BY <1>3, <2>1, RowKept, RowSet DEF Sound
  <2> QED  BY <1>1, <1>3, <2>2, ReturnEffect, Spent DEF Sound
<1>4. CASE UNCHANGED <<row, used>> /\ Enter(p, s)
  <2>1. /\ s \in States /\ s.at = "committing" /\ s.bytes = proc[p].bytes
        /\ s.text = proc[p].text /\ s.doc = d
    BY <1>2 DEF States, Working
  <2>2. Holds(s, binary)  BY <1>2, <2>1 DEF Holds
  <2> HIDE DEF s
  <2> QED  BY <1>1, <1>4, <2>1, <2>2, EnterEffect, RowKept, UsedKept DEF Sound
<1> QED  BY <1>3, <1>4 DEF Embedding

LEMMA DoCommitting ==
  ASSUME Sound, NEW p \in Procs, Committing(p)
  PROVE  StepEffect(p)
<1> DEFINE d == proc[p].doc  r == row[d]  v == proc[p].bytes
           cs == Swapped(r.chunks, proc[p].stored, ChunksOf[proc[p].text])
<1>1. Stay  BY DEF Committing
<1>2. /\ v \in Versions /\ ChunksOf[proc[p].text] \in SUBSET Chunks /\ r \in Rows
      /\ proc[p] \in States /\ d \in Docs
  BY AtStage DEF Committing
<1>3. CASE UNCHANGED <<row, unchecked>> /\ Return(p, FALSE) /\ Spend("faults")
  BY <1>1, <1>3, ReturnEffect, RowKept, Spent DEF Sound, TypeOK
<1>4. CASE UNCHANGED <<row, unchecked>> /\ Return(p, FALSE) /\ UNCHANGED used
  BY <1>1, <1>4, ReturnEffect, RowKept, UsedKept DEF Sound, TypeOK
<1>5. CASE /\ Swap(p) /\ Return(p, TRUE) /\ UNCHANGED used
           /\ unchecked' \in SUBSET Docs
  <2>1. cs \in SUBSET Chunks /\ r.hash \in Versions \cup {0}
    BY <1>2 DEF Rows, States, Swapped
  <2> DEFINE done == IndexedAs(r, v, cs)
             new == IF proc[p].had THEN done ELSE [done EXCEPT !.hash = r.hash]
  <2>2. done \in Rows /\ Milder(done, r)  BY <1>2, <2>1, RowFunctions
  <2>3. new \in Rows /\ Milder(new, r)
    <3> HIDE DEF done, r
    <3> QED  BY <2>1, <2>2 DEF Rows, Milder
  <2>4. SetRow(p, new)  BY <1>5 DEF Swap
  <2> HIDE DEF new
  <2> QED  BY <1>1, <1>5, <2>3, <2>4, ReturnEffect, RowSet, UsedKept DEF Sound
<1>6. unchecked \in SUBSET Docs  BY DEF Sound, TypeOK
<1> QED  BY <1>2, <1>3, <1>4, <1>5, <1>6 DEF Committing

LEMMA DoSummarizing ==
  ASSUME Sound, NEW p \in Procs, Summarizing(p)
  PROVE  StepEffect(p)
<1>1. Holds(Rest("idle"), binary)  BY DEF Rest, Holds
<1> QED
  BY <1>1, Resting, EnterEffect, RowKept, UsedKept DEF Summarizing, Sound, TypeOK

LEMMA DoStep ==
  ASSUME Sound, NEW p \in Procs, Step(p)
  PROVE  StepEffect(p)
BY DoReceive, DoReading, DoExtracting, DoChunking, DoEmbedding, DoCommitting,
   DoSummarizing DEF Step

-----------------------------------------------------------------------------
(* Producers never overfill the channel.                                   *)
LEMMA Sends ==
  ASSUME channel \in Seq(Jobs), Len(channel) <= Capacity,
         NEW S \in SUBSET Docs, NEW sent \in SUBSET S,
         Cardinality(sent) = Room(channel, S),
         NEW o \in Orders(sent), NEW f \in [DOMAIN o -> Jobs],
         channel' = channel \o f
  PROVE  channel' \in Seq(Jobs) /\ Len(channel') <= Capacity
<1>1. IsFiniteSet(sent) /\ IsFiniteSet(S)
  BY IngestAssumption, FS_Subset
<1>2. Cardinality(sent) \in Nat /\ Cardinality(S) \in Nat
  BY <1>1, FS_CardinalityType
<1>3. DOMAIN o = 1..Cardinality(sent)  BY DEF Orders
<1>4. f \in Seq(Jobs) /\ Len(f) = Cardinality(sent)  BY <1>2, <1>3
<1>5. Len(channel) \in Nat /\ Capacity \in Nat  BY IngestAssumption
<1>6. Cardinality(sent) <= Capacity - Len(channel)
  BY <1>2, <1>5 DEF Room
<1> QED  BY <1>2, <1>4, <1>5, <1>6

LEMMA Swept ==
  ASSUME TypeOK, NEW rows \in [Docs -> Rows], SweepRows(rows)
  PROVE  /\ channel' \in Seq(Jobs) /\ Len(channel') <= Capacity
         /\ claims' \subseteq Docs /\ dropped' \subseteq Docs
<1> DEFINE kept == {d \in claims : Sweepable(rows[d])}
           todo == {d \in Docs : Sweepable(rows[d])} \ kept
           job == [d \in todo |->
                    [doc |-> d, force |-> rows[d].status = "pending_reindex"]]
<1>1. PICK sent \in SUBSET todo :
        /\ Send(channel, todo, job, sent)
        /\ claims' = kept \cup sent
        /\ dropped' = {d \in dropped : Sweepable(rows[d])} \ sent
  BY DEF SweepRows
<1>2. PICK o \in Orders(sent) : channel' = channel \o [i \in DOMAIN o |-> job[o[i]]]
  BY <1>1 DEF Send
<1>3. Cardinality(sent) = Room(channel, todo)  BY <1>1 DEF Send
<1>4. todo \in SUBSET Docs /\ sent \in SUBSET todo  OBVIOUS
<1>5. [i \in DOMAIN o |-> job[o[i]]] \in [DOMAIN o -> Jobs]
  <2>1. \A i \in DOMAIN o : o[i] \in todo  BY <1>4 DEF Orders
  <2>2. \A d \in todo : job[d] \in Jobs  BY <1>4 DEF Jobs
  <2> HIDE DEF todo, job
  <2> QED  BY <2>1, <2>2
<1>6. channel \in Seq(Jobs) /\ Len(channel) <= Capacity  BY DEF TypeOK
<1>7. claims' \subseteq Docs /\ dropped' \subseteq Docs  BY <1>1, <1>4 DEF TypeOK
<1> HIDE DEF todo, kept, job
<1> QED  BY <1>2, <1>3, <1>4, <1>5, <1>6, <1>7, Sends

(* A sweep claims what it sends, and forgets the claims of settled rows.   *)
LEMMA SweptApart ==
  ASSUME NEW rows, SweepRows(rows), ClaimsOutliveNoChannel
  PROVE  ClaimsOutliveNoChannel'
BY DEF SweepRows, ClaimsOutliveNoChannel

LEMMA DoReindex ==
  ASSUME Sound, NEW force \in BOOLEAN, Reindex(force)
  PROVE  /\ channel' \in Seq(Jobs) /\ Len(channel') <= Capacity
         /\ row' \in [Docs -> Rows] /\ \A d \in Docs : Milder(row'[d], row[d])
<1> DEFINE todo == {d \in Docs : row[d].status = "indexed" /\ disk[d] # 0}
           job == [d \in todo |-> [doc |-> d, force |-> force]]
           staged == IF force THEN "pending_reindex" ELSE "pending"
<1>1. PICK sent \in SUBSET todo :
        /\ Send(channel, todo, job, sent)
        /\ row' = [d \in Docs |-> IF d \in todo \ sent
                     THEN [row[d] EXCEPT !.status = staged] ELSE row[d]]
  BY DEF Reindex
<1>2. PICK o \in Orders(sent) : channel' = channel \o [i \in DOMAIN o |-> job[o[i]]]
  BY <1>1 DEF Send
<1>3. Cardinality(sent) = Room(channel, todo)  BY <1>1 DEF Send
<1>4. todo \in SUBSET Docs /\ sent \in SUBSET todo  OBVIOUS
<1>5. [i \in DOMAIN o |-> job[o[i]]] \in [DOMAIN o -> Jobs]
  <2>1. \A i \in DOMAIN o : o[i] \in todo  BY <1>4 DEF Orders
  <2>2. \A d \in todo : job[d] \in Jobs  BY <1>4 DEF Jobs
  <2> HIDE DEF todo, job
  <2> QED  BY <2>1, <2>2
<1>6. channel \in Seq(Jobs) /\ Len(channel) <= Capacity  BY DEF Sound, TypeOK
<1>7. \A d \in Docs : row[d] \in Rows  BY DEF Sound, TypeOK
<1>8. staged \in Statuses  BY DEF Statuses
<1>9. \A d \in Docs : /\ [row[d] EXCEPT !.status = staged] \in Rows
                      /\ Milder([row[d] EXCEPT !.status = staged], row[d])
                      /\ Milder(row[d], row[d])
  <2> HIDE DEF staged
  <2> QED  BY <1>7, <1>8 DEF Rows, Milder
<1>10. row' \in [Docs -> Rows] /\ \A d \in Docs : Milder(row'[d], row[d])
  <2> HIDE DEF staged, todo
  <2> QED  BY <1>1, <1>7, <1>9
<1> HIDE DEF todo, job
<1> QED  BY <1>2, <1>3, <1>4, <1>5, <1>6, <1>10, Sends

(* The blame: a strike, and a quarantine from the second one on.           *)
LEMMA StruckTyped ==
  ASSUME NEW r \in Rows
  PROVE  /\ Struck(r) \in Rows /\ Struck(r).strikes = r.strikes + 1
         /\ Struck(r).quarantined => r.quarantined \/ r.strikes + 1 >= 2
<1>1. r.strikes \in Nat /\ r.quarantined \in BOOLEAN  BY DEF Rows
<1>2. PICK n \in Nat : n = r.strikes + 1  BY <1>1
<1>3. PICK q \in BOOLEAN :
        q = (r.quarantined \/ (r.status # "none" /\ r.strikes + 1 >= 2))
  BY <1>1
<1>4. Struck(r) = [r EXCEPT !.strikes = n, !.quarantined = q]
  BY <1>2, <1>3 DEF Struck
<1>5. [r EXCEPT !.strikes = n, !.quarantined = q] \in Rows
  BY DEF Rows
<1> QED  BY <1>2, <1>3, <1>4, <1>5 DEF Rows

-----------------------------------------------------------------------------
(* The invariants hold at the start.                                       *)
LEMMA AtStart ==
  Init => Sound /\ TrippedOnOld /\ Blamed /\ ClaimsOutliveNoChannel
          /\ IndexIsOneVersion /\ IndexedHashIsCurrent
<1> SUFFICES ASSUME Init
             PROVE  Sound /\ TrippedOnOld /\ Blamed /\ ClaimsOutliveNoChannel
                    /\ IndexIsOneVersion /\ IndexedHashIsCurrent
  OBVIOUS
<1> USE IngestAssumption
<1>1. PICK kind \in [Docs -> Starts] :
        /\ disk = [d \in Docs |-> 1]
        /\ event = {d \in Docs : kind[d] = "new"}
        /\ row = [d \in Docs |-> FirstRow(kind[d])]
  BY DEF Init
<1>2. AnyDoc \in Docs  BY DEF AnyDoc
<1>3. 0 \in Procs /\ 1 \in Workers /\ Workers \subseteq Procs
  BY DEF Procs, Workers, Command
<1>4. \A k \in Starts :
        /\ FirstRow(k) \in Rows /\ FirstRow(k).strikes = 0
        /\ ~FirstRow(k).quarantined /\ FirstRow(k).hash = FirstRow(k).last
        /\ IF FirstRow(k).last = 0 THEN FirstRow(k).chunks = {}
           ELSE FirstRow(k).chunks \in {ChunksOf[FirstRow(k).last], OldChunks}
  <2> TAKE k \in Starts
  <2>1. ChunksOf[1] \in SUBSET Chunks /\ OldChunks \in SUBSET Chunks
    BY ChunksTyped DEF Chunks
  <2>2. CASE k = "new"  BY <2>2 DEF FirstRow, Rows, Statuses
  <2>3. CASE k = "legacy"  BY <2>1, <2>3 DEF FirstRow, Rows, Statuses
  <2>4. CASE k = "indexed"  BY <2>1, <2>4 DEF FirstRow, Rows, Statuses
  <2> QED  BY <2>2, <2>3, <2>4
<1>5. row \in [Docs -> Rows]  BY <1>1, <1>4
<1>6. \A at \in {"idle", "gone"} : Rest(at) \in States /\ Rest(at).at = at
  BY <1>2 DEF Rest, States
<1>7. proc \in [Procs -> States] /\ proc[1].at = "idle"
      /\ \A p \in Procs : proc[p].at \in {"idle", "gone"}
  BY <1>3, <1>6 DEF Init
<1>8. TypeOK
  <2>1. disk \in [Docs -> Versions \cup {0}] /\ event \subseteq Docs  BY <1>1
  <2>8. binary \subseteq Docs  BY IngestAssumption DEF Init
  <2>2. channel \in Seq(Jobs) /\ Len(channel) <= Capacity  BY DEF Init
  <2>3. /\ hb \in [stage : Working \cup {"idle"}, doc : Docs, late : BOOLEAN,
                    tripped : BOOLEAN]
        /\ dog \in [at : {"watch", "replace", "blame"}, doc : Docs,
                    stage : Working \cup {"idle"}]
    BY <1>2 DEF Init, Watching
  <2>4. overran \in [Docs -> 0..MaxOverruns]  BY DEF Init
  <2>5. /\ claims \subseteq Docs /\ unchecked \subseteq Docs /\ dropped \subseteq Docs
        /\ respawns = 0 /\ degraded = FALSE /\ epoch = 1
    BY DEF Init
  <2>6. respawns \in 0..RespawnCap  BY <2>5
  <2>7. degraded \in BOOLEAN  BY <2>5
  <2> QED  BY <1>3, <1>5, <1>7, <2>1, <2>2, <2>3, <2>4, <2>5, <2>6, <2>7, <2>8
           DEF TypeOK
<1>9. HoldsBytes  BY <1>7 DEF HoldsBytes, Holds
<1>10. Counted  BY DEF Counted, Init, Watching
<1>11. Bounded  BY DEF Bounded, Init
<1>12. TrippedOnOld /\ ClaimsOutliveNoChannel
  BY DEF TrippedOnOld, ClaimsOutliveNoChannel, Init
<1>13. Blamed
  <2> SUFFICES ASSUME NEW d \in Docs
               PROVE  /\ row[d].strikes + UnderWay(d) + Late(d) <= overran[d]
                      /\ row[d].quarantined => overran[d] >= 2
    BY DEF Blamed
  <2>1. row[d].strikes = 0 /\ ~row[d].quarantined  BY <1>1, <1>4
  <2>2. UnderWay(d) = 0 /\ Late(d) = 0 /\ overran[d] = 0
    BY DEF UnderWay, Late, Init, Watching
  <2> QED  BY <2>1, <2>2
<1>14. IndexIsOneVersion /\ IndexedHashIsCurrent
  <2>1. \A k \in Starts : FirstRow(k).last \in {0, 1}  BY DEF FirstRow
  <2>2. 1 \in Versions  BY IngestAssumption
  <2>3. ASSUME NEW d \in Docs
        PROVE  /\ Whole(row[d], {row[d].last}) /\ Whole(row[d], Versions)
               /\ row[d].hash = row[d].last
    <3>1. PICK k \in Starts : row[d] = FirstRow(k)  BY <1>1
    <3>2. FirstRow(k).hash = FirstRow(k).last  BY <1>4
    <3>3. Whole(FirstRow(k), {FirstRow(k).last})  BY <1>4 DEF Whole
    <3>4. FirstRow(k).last = 0 \/ FirstRow(k).last \in Versions  BY <2>1, <2>2
    <3>5. Whole(FirstRow(k), Versions)  BY <3>3, <3>4 DEF Whole
    <3> QED  BY <3>1, <3>2, <3>3, <3>5
  <2>4. IndexIsOneVersion  BY <2>3 DEF IndexIsOneVersion
  <2> QED  BY <2>3, <2>4 DEF IndexedHashIsCurrent
<1> QED  BY <1>8, <1>9, <1>10, <1>11, <1>12, <1>13, <1>14 DEF Sound

LEMMA WatchRows ==
  ASSUME Sound, NEW d \in Docs, Watch(d)
  PROVE  row' \in [Docs -> Rows] /\ \A e \in Docs : Milder(row'[e], row[e])
<1>1. row \in [Docs -> Rows] /\ disk[d] \in Versions \cup {0}
  BY DEF Sound, TypeOK
<1>2. row[d] \in Rows /\ \A e \in Docs : Milder(row[e], row[e])
  BY <1>1 DEF Rows, Milder
<1>3. CASE disk[d] = 0
  <2>1. row' = [row EXCEPT ![d] = Deleted(row[d])]  BY <1>3 DEF Watch
  <2>2. 1 \in Versions  BY IngestAssumption
  <2>3. {} \in SUBSET Chunks  OBVIOUS
  <2>4. Deleted(row[d]) \in Rows /\ Milder(Deleted(row[d]), row[d])
    BY <1>2, <2>2, <2>3, RowFunctions
  <2> QED  BY <1>1, <1>2, <2>1, <2>4
<1>4. CASE disk[d] # 0
  <2>1. \/ row' = [row EXCEPT ![d] = Upserted(row[d], disk[d])]
        \/ row' = row
    BY <1>1, <1>4 DEF Watch
  <2>2. {} \in SUBSET Chunks  OBVIOUS
  <2>3. Upserted(row[d], disk[d]) \in Rows /\ Milder(Upserted(row[d], disk[d]), row[d])
    BY <1>1, <1>2, <1>4, <2>2, RowFunctions
  <2> QED  BY <1>1, <1>2, <2>1, <2>3
<1> QED  BY <1>3, <1>4

(* The supervisor's steps.                                                 *)
LEMMA SoundDog ==
  ASSUME Sound, Overrun \/ Sweep \/ Trip \/ Replace \/ Blame
  PROVE  Sound'
<1> USE IngestAssumption DEF Sound
<1>1. epoch \in 1..(RespawnCap + 1) /\ respawns \in 0..RespawnCap
  BY DEF TypeOK, Workers
<1>2. CASE Overrun
  <2>1. hb.doc \in Docs /\ overran[hb.doc] <= used.overruns
        /\ used.overruns < MaxOverruns
    BY <1>2 DEF Overrun, TypeOK, Bounded
  <2>2. used' = [used EXCEPT !.overruns = @ + 1]  BY <1>2 DEF Overrun, Spend
  <2>3. Bounded'
    <3>1. /\ used' \in [edits : Nat, overruns : Nat, faults : Nat, commands : Nat]
          /\ used'.overruns = used.overruns + 1
      BY <2>2 DEF Bounded
    <3>2. overran \in [Docs -> 0..MaxOverruns] /\ MaxOverruns \in Nat
          /\ overran' = [overran EXCEPT ![hb.doc] = @ + 1]
      BY <1>2 DEF Overrun, TypeOK
    <3>3. \A d \in Docs : overran'[d] <= used'.overruns
      BY <2>1, <3>1, <3>2 DEF Bounded
    <3> QED  BY <2>1, <3>1, <3>3 DEF Bounded
  <2>4. overran' \in [Docs -> 0..MaxOverruns]
    <3>1. overran \in [Docs -> 0..MaxOverruns] /\ MaxOverruns \in Nat
          /\ used.overruns \in Nat
      BY IngestAssumption DEF TypeOK, Bounded
    <3>2. overran[hb.doc] + 1 \in 0..MaxOverruns  BY <2>1, <3>1
    <3>3. overran' = [overran EXCEPT ![hb.doc] = @ + 1]  BY <1>2 DEF Overrun
    <3> QED  BY <3>1, <3>2, <3>3
  <2> QED  BY <1>2, <2>3, <2>4 DEF Overrun, TypeOK, HoldsBytes, Counted, watch, data
<1>3. CASE Sweep
  <2>1. row \in [Docs -> Rows] /\ SweepRows(row)  BY <1>3 DEF Sweep, TypeOK
  <2> QED  BY <1>3, <2>1, Swept DEF Sweep, TypeOK, HoldsBytes, Counted, Bounded, data
<1>4. CASE Trip
  BY <1>4 DEF Trip, TypeOK, HoldsBytes, Counted, Bounded, data, history
<1>5. CASE Replace
  <2>1. epoch = respawns + 1 /\ respawns < RespawnCap /\ epoch + 1 \in Workers
        /\ epoch \in Procs /\ epoch + 1 \in Procs /\ ~degraded
    BY <1>1, <1>5 DEF Replace, Counted, Workers, Procs
  <2> DEFINE out == [proc EXCEPT ![epoch] = IF @.at = "idle" THEN Rest("gone") ELSE @]
  <2>2. Rest("idle") \in States /\ Rest("gone") \in States
        /\ Rest("idle").at = "idle" /\ Rest("gone").at = "gone"
    BY DEF Rest, States, AnyDoc
  <2>3. out \in [Procs -> States] /\ \A p \in Procs : out[p] = proc[p] \/ out[p].at = "gone"
    BY <2>1, <2>2 DEF TypeOK
  <2>4. proc' \in [Procs -> States]
        /\ \A p \in Procs : proc'[p] = proc[p] \/ proc'[p].at \in {"idle", "gone"}
    <3> HIDE DEF out
    <3>1. proc' = out \/ proc' = [out EXCEPT ![epoch + 1] = Rest("idle")]
      BY <1>5 DEF Replace, out
    <3> QED  BY <2>1, <2>2, <2>3, <3>1
  <2>5. HoldsBytes'
    <3>1. binary' = binary  BY <1>5 DEF Replace, data
    <3> QED  BY <2>4, <3>1 DEF HoldsBytes, Holds
  <2>6. channel' \in Seq(Jobs) /\ Len(channel') <= Capacity
    BY <1>5 DEF Replace
  <2>7. /\ claims' \subseteq Docs /\ dropped' \subseteq Docs /\ degraded' \in BOOLEAN
        /\ dog' \in [at : {"watch", "replace", "blame"}, doc : Docs,
                     stage : Working \cup {"idle"}]
    <3>1. AnyDoc \in Docs  BY DEF AnyDoc
    <3>2. dog \in [at : {"watch", "replace", "blame"}, doc : Docs,
                     stage : Working \cup {"idle"}] /\ claims \subseteq Docs
          /\ dropped \subseteq Docs /\ degraded \in BOOLEAN /\ row \in [Docs -> Rows]
          /\ channel \in Seq(Jobs) /\ proc[epoch] \in States
      BY <2>1 DEF TypeOK
    <3>3. CASE UNCHANGED <<claims, dropped>> /\ degraded' = TRUE /\ dog' = Watching
      BY <3>1, <3>2, <3>3 DEF Watching
    <3> DEFINE onIt == {channel[i].doc : i \in DOMAIN channel} \cup
                  (IF proc[epoch].at \in Working THEN {proc[epoch].doc} ELSE {})
    <3>4. onIt \subseteq Docs
      <4>1. \A i \in DOMAIN channel : channel[i] \in Jobs  BY <3>2
      <4> QED  BY <3>2, <4>1 DEF Jobs, States
    <3>5. CASE /\ Adopt({d \in onIt : Sweepable(row[d])})
               /\ dog' = [dog EXCEPT !.at = "blame"] /\ degraded' = degraded
      BY <3>2, <3>4, <3>5 DEF Adopt
    <3> QED  BY <1>5, <3>3, <3>5 DEF Replace
  <2>8. epoch' = epoch + 1 /\ UNCHANGED <<data, row, hb, respawns, overran, unchecked>>
    BY <1>5 DEF Replace
  <2>9. TypeOK'  BY <2>1, <2>4, <2>6, <2>7, <2>8 DEF TypeOK, data
  <2>10. Counted'
    <3>1. /\ dog.at = "replace" /\ epoch' = epoch + 1 /\ respawns' = respawns
          /\ \/ dog' = [dog EXCEPT !.at = "blame"] /\ degraded' = degraded
             \/ dog' = Watching /\ degraded' = TRUE
      BY <1>5 DEF Replace
    <3>2. dog \in [at : {"watch", "replace", "blame"}, doc : Docs,
                   stage : Working \cup {"idle"}] /\ respawns \in Nat /\ epoch \in Nat
      BY DEF TypeOK, Workers
    <3> QED  BY <3>1, <3>2 DEF Counted, Watching
  <2>11. Bounded'
    <3>1. used'.overruns = used.overruns
          /\ used' \in [edits : Nat, overruns : Nat, faults : Nat, commands : Nat]
      BY <1>5, Spent, UsedKept DEF Replace
    <3> QED  BY <2>8, <3>1 DEF Bounded
  <2> QED  BY <2>5, <2>9, <2>10, <2>11
<1>6. CASE Blame
  <2>1. dog.doc \in Docs /\ row \in [Docs -> Rows]  BY DEF TypeOK
  <2>2. row' \in [Docs -> Rows]
    <3>1. Struck(row[dog.doc]) \in Rows  BY <2>1, StruckTyped
    <3>2. row' = [row EXCEPT ![dog.doc] = Struck(row[dog.doc])] \/ row' = row
      BY <1>6, <2>1 DEF Blame
    <3> QED  BY <2>1, <3>1, <3>2
  <2>3. /\ channel' \in Seq(Jobs) /\ Len(channel') <= Capacity
        /\ claims' \subseteq Docs /\ dropped' \subseteq Docs
    <3>1. CASE UNCHANGED <<channel, claims, dropped>>  BY <3>1 DEF TypeOK
    <3>2. CASE SweepRows(row')  BY <2>2, <3>2, Swept
    <3> QED  BY <1>6, <3>1, <3>2 DEF Blame
  <2>4. epoch = respawns + 2 /\ respawns < RespawnCap /\ ~degraded
    BY <1>6, <1>1 DEF Blame, Counted
  <2>5. /\ respawns' = respawns + 1 /\ dog' = Watching
        /\ UNCHANGED <<data, proc, epoch, hb, used, overran, unchecked>>
        /\ \/ respawns' >= RespawnCap /\ degraded' = TRUE
           \/ respawns' < RespawnCap /\ degraded' = degraded
    BY <1>6 DEF Blame
  <2>6. Watching \in [at : {"watch", "replace", "blame"}, doc : Docs,
                      stage : Working \cup {"idle"}]
    <3>1. AnyDoc \in Docs  BY DEF AnyDoc
    <3> QED  BY <3>1 DEF Watching
  <2>7. respawns' \in 0..RespawnCap /\ degraded' \in BOOLEAN
    <3>1. respawns' \in 0..RespawnCap  BY <1>1, <2>4, <2>5
    <3>2. degraded' \in BOOLEAN
      <4>1. degraded \in BOOLEAN  BY DEF TypeOK
      <4> QED  BY <2>5, <4>1
    <3> QED  BY <3>1, <3>2
  <2>8. TypeOK'  BY <2>2, <2>3, <2>5, <2>6, <2>7 DEF TypeOK, data
  <2>9. Counted'  BY <1>1, <2>4, <2>5 DEF Counted, Watching
  <2> QED  BY <2>5, <2>8, <2>9 DEF HoldsBytes, Bounded, data
<1> QED  BY <1>2, <1>3, <1>4, <1>5, <1>6

LEMMA SoundNext == Sound /\ [Next]_vars => Sound'
<1> SUFFICES ASSUME Sound, [Next]_vars PROVE Sound'
  OBVIOUS
<1> USE DEF Sound
<1>1. ASSUME NEW d \in Docs, Edit(d)
      PROVE  Sound'
  <2>1. disk' \in [Docs -> Versions \cup {0}] /\ event' \subseteq Docs
    BY <1>1 DEF Edit, TypeOK
  <2> QED  BY <1>1, <2>1, Spent
           DEF Edit, TypeOK, HoldsBytes, Counted, Bounded, watch, history
<1>2. ASSUME NEW d \in Docs, Watch(d)
      PROVE  Sound'
  <2>1. row' \in [Docs -> Rows]  BY <1>2, WatchRows
  <2>2. unchecked' \subseteq Docs /\ event' \subseteq Docs  BY <1>2 DEF Watch, TypeOK
  <2> QED  BY <1>2, <2>1, <2>2 DEF Watch, TypeOK, HoldsBytes, Counted, Bounded, watch
<1>3. ASSUME NEW d \in Docs, StartCommand(d)
      PROVE  Sound'
  <2> DEFINE s == [Rest("reading") EXCEPT !.doc = d]
  <2>1. s \in States /\ s.at = "reading" /\ Holds(s, binary)
    BY IngestAssumption DEF Rest, States, AnyDoc, Working, Holds
  <2>2. Command \in Procs /\ Enter(Command, s)  BY <1>3 DEF Procs, StartCommand
  <2> HIDE DEF s
  <2>3. /\ proc' \in [Procs -> States] /\ HoldsBytes'
        /\ hb' \in [stage : Working \cup {"idle"}, doc : Docs, late : BOOLEAN,
                     tripped : BOOLEAN]
    BY <1>3, <2>1, <2>2, Entered DEF HoldsBytes, StartCommand, data
  <2> QED  BY <1>3, <2>3, Spent
           DEF StartCommand, TypeOK, Counted, Bounded, data, watch, history
<1>4. ASSUME NEW force \in BOOLEAN, Reindex(force)
      PROVE  Sound'
  BY <1>4, DoReindex, Spent
  DEF Reindex, TypeOK, HoldsBytes, Counted, Bounded, data, watch, history
<1>5. ASSUME NEW p \in Procs, Step(p)
      PROVE  Sound'
  BY <1>5, DoStep DEF StepEffect, TypeOK, Counted, Bounded, data, watch
<1>6. CASE UNCHANGED vars
  BY <1>6 DEF vars, TypeOK, HoldsBytes, Counted, Bounded
<1> QED  BY <1>1, <1>2, <1>3, <1>4, <1>5, <1>6, SoundDog DEF Next

(* The documents table, the channel, the processes and the watchdog keep   *)
(* to their types: the channel never holds more jobs than it has room for. *)
THEOREM TypeCorrect == Spec => []TypeOK
<1>1. Init => Sound  BY AtStart
<1>2. Sound => TypeOK  BY DEF Sound
<1> QED  BY <1>1, <1>2, SoundNext, PTL DEF Spec

-----------------------------------------------------------------------------
(* Claims: a respawn clears them with the channel they stood for.          *)
LEMMA ClaimsNext ==
  Sound /\ ClaimsOutliveNoChannel /\ [Next]_vars => ClaimsOutliveNoChannel'
<1> SUFFICES ASSUME Sound, ClaimsOutliveNoChannel, [Next]_vars
             PROVE  ClaimsOutliveNoChannel'
  OBVIOUS
<1>1. CASE UNCHANGED <<claims, dropped>>
  BY <1>1 DEF ClaimsOutliveNoChannel
<1>2. CASE \E rows : SweepRows(rows)
  BY <1>2, SweptApart
<1>3. CASE Replace
  <2>1. UNCHANGED <<claims, dropped>> \/ claims' = {}
    BY <1>3 DEF Replace, Adopt
  <2> QED  BY <1>1, <2>1 DEF ClaimsOutliveNoChannel
<1>4. CASE \E p \in Procs : Step(p)
  BY <1>1, <1>4, DoStep DEF StepEffect, watch
<1>5. CASE UNCHANGED vars
  BY <1>1, <1>5 DEF vars
<1>6. ASSUME NEW d \in Docs, Edit(d) \/ Watch(d) \/ StartCommand(d)
      PROVE  UNCHANGED <<claims, dropped>>
  BY <1>6 DEF Edit, Watch, StartCommand, watch, history
<1>7. CASE (\E force \in BOOLEAN : Reindex(force)) \/ Overrun \/ Trip
  BY <1>1, <1>7 DEF Reindex, Overrun, Trip, watch, history
<1>8. CASE Sweep  BY <1>2, <1>8 DEF Sweep
<1>9. CASE Blame
  <2>1. UNCHANGED <<claims, dropped>> \/ SweepRows(row')  BY <1>9 DEF Blame
  <2> QED  BY <1>1, <1>2, <2>1
<1> QED  BY <1>1, <1>3, <1>4, <1>5, <1>6, <1>7, <1>8, <1>9 DEF Next

(* However many workers are replaced, and whatever their channels held, no *)
(* claim survives for a job that went down with one of them.               *)
THEOREM NoClaimOutlivesAChannel == Spec => []ClaimsOutliveNoChannel
<1>1. Init => Sound /\ ClaimsOutliveNoChannel  BY AtStart
<1> QED  BY <1>1, SoundNext, ClaimsNext, PTL DEF Spec

-----------------------------------------------------------------------------
(* Trips: the supervisor remembers a stage, not a worker.                  *)
LEMMA TrippedNext ==
  Sound /\ TrippedOnOld /\ [Next]_vars => TrippedOnOld'
<1> SUFFICES ASSUME Sound, TrippedOnOld, [Next]_vars
             PROVE  TrippedOnOld'
  OBVIOUS
<1>1. CASE UNCHANGED <<hb, dog, degraded, proc, epoch>>
  BY <1>1 DEF TrippedOnOld
<1>2. ASSUME NEW p \in Procs, Step(p)
      PROVE  TrippedOnOld'
  BY <1>2, DoStep DEF StepEffect, TrippedOnOld, watch
<1>3. ASSUME NEW d \in Docs, StartCommand(d)
      PROVE  TrippedOnOld'
  <2> DEFINE s == [Rest("reading") EXCEPT !.doc = d]
  <2>1. s \in States /\ s.at = "reading" /\ Holds(s, binary)
    BY <1>3, IngestAssumption DEF Rest, States, AnyDoc, Working, Holds
  <2>2. Command \in Procs /\ Enter(Command, s)  BY <1>3 DEF Procs, StartCommand
  <2>3. Command # epoch  BY DEF Sound, TypeOK, Workers, Command
  <2> HIDE DEF s
  <2>4. hb' = hb /\ proc'[epoch] = proc[epoch]
    BY <2>1, <2>2, <2>3, Entered DEF Sound
  <2> QED  BY <1>3, <2>4 DEF StartCommand, TrippedOnOld, watch
<1>4. CASE Overrun  BY <1>4 DEF Overrun, TrippedOnOld, watch
<1>5. CASE Trip  BY <1>5 DEF Trip, TrippedOnOld
<1>6. CASE Replace
  <2>1. epoch \in Nat /\ epoch + 1 \in Procs
    <3>1. dog.at = "replace"  BY <1>6 DEF Replace
    <3>2. epoch = respawns + 1 /\ respawns < RespawnCap
      BY <3>1 DEF Sound, Counted
    <3>3. epoch \in Nat /\ respawns \in Nat
      BY DEF Sound, TypeOK, Workers
    <3> QED  BY <3>2, <3>3, IngestAssumption DEF Procs, Workers
  <2> DEFINE out == [proc EXCEPT ![epoch] = IF @.at = "idle" THEN Rest("gone") ELSE @]
  <2>2. DOMAIN out = Procs  BY DEF Sound, TypeOK
  <2>3. degraded' = TRUE \/ proc' = [out EXCEPT ![epoch + 1] = Rest("idle")]
    BY <1>6 DEF Replace
  <2>4. epoch' = epoch + 1  BY <1>6 DEF Replace
  <2> HIDE DEF out
  <2>5. CASE proc' = [out EXCEPT ![epoch + 1] = Rest("idle")]
    BY <2>1, <2>2, <2>4, <2>5, Resting DEF TrippedOnOld
  <2> QED  BY <2>3, <2>5 DEF TrippedOnOld
<1>7. CASE Blame
  <2>1. dog.at = "blame" /\ UNCHANGED <<hb, proc, epoch>> /\ ~degraded
    BY <1>7 DEF Blame, Sound, Counted
  <2> QED  BY <2>1 DEF TrippedOnOld
<1>8. ASSUME NEW d \in Docs, Edit(d) \/ Watch(d)
      PROVE  UNCHANGED <<hb, dog, degraded, proc, epoch>>
  BY <1>8 DEF Edit, Watch, watch
<1>9. CASE Sweep \/ \E force \in BOOLEAN : Reindex(force)
  BY <1>1, <1>9 DEF Sweep, Reindex, watch
<1> QED
  BY <1>1, <1>2, <1>3, <1>4, <1>5, <1>6, <1>7, <1>8, <1>9 DEF Next, vars

(* The supervisor sees every new wedge: it never mistakes the stage of a   *)
(* replacement, or a later stage of the same worker, for the one it has    *)
(* already tripped on.                                                     *)
THEOREM EveryWedgeIsSeen == Spec => []NewWedgeIsSeen
<1>1. Init => Sound /\ TrippedOnOld  BY AtStart
<1>2. TrippedOnOld => NewWedgeIsSeen  BY DEF TrippedOnOld, NewWedgeIsSeen, Working
<1> QED  BY <1>1, <1>2, SoundNext, TrippedNext, PTL DEF Spec

-----------------------------------------------------------------------------
(* Blame: strikes, the trip under way and the late stage are all paid for  *)
(* by overruns of the same document.                                       *)
LEMMA BlamedFrame ==
  ASSUME Sound, Blamed, row' \in [Docs -> Rows],
         \A d \in Docs : Milder(row'[d], row[d]), UNCHANGED <<dog, overran>>,
         hb' = hb \/ ~hb'.late
  PROVE  Blamed'
<1> SUFFICES ASSUME NEW d \in Docs
             PROVE  /\ row'[d].strikes + UnderWay(d)' + Late(d)' <= overran[d]
                    /\ row'[d].quarantined => overran[d] >= 2
  BY DEF Blamed
<1>1. row[d].strikes \in Nat /\ row'[d].strikes \in Nat /\ overran[d] \in Nat
      /\ UnderWay(d) \in {0, 1} /\ Late(d) \in {0, 1} /\ Late(d)' \in {0, 1}
  BY DEF Sound, TypeOK, Rows, UnderWay, Late
<1>2. row'[d].strikes <= row[d].strikes /\ (row'[d].quarantined => row[d].quarantined)
  BY DEF Milder
<1>3. row[d].strikes + UnderWay(d) + Late(d) <= overran[d]
      /\ (row[d].quarantined => overran[d] >= 2)
  BY DEF Blamed
<1>4. UnderWay(d)' = UnderWay(d)  BY DEF UnderWay
<1>5. Late(d)' <= Late(d)  BY <1>1 DEF Late
<1>6. row'[d].strikes + UnderWay(d)' + Late(d)' <= overran[d]
  BY <1>1, <1>2, <1>3, <1>4, <1>5
<1> QED  BY <1>2, <1>3, <1>6

LEMMA BlamedNext == Sound /\ Blamed /\ [Next]_vars => Blamed'
<1> SUFFICES ASSUME Sound, Blamed, [Next]_vars PROVE Blamed'
  OBVIOUS
<1>1. /\ row \in [Docs -> Rows] /\ overran \in [Docs -> 0..MaxOverruns]
      /\ \A d \in Docs : row[d].strikes \in Nat /\ overran[d] \in Nat
      /\ hb.doc \in Docs /\ dog.doc \in Docs
  BY DEF Sound, TypeOK, Rows
<1>2. CASE UNCHANGED <<row, dog, overran, hb>>
  BY <1>2 DEF Blamed, UnderWay, Late
<1>3. ASSUME NEW p \in Procs, Step(p)
      PROVE  Blamed'
  <2>1. hb' = hb \/ ~hb'.late  BY <1>3, DoStep DEF StepEffect
  <2> QED  BY <1>3, <2>1, DoStep, BlamedFrame DEF StepEffect, watch
<1>4. ASSUME NEW d \in Docs, StartCommand(d)
      PROVE  Blamed'
  <2>1. hb' = hb \/ ~hb'.late
    BY <1>4 DEF StartCommand, Enter
  <2> QED  BY <1>4, <2>1, RowKept, BlamedFrame DEF StartCommand, Sound, watch, history
<1>5. ASSUME NEW d \in Docs, Watch(d)
      PROVE  Blamed'
  BY <1>5, WatchRows, BlamedFrame DEF Watch, watch
<1>6. ASSUME NEW force \in BOOLEAN, Reindex(force)
      PROVE  Blamed'
  BY <1>6, DoReindex, BlamedFrame DEF Reindex, watch, history
<1>7. CASE Overrun
  <2>1. /\ overran' = [overran EXCEPT ![hb.doc] = @ + 1]
        /\ hb' = [hb EXCEPT !.late = TRUE] /\ ~hb.late /\ UNCHANGED <<row, dog>>
    BY <1>7 DEF Overrun, watch
  <2> SUFFICES ASSUME NEW d \in Docs
               PROVE  /\ row'[d].strikes + UnderWay(d)' + Late(d)' <= overran'[d]
                      /\ row'[d].quarantined => overran'[d] >= 2
    BY DEF Blamed
  <2>2. UnderWay(d)' = UnderWay(d) /\ UnderWay(d) \in {0, 1}  BY <2>1 DEF UnderWay
  <2>3. row[d].strikes + UnderWay(d) <= overran[d]
        /\ (row[d].quarantined => overran[d] >= 2)
    BY <1>1, <2>1, <2>2 DEF Blamed, Late
  <2>4. Late(d)' \in {0, 1} /\ (hb.doc # d => Late(d)' = 0)
    BY <2>1 DEF Late, Sound, TypeOK
  <2>5. overran'[d] = IF d = hb.doc THEN overran[d] + 1 ELSE overran[d]
    BY <1>1, <2>1
  <2>6. row[d].strikes + UnderWay(d)' + Late(d)' <= overran'[d]
    BY <1>1, <2>2, <2>3, <2>4, <2>5
  <2>7. row[d].quarantined => overran'[d] >= 2
    BY <1>1, <2>3, <2>5
  <2> QED  BY <2>1, <2>6, <2>7
<1>8. CASE Trip
  <2>1. /\ UNCHANGED <<row, overran>> /\ dog.at = "watch" /\ hb.late /\ ~hb.tripped
        /\ hb'.tripped /\ dog' = [at |-> "replace", doc |-> hb.doc, stage |-> hb.stage]
    BY <1>8 DEF Trip, history, Sound, TypeOK
  <2>2. \A d \in Docs : UnderWay(d) = 0 /\ Late(d)' = 0 /\ UnderWay(d)' = Late(d)
    BY <2>1 DEF UnderWay, Late
  <2> SUFFICES ASSUME NEW d \in Docs
               PROVE  /\ row'[d].strikes + UnderWay(d)' + Late(d)' <= overran'[d]
                      /\ row'[d].quarantined => overran'[d] >= 2
    BY DEF Blamed
  <2>3. row[d].strikes + UnderWay(d) + Late(d) <= overran[d]
        /\ (row[d].quarantined => overran[d] >= 2)
    BY DEF Blamed
  <2>4. Late(d) \in {0, 1}  BY DEF Late
  <2>5. row[d].strikes + UnderWay(d)' + Late(d)' <= overran[d]
    BY <1>1, <2>2, <2>3, <2>4
  <2> QED  BY <2>1, <2>3, <2>5
<1>9. CASE Replace
  <2>1. UNCHANGED <<row, overran, hb>> /\ dog'.doc \in Docs /\ dog.at = "replace"
        /\ (dog'.at # "watch" => dog'.doc = dog.doc)
    BY <1>9, IngestAssumption DEF Replace, Watching, AnyDoc, Sound, TypeOK
  <2>2. \A d \in Docs : UnderWay(d)' <= UnderWay(d) /\ Late(d)' = Late(d)
                         /\ UnderWay(d) \in {0, 1} /\ Late(d) \in {0, 1}
                         /\ UnderWay(d)' \in {0, 1}
    BY <2>1 DEF UnderWay, Late
  <2> SUFFICES ASSUME NEW d \in Docs
               PROVE  /\ row[d].strikes + UnderWay(d)' + Late(d)' <= overran[d]
                      /\ row[d].quarantined => overran[d] >= 2
    BY <2>1 DEF Blamed
  <2>3. row[d].strikes + UnderWay(d) + Late(d) <= overran[d]
        /\ (row[d].quarantined => overran[d] >= 2)
    BY DEF Blamed
  <2>4. row[d].strikes + UnderWay(d)' + Late(d)' <= overran[d]
    BY <1>1, <2>2, <2>3
  <2> QED  BY <2>3, <2>4
<1>10. CASE Blame
  <2>1. /\ UNCHANGED <<overran, hb>> /\ dog.at = "blame" /\ dog' = Watching
        /\ \/ row' = [row EXCEPT ![dog.doc] = Struck(row[dog.doc])]
           \/ row' = row
    BY <1>1, <1>10 DEF Blame
  <2> SUFFICES ASSUME NEW d \in Docs
               PROVE  /\ row'[d].strikes + UnderWay(d)' + Late(d)' <= overran[d]
                      /\ row'[d].quarantined => overran[d] >= 2
    BY <2>1 DEF Blamed
  <2>2. /\ UnderWay(d)' = 0 /\ Late(d)' = Late(d) /\ Late(d) \in {0, 1}
        /\ UnderWay(d) = IF d = dog.doc THEN 1 ELSE 0
    BY <2>1 DEF UnderWay, Late, Watching
  <2>3. row[d].strikes + UnderWay(d) + Late(d) <= overran[d]
        /\ (row[d].quarantined => overran[d] >= 2)
    BY DEF Blamed
  <2>4. CASE row'[d] = row[d]
    BY <1>1, <2>2, <2>3, <2>4
  <2>5. CASE d = dog.doc /\ row'[d] = Struck(row[d])
    <3>1. /\ row'[d].strikes = row[d].strikes + 1
          /\ row'[d].quarantined => row[d].quarantined \/ row[d].strikes + 1 >= 2
      BY <1>1, <2>5, StruckTyped
    <3>2. row[d].strikes + 1 + Late(d) <= overran[d]
      BY <1>1, <2>2, <2>3, <2>5
    <3>3. row[d].strikes + 1 >= 2 => overran[d] >= 2
      BY <1>1, <2>2, <3>2
    <3>4. row'[d].strikes + UnderWay(d)' + Late(d)' <= overran[d]
      BY <1>1, <2>2, <3>1, <3>2
    <3> QED  BY <2>3, <3>1, <3>3, <3>4
  <2> QED  BY <1>1, <2>1, <2>4, <2>5
<1>11. ASSUME NEW d \in Docs, Edit(d)
       PROVE  UNCHANGED <<row, dog, overran, hb>>
  BY <1>11 DEF Edit, watch, history
<1>12. CASE Sweep \/ UNCHANGED vars
  BY <1>2, <1>12 DEF Sweep, vars
<1> QED
  BY <1>2, <1>3, <1>4, <1>5, <1>6, <1>7, <1>8, <1>9, <1>10, <1>11, <1>12 DEF Next

(* No document is struck more often than it overran a stage, so none is    *)
(* quarantined before its second overrun, however workers come and go      *)
(* between the supervisor's snapshot and its verdict.                      *)
THEOREM NobodyIsBlamedForAnother == Spec => []BlamedForItsOwn
<1>1. Init => Sound /\ Blamed  BY AtStart
<1>2. Sound /\ Blamed => BlamedForItsOwn
  <2> SUFFICES ASSUME Sound, Blamed, NEW d \in Docs
               PROVE  /\ row[d].strikes <= overran[d]
                      /\ row[d].quarantined => overran[d] >= 2
    BY DEF BlamedForItsOwn
  <2>1. row[d].strikes \in Nat /\ overran[d] \in Nat
        /\ UnderWay(d) \in {0, 1} /\ Late(d) \in {0, 1}
    BY DEF Sound, TypeOK, Rows, UnderWay, Late
  <2>2. row[d].strikes + UnderWay(d) + Late(d) <= overran[d]
        /\ (row[d].quarantined => overran[d] >= 2)
    BY DEF Blamed
  <2>3. row[d].strikes <= overran[d]  BY <2>1, <2>2
  <2> QED  BY <2>2, <2>3
<1> QED  BY <1>1, <1>2, SoundNext, BlamedNext, PTL DEF Spec

-----------------------------------------------------------------------------
(* The index: what a row must satisfy, and the row functions that keep it. *)
Named(d, r, B) == IF d \in B THEN Versions ELSE {r.last}
Current(r) == r.status = "indexed" => r.hash = r.last
Good(d, r, B) == Whole(r, Named(d, r, B)) /\ Current(r)

(* s is r, or r moved out of the index, its chunks and their hash kept.    *)
Aside(s, r) == s.last = r.last /\ s.chunks = r.chunks
               /\ (s.status = "indexed" => r.status = "indexed" /\ s.hash = r.hash)

LEMMA GoodAside ==
  ASSUME NEW d, NEW r, NEW s, Good(d, r, binary), Aside(s, r)
  PROVE  Good(d, s, binary)
BY DEF Good, Named, Whole, Current, Aside

LEMMA GoodFunctions ==
  ASSUME NEW d \in Docs, NEW r \in Rows, NEW v \in Versions, NEW t \in Versions,
         d \in binary \/ t = v
  PROVE  /\ Good(d, Deleted(r), binary)
         /\ Good(d, r, binary) => Good(d, Upserted(r, v), binary) /\ Good(d, Reset(r), binary)
         /\ Good(d, IndexedAs(r, v, ChunksOf[t]), binary)
<1>1. /\ \A w \in Versions \cup {0} :
           /\ Inserted(r, w).last = 0 /\ Inserted(r, w).chunks = {}
           /\ Inserted(r, w).status = "pending"
  BY DEF Inserted, Rows
<1>2. Deleted(r).last = 0 /\ Deleted(r).chunks = {} /\ Deleted(r).status = "none"
  <2> DEFINE i == Inserted(r, 0)
  <2>1. i \in Rows
    <3>1. {} \in SUBSET Chunks  OBVIOUS
    <3> QED  BY <3>1, InsertedTyped
  <2>2. i.last = 0 /\ i.chunks = {}  BY <1>1
  <2>3. Deleted(r) = [i EXCEPT !.id = r.id, !.status = "none"]  BY DEF Deleted
  <2> HIDE DEF i
  <2> QED  BY <2>1, <2>2, <2>3 DEF Rows
<1>3. Good(d, Deleted(r), binary)  BY <1>2 DEF Good, Named, Whole, Current
<1>4. ASSUME Good(d, r, binary) PROVE Good(d, Upserted(r, v), binary)
  <2>1. CASE r.status = "none"
    BY <1>1, <2>1 DEF Upserted, Good, Whole, Current
  <2>2. CASE r.status # "none"
    <3>1. /\ Upserted(r, v).last = r.last /\ Upserted(r, v).chunks = r.chunks
          /\ Upserted(r, v).status = "pending"
      BY <2>2 DEF Upserted, Rows
    <3> QED  BY <1>4, <3>1 DEF Good, Named, Whole, Current
  <2> QED  BY <2>1, <2>2
<1>5. ASSUME Good(d, r, binary) PROVE Good(d, Reset(r), binary)
  <2>1. /\ Reset(r).last = r.last /\ Reset(r).chunks = r.chunks
        /\ Reset(r) = r \/ Reset(r).hash = r.last
    BY DEF Reset, Rows
  <2> QED  BY <1>5, <2>1 DEF Good, Named, Whole, Current
<1>6. Good(d, IndexedAs(r, v, ChunksOf[t]), binary)
  <2>1. /\ IndexedAs(r, v, ChunksOf[t]).last = v /\ IndexedAs(r, v, ChunksOf[t]).hash = v
        /\ IndexedAs(r, v, ChunksOf[t]).chunks = ChunksOf[t]
    BY DEF IndexedAs, Rows
  <2>2. v # 0  BY IngestAssumption
  <2> QED  BY <2>1, <2>2 DEF Good, Named, Whole, Current
<1> QED  BY <1>3, <1>4, <1>5, <1>6

GoodIndex == \A d \in Docs \ unchecked : Good(d, row[d], binary)

LEMMA GoodKept ==
  ASSUME Sound, GoodIndex, row' \in [Docs -> Rows], UNCHANGED <<binary, unchecked>>,
         \A d \in Docs : Aside(row'[d], row[d])
  PROVE  GoodIndex'
BY GoodAside DEF GoodIndex

LEMMA GoodSet ==
  ASSUME Sound, GoodIndex, NEW p \in Procs, NEW s, SetRow(p, s),
         UNCHANGED <<binary, unchecked>>,
         Good(proc[p].doc, row[proc[p].doc], binary) => Good(proc[p].doc, s, binary)
  PROVE  GoodIndex'
<1>1. row \in [Docs -> Rows] /\ proc[p].doc \in Docs
  BY DEF Sound, TypeOK, States
<1>2. \A d \in Docs : row'[d] = IF d = proc[p].doc THEN s ELSE row[d]
  BY <1>1 DEF SetRow
<1> QED  BY <1>2 DEF GoodIndex

LEMMA GoodSwap ==
  ASSUME Sound, GoodIndex, NEW p \in Procs, NEW s, SetRow(p, s),
         binary' = binary, unchecked' = unchecked \ {proc[p].doc},
         Good(proc[p].doc, s, binary)
  PROVE  GoodIndex'
<1>1. row \in [Docs -> Rows] /\ proc[p].doc \in Docs
  BY DEF Sound, TypeOK, States
<1>2. \A d \in Docs : row'[d] = IF d = proc[p].doc THEN s ELSE row[d]
  BY <1>1 DEF SetRow
<1> QED  BY <1>2 DEF GoodIndex

LEMMA GoodUnchecked ==
  ASSUME Sound, GoodIndex, NEW p \in Procs, NEW s, SetRow(p, s),
         binary' = binary, unchecked' = unchecked \cup {proc[p].doc}
  PROVE  GoodIndex'
<1>1. row \in [Docs -> Rows] /\ proc[p].doc \in Docs
  BY DEF Sound, TypeOK, States
<1>2. \A d \in Docs : row'[d] = IF d = proc[p].doc THEN s ELSE row[d]
  BY <1>1 DEF SetRow
<1> QED  BY <1>2 DEF GoodIndex

LEMMA GoodStep ==
  ASSUME Sound, GoodIndex, NEW p \in Procs, Step(p)
  PROVE  GoodIndex'
<1> DEFINE d == proc[p].doc  r == row[d]  v == proc[p].bytes  t == proc[p].text
<1>0. d \in Docs /\ binary' = binary  BY AtStage, DoStep DEF StepEffect, data
<1>1. CASE UNCHANGED <<row, unchecked>>  BY <1>0, <1>1 DEF GoodIndex
<1>2. CASE Receive(p) \/ Reading(p) \/ Summarizing(p)
  BY <1>1, <1>2 DEF Receive, Reading, Summarizing, history
<1>3. CASE Extracting(p)
  <2>1. v \in Versions /\ r \in Rows  BY <1>3, AtStage DEF Extracting
  <2>2. UNCHANGED row \/ SetRow(p, Upserted(r, v))  BY <1>3 DEF Extracting
  <2>3. Good(d, r, binary) => Good(d, Upserted(r, v), binary)  BY <1>0, <2>1, GoodFunctions
  <2>4. UNCHANGED unchecked  BY <1>3 DEF Extracting
  <2> QED  BY <1>1, <2>2, <2>3, <2>4, <1>0, GoodSet
<1>4. CASE Chunking(p)
  <2>1. v \in Versions /\ r \in Rows /\ t \in Versions /\ (d \in binary \/ t = v)
    BY <1>4, AtStage DEF Chunking
  <2>2. Good(d, r, binary) => Good(d, Reset(r), binary) /\ Good(d, [Reset(r) EXCEPT !.strikes = 0], binary)
                   /\ Good(d, [r EXCEPT !.strikes = 0], binary)
    <3>1. Good(d, r, binary) => Good(d, Reset(r), binary)  BY <1>0, <2>1, GoodFunctions
    <3>2. Reset(r) \in Rows
      BY <2>1, RowFunctions
    <3>3. /\ Aside([Reset(r) EXCEPT !.strikes = 0], Reset(r))
          /\ Aside([r EXCEPT !.strikes = 0], r)
      <4> HIDE DEF r
      <4> QED  BY <2>1, <3>2 DEF Aside, Rows
    <3> QED  BY <3>1, <3>3, GoodAside
  <2>3. CASE SetRow(p, Reset(r)) /\ UNCHANGED unchecked
    BY <2>2, <2>3, <1>0, GoodSet
  <2>4. CASE SetRow(p, [Reset(r) EXCEPT !.strikes = 0]) /\ UNCHANGED unchecked
    BY <2>2, <2>4, <1>0, GoodSet
  <2>5. CASE /\ ~Mine(p) /\ SetRow(p, [r EXCEPT !.strikes = 0])
             /\ UNCHANGED unchecked
    BY <2>2, <2>5, <1>0, GoodSet
  <2>6. CASE /\ proc[p].had /\ ChunksOf[t] = {} /\ SetRow(p, IndexedAs(r, v, {}))
             /\ unchecked' = unchecked \ {d}
    <3>1. Good(d, IndexedAs(r, v, {}), binary)  BY <1>0, <2>1, <2>6, GoodFunctions
    <3> QED  BY <2>6, <3>1, <1>0, GoodSwap
  <2>7. CASE /\ SetRow(p, IndexedAs(r, v, r.chunks)) /\ unchecked' = unchecked \cup {d}
    BY <2>7, <1>0, GoodUnchecked
  <2> QED
    BY <1>1, <1>4, <2>3, <2>4, <2>5, <2>6, <2>7 DEF Chunking
<1>5. CASE Embedding(p)
  <2>1. r \in Rows  BY AtStage
  <2>2. UNCHANGED row \/ SetRow(p, [r EXCEPT !.status = "error"])
    BY <1>5 DEF Embedding
  <2>3. UNCHANGED unchecked  BY <1>5 DEF Embedding
  <2>4. Aside([r EXCEPT !.status = "error"], r)  BY <2>1 DEF Aside, Rows
  <2> QED  BY <1>1, <2>2, <2>3, <2>4, <1>0, GoodAside, GoodSet
<1>6. CASE Committing(p)
  <2>1. v \in Versions /\ r \in Rows /\ t \in Versions /\ (d \in binary \/ t = v)
    BY <1>6, AtStage DEF Committing
  <2>2. CASE RaceFree(p) /\ Swap(p) /\ proc[p].had /\ unchecked' = unchecked \ {d}
    <3>1. r.chunks = proc[p].stored  BY <2>2 DEF RaceFree
    <3>2. Swapped(r.chunks, proc[p].stored, ChunksOf[t]) = ChunksOf[t]
      BY <3>1 DEF Swapped
    <3>3. SetRow(p, IndexedAs(r, v, ChunksOf[t]))  BY <2>2, <3>2 DEF Swap
    <3>4. Good(d, IndexedAs(r, v, ChunksOf[t]), binary)  BY <1>0, <2>1, GoodFunctions
    <3> QED  BY <2>2, <3>3, <3>4, <1>0, GoodSwap
  <2>3. CASE Swap(p) /\ unchecked' = unchecked \cup {d}
    BY <2>3, <1>0, GoodUnchecked DEF Swap
  <2> QED  BY <1>1, <1>6, <2>2, <2>3 DEF Committing
<1> QED  BY <1>2, <1>3, <1>4, <1>5, <1>6 DEF Step

LEMMA GoodNext == Sound /\ GoodIndex /\ [Next]_vars => GoodIndex'
<1> SUFFICES ASSUME Sound, GoodIndex, [Next]_vars PROVE GoodIndex'
  OBVIOUS
<1>1. row \in [Docs -> Rows]  BY DEF Sound, TypeOK
<1>8. binary' = binary
  BY DoStep DEF Next, Edit, Watch, StartCommand, Reindex, StepEffect, Overrun, Sweep,
                Trip, Replace, Blame, data, vars
<1>2. CASE UNCHANGED <<row, unchecked>>  BY <1>2, <1>8 DEF GoodIndex
<1>3. ASSUME NEW d \in Docs, Watch(d)
      PROVE  GoodIndex'
  <2>1. disk[d] \in Versions \cup {0} /\ row[d] \in Rows
    BY <1>1 DEF Sound, TypeOK
  <2>2. CASE disk[d] = 0
    <3>1. row' = [row EXCEPT ![d] = Deleted(row[d])] /\ unchecked' = unchecked \ {d}
      BY <1>3, <2>2 DEF Watch
    <3>2. Good(d, Deleted(row[d]), binary)
      <4>1. 1 \in Versions  BY IngestAssumption
      <4> QED  BY <2>1, <4>1, GoodFunctions
    <3> QED  BY <1>1, <1>8, <3>1, <3>2 DEF GoodIndex
  <2>3. CASE disk[d] # 0
    <3>1. \/ row' = [row EXCEPT ![d] = Upserted(row[d], disk[d])]
          \/ row' = row
      BY <1>1, <1>3, <2>3 DEF Watch
    <3>2. unchecked' = unchecked  BY <1>3, <2>3 DEF Watch
    <3>3. Good(d, row[d], binary) => Good(d, Upserted(row[d], disk[d]), binary)
      BY <2>1, <2>3, GoodFunctions
    <3> QED  BY <1>1, <1>8, <3>1, <3>2, <3>3 DEF GoodIndex
  <2> QED  BY <2>2, <2>3
<1>4. ASSUME NEW force \in BOOLEAN, Reindex(force)
      PROVE  GoodIndex'
  <2>1. row' \in [Docs -> Rows] /\ unchecked' = unchecked
    BY <1>4, DoReindex DEF Reindex, history
  <2> DEFINE staged == IF force THEN "pending_reindex" ELSE "pending"
  <2>2. \A d \in Docs : row'[d] \in {row[d], [row[d] EXCEPT !.status = staged]}
    BY <1>1, <1>4 DEF Reindex
  <2>3. staged # "indexed"  OBVIOUS
  <2>4. \A d \in Docs : /\ Aside(row[d], row[d])
                        /\ Aside([row[d] EXCEPT !.status = staged], row[d])
    <3> HIDE DEF staged
    <3> QED  BY <1>1, <2>3 DEF Aside, Rows
  <2> QED  BY <2>1, <2>2, <1>8, <2>4, GoodKept
<1>5. CASE Blame
  <2>1. unchecked' = unchecked /\ dog.doc \in Docs
        /\ \/ row' = [row EXCEPT ![dog.doc] = Struck(row[dog.doc])]
           \/ row' = row
    BY <1>1, <1>5 DEF Blame, Sound, TypeOK
  <2>2. \A d \in Docs : Aside(row[d], row[d]) /\ Aside(Struck(row[d]), row[d])
    <3> SUFFICES ASSUME NEW d \in Docs
                 PROVE  Aside(row[d], row[d]) /\ Aside(Struck(row[d]), row[d])
      OBVIOUS
    <3>1. row[d] \in Rows  BY <1>1
    <3>2. /\ Struck(row[d]).last = row[d].last /\ Struck(row[d]).chunks = row[d].chunks
          /\ Struck(row[d]).status = row[d].status /\ Struck(row[d]).hash = row[d].hash
      BY <3>1 DEF Struck, Rows
    <3> QED  BY <3>2 DEF Aside
  <2>3. row' \in [Docs -> Rows]
    BY <1>1, <2>1, StruckTyped
  <2>4. \A d \in Docs : Aside(row'[d], row[d])  BY <1>1, <2>1, <2>2
  <2> QED  BY <2>1, <2>3, <1>8, <2>4, GoodKept
<1>6. ASSUME NEW d \in Docs, Edit(d) \/ StartCommand(d)
      PROVE  UNCHANGED <<row, unchecked>>
  BY <1>6 DEF Edit, StartCommand, history
<1>7. CASE Overrun \/ Sweep \/ Trip \/ Replace \/ UNCHANGED vars
  BY <1>2, <1>7 DEF Overrun, Sweep, Trip, Replace, history, vars
<1> QED  BY <1>2, <1>3, <1>4, <1>5, <1>6, <1>7, GoodStep DEF Next

(* However many workers, replaced workers, commands and edits race, the    *)
(* chunks of a document whose swap is guarded are those of one content,    *)
(* the one its row names if the document is a plain one.                   *)
THEOREM IndexIsNeverMixed == Spec => []IndexIsOneVersion
<1>1. Init => Sound /\ GoodIndex
  BY AtStart DEF GoodIndex, Good, Named, Whole, Current, IndexIsOneVersion, IndexedHashIsCurrent
<1>2. GoodIndex => IndexIsOneVersion
  BY DEF GoodIndex, Good, Named, Whole, IndexIsOneVersion
<1> QED  BY <1>1, <1>2, SoundNext, GoodNext, PTL DEF Spec

(* ... and a row that counts as indexed records the hash of that content,  *)
(* so that no later ingest takes it for unchanged when it is not.          *)
THEOREM HashIsNeverStale == Spec => []IndexedHashIsCurrent
<1>1. Init => Sound /\ GoodIndex
  BY AtStart DEF GoodIndex, Good, Named, Whole, Current, IndexIsOneVersion, IndexedHashIsCurrent
<1>2. GoodIndex => IndexedHashIsCurrent
  BY DEF GoodIndex, Good, Current, IndexedHashIsCurrent
<1> QED  BY <1>1, <1>2, SoundNext, GoodNext, PTL DEF Spec
=============================================================================
