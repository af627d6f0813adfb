--------------------------- MODULE ProposalsProofs ---------------------------
(***************************************************************************)
(* For any number of documents, proposals, synthesis runs and desks: what  *)
(* the brain holds of a proposal is what its record says was accepted, no  *)
(* resolution leaves an empty entity, and nothing is approved without a    *)
(* person once a cited document is gone.  The last needs SourcesRecorded:  *)
(* a pending proposal that lost a document has a record of it.             *)
(***************************************************************************)
EXTENDS Proposals, TLAPS

SourcesRecorded ==
  \A p \in Proposed :
    prop[p].st = "pending" => (\A d \in prop[p].cites : Live(d)) \/ prop[p].lost # {}

(* A staged document has a hash.                                           *)
Hashed == \A d \in Docs : Live(d) => doc[d].hash \in Contents

(* A run works on a document, and resolves the proposal it just wrote.     *)
Working(r) == /\ r \in Run
              /\ r.at # "idle" => r.doc \in Docs
              /\ r.at = "resolving" => r.prop \in Proposed /\ r.left > 0

RunsWork == \A s \in Synths : Working(run[s])

IInv == /\ TypeOK /\ RunsWork /\ Hashed /\ BrainMatchesRecord /\ NoEmptyShell
        /\ AutoApprovedIsSourced /\ SourcesRecorded

-----------------------------------------------------------------------------
LEMMA NoDocumentType == NoDocument \in Document
  BY DEF NoDocument, Document

LEMMA NoProposalType == NoProposal \in Proposal
  BY DEF NoProposal, Proposal, Statuses

LEMMA IdleType == Idle \in Run /\ Working(Idle)
  BY ProposalsAssumption DEF Idle, Run, Working

LEMMA RunsStep ==
  ASSUME IInv, NEW s \in Synths, NEW r, Working(r), run' = [run EXCEPT ![s] = r]
  PROVE  run' \in [Synths -> Run] /\ RunsWork'
BY DEF IInv, TypeOK, RunsWork, Working

LEMMA InitInv == Init => IInv
<1> SUFFICES ASSUME Init PROVE IInv
  OBVIOUS
<1>1. TypeOK
  BY NoDocumentType, NoProposalType, IdleType DEF Init, TypeOK
<1>2. \A p \in Proposed : /\ prop[p].st = "none" /\ prop[p].accepted = {}
                          /\ prop[p].entity = None
  BY DEF Init, NoProposal
<1>3. BrainMatchesRecord
  BY <1>2 DEF Init, BrainMatchesRecord, Landed
<1>4. NoEmptyShell
  BY <1>2, ProposalsAssumption DEF NoEmptyShell
<1>5. Hashed
  BY DEF Init, Hashed, Live, NoDocument
<1>6. RunsWork
  BY IdleType DEF Init, RunsWork
<1> QED
  BY <1>1, <1>2, <1>3, <1>4, <1>5, <1>6 DEF Init, IInv, AutoApprovedIsSourced, SourcesRecorded

(* A document appears, changes or is ingested; none of them goes.          *)
LEMMA DocInv ==
  ASSUME IInv, NEW d \in Docs, Ingest(d) \/ \E c \in Contents : Stage(d, c)
  PROVE  IInv'
<1>0. UNCHANGED <<prop, fact, archived, run, desk, ran, orphaned>>
  BY DEF Ingest, Stage
<1>1. edits' \in Nat
  <2>1. edits' = edits \/ edits' = edits + 1
    BY DEF Ingest, Stage, Edited
  <2>2. edits \in Nat
    BY DEF IInv, TypeOK
  <2> QED
    BY <2>1, <2>2
<1>2. \A e \in Docs : /\ doc'[e] \in Document /\ (Live(e) => doc'[e].st = "live")
                      /\ (doc'[e].st = "live" => doc'[e].hash \in Contents)
  <2>1. CASE Ingest(d)
    <3> DEFINE n == [doc[d] EXCEPT !.text = doc[d].hash]
    <3>1. n \in Document /\ n.st = doc[d].st /\ n.hash = doc[d].hash
      BY DEF IInv, TypeOK, Document
    <3> QED
      BY <2>1, <3>1 DEF Ingest, Live, Hashed, IInv, TypeOK
  <2>2. ASSUME NEW c \in Contents, Stage(d, c)
        PROVE  \A e \in Docs : /\ doc'[e] \in Document /\ (Live(e) => doc'[e].st = "live")
                      /\ (doc'[e].st = "live" => doc'[e].hash \in Contents)
    <3> DEFINE n == [doc[d] EXCEPT !.st = "live", !.hash = c]
    <3>1. n \in Document /\ n.st = "live" /\ n.hash = c
      BY DEF IInv, TypeOK, Document
    <3> QED
      BY <2>2, <3>1 DEF Stage, Live, Hashed, IInv, TypeOK
  <2> QED
    BY <2>1, <2>2
<1>3. doc' \in [Docs -> Document]
  BY <1>2 DEF Ingest, Stage, IInv, TypeOK
<1>4. TypeOK'
  BY <1>0, <1>1, <1>3 DEF IInv, TypeOK
<1>5. SourcesRecorded'
  <2>1. \A p \in Proposed : prop[p].cites \subseteq Docs
    BY DEF IInv, TypeOK, Proposal
  <2> QED
    BY <1>0, <1>2, <2>1 DEF IInv, SourcesRecorded, Live
<1>6. Hashed'
  BY <1>2 DEF Hashed, Live
<1> QED
  BY <1>0, <1>4, <1>5, <1>6
  DEF IInv, RunsWork, BrainMatchesRecord, NoEmptyShell, AutoApprovedIsSourced

(* A document goes, and every pending proposal that cites it is told.      *)
LEMMA DeleteInv ==
  ASSUME IInv, NEW d \in Docs, Delete(d) PROVE IInv'
<1> DEFINE loss(p) == [hash |-> doc[d].hash,
                       role |-> IF prop[p].trigger = d THEN "trigger" ELSE "evidence"]
           told(p) == [prop[p] EXCEPT !.lost = @ \cup {loss(p)}]
<1>0. UNCHANGED <<fact, archived, run, desk, orphaned>>
  BY DEF Delete
<1>1. doc' \in [Docs -> Document] /\ edits' \in Nat
      /\ ran' \in [Docs -> Contents \cup {None}]
  BY NoDocumentType DEF Delete, Edited, IInv, TypeOK, NoDocument, Document
<1>2. \A e \in Docs : e # d => doc'[e] = doc[e]
  BY DEF Delete, IInv, TypeOK
<1>3. ASSUME NEW p \in Proposed, prop[p].st \in Open, d \in prop[p].cites
      PROVE  prop'[p] = told(p)
  BY <1>3 DEF Delete, RecordLost
<1>4. ASSUME NEW p \in Proposed, ~(prop[p].st \in Open /\ d \in prop[p].cites)
      PROVE  prop'[p] = prop[p]
  BY <1>4 DEF Delete, RecordLost
<1>5. ASSUME NEW p \in Proposed
      PROVE  /\ prop'[p] \in Proposal /\ prop'[p].st = prop[p].st
             /\ prop'[p].accepted = prop[p].accepted /\ prop'[p].entity = prop[p].entity
             /\ prop'[p].cites = prop[p].cites /\ prop[p].lost \subseteq prop'[p].lost
             /\ (prop[p].st = "pending" /\ d \in prop[p].cites => prop'[p].lost # {})
  <2>1. prop[p] \in Proposal
    BY DEF IInv, TypeOK
  <2>2. CASE prop[p].st \in Open /\ d \in prop[p].cites
    <3>1. doc[d].hash \in Contents
      BY DEF Delete, IInv, Hashed
    <3>2. loss(p) \in Lost
      BY <3>1 DEF Lost
    <3> HIDE DEF loss
    <3>3. told(p) \in Proposal /\ told(p).lost = prop[p].lost \cup {loss(p)}
          /\ told(p).st = prop[p].st /\ told(p).accepted = prop[p].accepted
          /\ told(p).entity = prop[p].entity /\ told(p).cites = prop[p].cites
      BY <2>1, <3>2 DEF Proposal
    <3> HIDE DEF told
    <3> QED
      BY <1>3, <2>2, <3>3
  <2>3. CASE ~(prop[p].st \in Open /\ d \in prop[p].cites)
    BY <1>4, <2>1, <2>3 DEF Open
  <2> QED
    BY <2>2, <2>3
<1> HIDE DEF told
<1>6. prop' \in [Proposed -> Proposal]
  <2>1. prop' = [p \in Proposed |-> prop'[p]]
    BY DEF Delete, RecordLost
  <2> QED
    BY <1>5, <2>1
<1>7. TypeOK'
  BY <1>0, <1>1, <1>6 DEF IInv, TypeOK
<1>8. BrainMatchesRecord' /\ NoEmptyShell'
  BY <1>0, <1>5 DEF IInv, BrainMatchesRecord, NoEmptyShell
<1>9. SourcesRecorded'
  <2> SUFFICES ASSUME NEW p \in Proposed, prop'[p].st = "pending"
               PROVE  (\A e \in prop'[p].cites : doc'[e].st = "live") \/ prop'[p].lost # {}
    BY DEF SourcesRecorded, Live
  <2>1. prop[p].cites \subseteq Docs
    BY DEF IInv, TypeOK, Proposal
  <2> QED
    BY <1>2, <1>5, <2>1 DEF IInv, SourcesRecorded, Live
<1>10. Hashed'
  <2>1. doc'[d].st = "gone"
    BY DEF Delete, NoDocument, IInv, TypeOK
  <2> QED
    BY <1>2, <2>1 DEF Hashed, Live, IInv
<1> QED
  BY <1>0, <1>7, <1>8, <1>9, <1>10 DEF IInv, RunsWork, AutoApprovedIsSourced

-----------------------------------------------------------------------------
(* A finished run marks its document.                                      *)
LEMMA WatermarkInv ==
  ASSUME IInv, NEW s \in Synths, Watermark(s),
         UNCHANGED <<edits, prop, fact, archived, desk, orphaned>>
  PROVE  IInv'
<1> DEFINE d == run[s].doc
           n == [doc[d] EXCEPT !.synth = doc[d].hash]
<1>1. run[s] \in Run
  BY DEF IInv, TypeOK
<1>2. run' \in [Synths -> Run] /\ RunsWork'
  BY IdleType, RunsStep DEF Watermark
<1>3. ran' \in [Docs -> Contents \cup {None}]
  BY <1>1 DEF Watermark, IInv, TypeOK, Run
<1>4. \A e \in Docs : /\ doc'[e] \in Document /\ doc'[e].st = doc[e].st
                      /\ doc'[e].hash = doc[e].hash
  <2>1. CASE Live(d) /\ d \in Docs
    <3>1. n \in Document /\ n.st = doc[d].st /\ n.hash = doc[d].hash
      BY <2>1 DEF IInv, TypeOK, Document
    <3>2. doc' = [doc EXCEPT ![d] = n]
      BY <2>1 DEF Watermark
    <3> QED
      BY <3>1, <3>2 DEF IInv, TypeOK
  <2>2. CASE ~(Live(d) /\ d \in Docs)
    <3>1. \A e \in Docs : doc'[e] = doc[e]
      BY <2>2 DEF Watermark, IInv, TypeOK
    <3> QED
      BY <3>1 DEF IInv, TypeOK
  <2> QED
    BY <2>1, <2>2
<1>5. doc' \in [Docs -> Document]
  BY <1>4 DEF Watermark, IInv, TypeOK
<1>6. TypeOK'
  BY <1>2, <1>3, <1>5 DEF IInv, TypeOK
<1>7. Hashed'
  BY <1>4 DEF IInv, Hashed, Live
<1>8. SourcesRecorded'
  <2>1. \A p \in Proposed : prop[p].cites \subseteq Docs
    BY DEF IInv, TypeOK, Proposal
  <2> QED
    BY <1>4, <2>1 DEF IInv, SourcesRecorded, Live
<1> QED
  BY <1>2, <1>6, <1>7, <1>8 DEF IInv, BrainMatchesRecord, NoEmptyShell, AutoApprovedIsSourced

(* The steps of a run that write nothing, those of a desk, and an archive. *)
LEMMA QuietInv ==
  ASSUME IInv, UNCHANGED <<doc, edits, prop, fact, ran, orphaned>>,
         run' \in [Synths -> Run], RunsWork',
         desk' \in [Desks -> Decision \cup {None}], archived' \subseteq fact
  PROVE  IInv'
<1>1. TypeOK'
  BY DEF IInv, TypeOK
<1> QED
  BY <1>1 DEF IInv, Hashed, BrainMatchesRecord, NoEmptyShell, AutoApprovedIsSourced,
              SourcesRecorded, Live

LEMMA RunInv ==
  ASSUME IInv, NEW s \in Synths,
         \/ \E d \in Docs, force \in BOOLEAN : Start(s, d, force)
         \/ Answer(s) \/ Fail(s)
  PROVE  IInv'
<1>0. run[s] \in Run /\ archived \subseteq fact /\ desk \in [Desks -> Decision \cup {None}]
  BY DEF IInv, TypeOK
<1>1. ASSUME NEW d \in Docs, NEW force \in BOOLEAN, Start(s, d, force) PROVE IInv'
  <2> DEFINE n == [Idle EXCEPT !.at = "asking", !.doc = d, !.read = doc[d].text]
  <2>1. n \in Run /\ n.at = "asking" /\ n.doc = d
    BY IdleType DEF IInv, TypeOK, Document, Run
  <2>2. run' \in [Synths -> Run] /\ RunsWork'
    BY <1>1, <2>1, RunsStep DEF Start, Working
  <2> QED
    BY <1>0, <1>1, <2>2, QuietInv DEF Start
<1>2. CASE Answer(s)
  <2>1. PICK k \in 1..MaxBundles :
          run' = [run EXCEPT ![s] = IF Live(run[s].doc)
                                    THEN [@ EXCEPT !.at = "writing", !.left = k] ELSE Idle]
    BY <1>2 DEF Answer
  <2> DEFINE n == [run[s] EXCEPT !.at = "writing", !.left = k]
  <2>2. k \in 0..MaxBundles
    BY ProposalsAssumption
  <2>3. n \in Run /\ n.at = "writing" /\ n.doc = run[s].doc
    BY <1>0, <2>2 DEF Run
  <2>4. run[s].doc \in Docs
    BY <1>2 DEF Answer, IInv, RunsWork, Working
  <2>5. Working(n)
    BY <2>3, <2>4 DEF Working
  <2> HIDE DEF n
  <2>6. run' = [run EXCEPT ![s] = n] \/ run' = [run EXCEPT ![s] = Idle]
    BY <2>1 DEF n
  <2>7. run' \in [Synths -> Run] /\ RunsWork'
    BY <2>5, <2>6, IdleType, RunsStep
  <2> QED
    BY <1>0, <1>2, <2>7, QuietInv DEF Answer
<1>3. CASE Fail(s)
  <2>1. run' \in [Synths -> Run] /\ RunsWork'
    BY <1>3, IdleType, RunsStep DEF Fail
  <2> QED
    BY <1>0, <1>3, <2>1, QuietInv DEF Fail
<1> QED
  BY <1>1, <1>2, <1>3

LEMMA DeskInv ==
  ASSUME IInv, NEW r \in Desks,
         (\E p \in Proposed, accepts \in SUBSET Items : Load(r, p, accepts)) \/ GiveUp(r)
  PROVE  IInv'
<1>1. desk' \in [Desks -> Decision \cup {None}]
  BY DEF Load, GiveUp, IInv, TypeOK, Decision
<1> QED
  BY <1>1, QuietInv DEF Load, GiveUp, IInv, TypeOK, RunsWork

LEMMA ArchiveInv == ASSUME IInv, NEW f \in fact, Archive(f) PROVE IInv'
  BY QuietInv DEF Archive, IInv, TypeOK, RunsWork

-----------------------------------------------------------------------------
LEMMA ClosedType ==
  ASSUME NEW p \in Proposed, NEW st \in Statuses, NEW landed \in SUBSET Items,
         NEW entity \in Existing \cup Proposed \cup {None}
  PROVE  /\ Closed(p, st, landed, entity) \in Proposal
         /\ Closed(p, st, landed, entity).st = st
         /\ Closed(p, st, landed, entity).accepted = landed
         /\ Closed(p, st, landed, entity).entity = entity
BY NoProposalType DEF Closed, Proposal

(* A new proposal, and the pending ones it supersedes.                     *)
LEMMA InsertInv ==
  ASSUME IInv, NEW s \in Synths, NEW p \in Proposed, NEW t \in Names \cup Existing,
         NEW items \in SUBSET Items, NEW others \in SUBSET (Docs \ {run[s].doc}),
         NEW auto \in BOOLEAN, Insert(s, p, t, items, others, auto)
  PROVE  IInv'
<1> DEFINE d == run[s].doc
           cites == {d} \cup others
           new == [NoProposal EXCEPT !.st = "pending", !.target = t, !.items = items,
                     !.trigger = d, !.cites = cites, !.quote = run[s].read,
                     !.entity = IF t \in Existing THEN t ELSE None]
<1>0. /\ UNCHANGED <<doc, edits, fact, archived, desk, ran, orphaned>>
      /\ prop[p].st = "none" /\ run[s].at = "writing" /\ run[s].left > 0
  BY DEF Insert
<1>1. run[s] \in Run
  BY DEF IInv, TypeOK
<1>9. d \in Docs
  BY <1>0 DEF IInv, RunsWork, Working
<1>2. run' \in [Synths -> Run] /\ RunsWork'
  <2> DEFINE a == [run[s] EXCEPT !.at = "resolving", !.prop = p]
             b == [run[s] EXCEPT !.left = run[s].left - 1]
  <2>1. a \in Run /\ a.doc = d /\ a.prop = p /\ a.left = run[s].left
    BY <1>1 DEF Run
  <2>2. run[s].left - 1 \in 0..MaxBundles
    BY <1>0, <1>1, ProposalsAssumption DEF Run
  <2>3. b \in Run /\ b.doc = d /\ b.at = "writing"
    BY <1>0, <1>1, <2>2 DEF Run
  <2>4. Working(a) /\ Working(b)
    BY <1>0, <1>9, <2>1, <2>3 DEF Working
  <2>5. run' = [run EXCEPT ![s] = Idle] \/ run' = [run EXCEPT ![s] = IF auto THEN a ELSE b]
    BY DEF Insert
  <2> HIDE DEF a, b
  <2>6. Working(IF auto THEN a ELSE b)
    BY <2>4
  <2> QED
    BY <2>5, <2>6, IdleType, RunsStep
<1>3. CASE UNCHANGED prop
  <2>1. TypeOK'
    BY <1>0, <1>2, <1>3 DEF IInv, TypeOK
  <2> QED
    BY <1>0, <1>2, <1>3, <2>1 DEF IInv, Hashed, BrainMatchesRecord, NoEmptyShell,
                            AutoApprovedIsSourced, SourcesRecorded, Live
<1>4. CASE /\ \A e \in cites : Live(e)
           /\ prop' = [q \in Proposed |->
                 IF q = p THEN new
                 ELSE IF Stale(q, t, d) THEN Closed(q, "superseded", {}, prop[q].entity)
                 ELSE prop[q]]
  <2>2. /\ new \in Proposal /\ new.st = "pending" /\ new.accepted = {}
        /\ new.cites = cites /\ new.entity # p
    BY <1>1, <1>9, NoProposalType, ProposalsAssumption
    DEF Proposal, Statuses, Run, NoProposal, Items
  <2> HIDE DEF new
  <2>3. prop'[p] = new
    BY <1>4
  <2>4. ASSUME NEW q \in Proposed, q # p, Stale(q, t, d)
        PROVE  /\ prop'[q] \in Proposal /\ prop'[q].st = "superseded"
               /\ prop'[q].accepted = {} /\ prop'[q].entity = prop[q].entity
               /\ prop[q].st = "pending"
    <3>1. prop[q] \in Proposal /\ prop[q].entity \in Existing \cup Proposed \cup {None}
      BY DEF IInv, TypeOK, Proposal
    <3>2. prop'[q] = Closed(q, "superseded", {}, prop[q].entity)
      BY <1>4, <2>4
    <3> QED
      BY <2>4, <3>1, <3>2, ClosedType DEF Stale, Open, Statuses
  <2>5. ASSUME NEW q \in Proposed, q # p, ~Stale(q, t, d)
        PROVE  prop'[q] = prop[q]
    BY <1>4, <2>5
  <2>6. TypeOK'
    <3>1. \A q \in Proposed : prop'[q] \in Proposal
      BY <2>2, <2>3, <2>4, <2>5 DEF IInv, TypeOK
    <3>2. prop' = [q \in Proposed |-> prop'[q]]
      BY <1>4
    <3>3. prop' \in [Proposed -> Proposal]
      BY <3>1, <3>2
    <3> QED
      BY <1>0, <1>2, <3>3 DEF IInv, TypeOK
  <2>7. prop[p].accepted = {}
    BY <1>0 DEF IInv, BrainMatchesRecord, Landed
  <2>8. ASSUME NEW q \in Proposed
        PROVE  /\ prop'[q].accepted = prop[q].accepted
               /\ prop'[q].st \in Landed <=> prop[q].st \in Landed
    <3>1. CASE q = p
      BY <3>1, <1>0, <2>2, <2>3, <2>7 DEF Landed
    <3>2. CASE q # p /\ Stale(q, t, d)
      <4>1. prop[q].accepted = {}
        BY <3>2, <2>4 DEF IInv, BrainMatchesRecord, Landed
      <4> QED
        BY <3>2, <4>1, <2>4 DEF Landed
    <3>3. CASE q # p /\ ~Stale(q, t, d)
      BY <3>3, <2>5
    <3> QED
      BY <3>1, <3>2, <3>3
  <2>9. BrainMatchesRecord'
    BY <1>0, <2>8 DEF IInv, BrainMatchesRecord
  <2>10. NoEmptyShell'
    BY <2>2, <2>3, <2>4, <2>5, <2>8 DEF IInv, NoEmptyShell
  <2>11. SourcesRecorded'
    <3> SUFFICES ASSUME NEW q \in Proposed, prop'[q].st = "pending"
                 PROVE  (\A e \in prop'[q].cites : Live(e)) \/ prop'[q].lost # {}
      BY <1>0 DEF SourcesRecorded, Live
    <3>1. CASE q = p
      BY <3>1, <1>4, <2>2, <2>3
    <3>2. CASE q # p
      BY <3>2, <2>4, <2>5 DEF IInv, SourcesRecorded
    <3> QED
      BY <3>1, <3>2
  <2> QED
    BY <1>0, <1>2, <2>6, <2>9, <2>10, <2>11 DEF IInv, Hashed, Live, AutoApprovedIsSourced
<1> QED
  BY <1>3, <1>4 DEF Insert

(* What a commit leaves of the brain and of the record.                    *)
LEMMA CommitInv ==
  ASSUME IInv, NEW p \in Proposed, NEW accepts \in SUBSET Items,
         NEW landed \in Outcomes(p, accepts), Commit(p, accepts, landed),
         UNCHANGED <<doc, edits, archived, ran>>,
         run' \in [Synths -> Run], RunsWork',
         desk' \in [Desks -> Decision \cup {None}], orphaned' = orphaned
  PROVE  IInv'
<1>0. prop[p].st = "pending" /\ prop[p] \in Proposal
  BY DEF Commit, Finalizable, Open, IInv, TypeOK
<1>1. landed \in SUBSET Items
  BY DEF Outcomes, Added, Items
<1> DEFINE st == Verdict(p, landed)
           entity == EntityAfter(p, accepts, landed)
           new == Closed(p, st, landed, entity)
<1>2. st \in Statuses /\ (st \in Landed <=> landed # {}) /\ st # "pending"
  BY DEF Verdict, Statuses, Landed
<1>3. entity \in Existing \cup Proposed \cup {None}
  BY <1>0 DEF EntityAfter, Proposal
<1>4. entity = p => landed # {}
  <2>1. prop[p].accepted = {}
    BY <1>0 DEF IInv, BrainMatchesRecord, Landed
  <2>2. prop[p].entity # p
    BY <2>1 DEF IInv, NoEmptyShell
  <2> QED
    BY <2>2 DEF EntityAfter
<1>5. prop' = [prop EXCEPT ![p] = new]
  BY DEF Commit
<1> HIDE DEF st, entity
<1>6. new \in Proposal /\ new.st = st /\ new.accepted = landed /\ new.entity = entity
  BY <1>1, <1>2, <1>3, ClosedType
<1> HIDE DEF new
<1>7. prop'[p] = new /\ \A q \in Proposed : q # p => prop'[q] = prop[q]
  BY <1>5 DEF IInv, TypeOK
<1>8. TypeOK'
  <2>1. prop' \in [Proposed -> Proposal]
    BY <1>5, <1>6 DEF IInv, TypeOK
  <2>2. fact' \subseteq Proposed \X Bodies /\ fact \subseteq fact'
    BY DEF Commit, IInv, TypeOK
  <2> QED
    BY <2>1, <2>2 DEF IInv, TypeOK
<1>9. BrainMatchesRecord'
  <2>1. {f \in fact : f[1] = p} = {}
    BY <1>0 DEF IInv, BrainMatchesRecord, Landed
  <2>2. {f \in fact' : f[1] = p} = {p} \X (landed \cap Bodies)
    BY <2>1 DEF Commit
  <2>3. \A q \in Proposed : q # p => {f \in fact' : f[1] = q} = {f \in fact : f[1] = q}
    BY DEF Commit
  <2> QED
    BY <1>2, <1>6, <1>7, <2>2, <2>3 DEF IInv, BrainMatchesRecord
<1>10. NoEmptyShell'
  BY <1>4, <1>6, <1>7 DEF IInv, NoEmptyShell
<1>11. SourcesRecorded'
  <2> SUFFICES ASSUME NEW q \in Proposed, prop'[q].st = "pending"
               PROVE  (\A e \in prop'[q].cites : Live(e)) \/ prop'[q].lost # {}
    BY DEF SourcesRecorded, Live
  <2>1. q # p
    BY <1>2, <1>6, <1>7
  <2> QED
    BY <1>7, <2>1 DEF IInv, SourcesRecorded
<1> QED
  BY <1>8, <1>9, <1>10, <1>11 DEF IInv, Hashed, Live, AutoApprovedIsSourced

LEMMA ResolveInv == ASSUME IInv, NEW r \in Desks, Resolve(r) PROVE IInv'
<1>1. desk[r] \in Decision
  BY DEF Resolve, IInv, TypeOK
<1>2. desk' \in [Desks -> Decision \cup {None}] /\ run' \in [Synths -> Run] /\ RunsWork'
  BY DEF Resolve, IInv, TypeOK, RunsWork
<1>3. PICK landed \in Outcomes(desk[r].prop, desk[r].accepts) :
        Commit(desk[r].prop, desk[r].accepts, landed)
  BY DEF Resolve
<1>4. desk[r].prop \in Proposed /\ desk[r].accepts \in SUBSET Items
  BY <1>1 DEF Decision
<1> QED
  BY <1>2, <1>3, <1>4, CommitInv DEF Resolve

(* An automatic resolution finds no record of a lost document, so none is  *)
(* lost.                                                                   *)
LEMMA ResolveAutoInv == ASSUME IInv, NEW s \in Synths, ResolveAuto(s) PROVE IInv'
<1> DEFINE p == run[s].prop
           n == [run[s] EXCEPT !.at = "writing", !.left = run[s].left - 1, !.prop = None]
<1>0. /\ run[s] \in Run /\ run[s].at = "resolving" /\ p \in Proposed
      /\ run[s].left > 0 /\ run[s].doc \in Docs
  BY DEF ResolveAuto, IInv, TypeOK, RunsWork, Working
<1>1. run[s].left - 1 \in 0..MaxBundles
  BY <1>0, ProposalsAssumption DEF Run
<1>2. n \in Run /\ n.at = "writing" /\ n.doc = run[s].doc
  BY <1>0, <1>1 DEF Run
<1>3. Working(n)
  BY <1>0, <1>2 DEF Working
<1>4. run' = [run EXCEPT ![s] = n]
  BY DEF ResolveAuto
<1> HIDE DEF n
<1>5. run' \in [Synths -> Run] /\ RunsWork'
  BY <1>3, <1>4, RunsStep
<1>6. UNCHANGED <<doc, edits, archived, desk, ran>>
  BY DEF ResolveAuto
<1>7. CASE UNCHANGED <<prop, fact, orphaned>>
  BY <1>5, <1>6, <1>7, QuietInv DEF IInv, TypeOK
<1>8. CASE /\ ~Vanished(p)
           /\ \E landed \in Outcomes(p, prop[p].items) : Commit(p, prop[p].items, landed)
           /\ orphaned' = IF \E d \in prop[p].cites : ~Live(d)
                          THEN orphaned \cup {p} ELSE orphaned
  <2>1. PICK landed \in Outcomes(p, prop[p].items) : Commit(p, prop[p].items, landed)
    BY <1>8
  <2>2. prop[p].st = "pending"
    BY <2>1 DEF Commit, Finalizable, Open
  <2>3. \A d \in prop[p].cites : Live(d)
    BY <1>0, <1>8, <2>2 DEF Vanished, IInv, SourcesRecorded
  <2>4. orphaned' = orphaned
    BY <1>8, <2>3
  <2>5. prop[p].items \in SUBSET Items
    BY <1>0 DEF IInv, TypeOK, Proposal
  <2>6. desk' \in [Desks -> Decision \cup {None}]
    BY <1>6 DEF IInv, TypeOK
  <2> QED
    BY <1>0, <1>5, <1>6, <2>1, <2>4, <2>5, <2>6, CommitInv
<1> QED
  BY <1>7, <1>8 DEF ResolveAuto

-----------------------------------------------------------------------------
THEOREM Inductive == Spec => []IInv
<1>1. Init => IInv
  BY InitInv
<1>2. IInv /\ [Next]_vars => IInv'
  <2> SUFFICES ASSUME IInv, [Next]_vars PROVE IInv'
    OBVIOUS
  <2>1. ASSUME NEW d \in Docs, Ingest(d) \/ Delete(d) \/ \E c \in Contents : Stage(d, c)
        PROVE  IInv'
    BY <2>1, DocInv, DeleteInv
  <2>2. ASSUME NEW s \in Synths, (\E d \in Docs, force \in BOOLEAN : Start(s, d, force))
                                 \/ Answer(s) \/ Fail(s)
        PROVE  IInv'
    BY <2>2, RunInv
  <2>3. ASSUME NEW s \in Synths, AnswerEmpty(s) \/ Finish(s) PROVE IInv'
    BY <2>3, WatermarkInv DEF AnswerEmpty, Finish
  <2>4. ASSUME NEW s \in Synths, run[s].at = "writing",
               NEW p \in Proposed, NEW t \in Names \cup Existing,
               NEW items \in SUBSET Items, NEW others \in SUBSET (Docs \ {run[s].doc}),
               NEW auto \in BOOLEAN, Insert(s, p, t, items, others, auto)
        PROVE  IInv'
    BY <2>4, InsertInv
  <2>5. ASSUME NEW s \in Synths, ResolveAuto(s) PROVE IInv'
    BY <2>5, ResolveAutoInv
  <2>6. ASSUME NEW r \in Desks,
               (\E p \in Proposed, accepts \in SUBSET Items : Load(r, p, accepts)) \/ GiveUp(r)
        PROVE  IInv'
    BY <2>6, DeskInv
  <2>7. ASSUME NEW r \in Desks, Resolve(r) PROVE IInv'
    BY <2>7, ResolveInv
  <2>8. ASSUME NEW f \in fact, Archive(f) PROVE IInv'
    BY <2>8, ArchiveInv
  <2>9. CASE UNCHANGED vars
    BY <2>9, QuietInv DEF vars, IInv, TypeOK, RunsWork
  <2> QED
    BY <2>1, <2>2, <2>3, <2>4, <2>5, <2>6, <2>7, <2>8, <2>9 DEF Next
<1> QED
  BY <1>1, <1>2, PTL DEF Spec

(* Every reachable state is well typed.                                    *)
THEOREM TypeCorrect == Spec => []TypeOK
BY Inductive, PTL DEF IInv

(* resolve_proposal and insert_proposal never both have their way with a   *)
(* proposal: its facts are those its record says were accepted.            *)
THEOREM RecordsAreTrue == Spec => []BrainMatchesRecord
BY Inductive, PTL DEF IInv

(* The synthesis approves nothing a cited document of which is gone.       *)
THEOREM AutoApprovalsAreSourced == Spec => []AutoApprovedIsSourced
BY Inductive, PTL DEF IInv

(* The empty-shell rollback leaves no minted entity without content.       *)
THEOREM NoShells == Spec => []NoEmptyShell
BY Inductive, PTL DEF IInv
=============================================================================
