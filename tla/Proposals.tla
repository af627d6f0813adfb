------------------------------ MODULE Proposals ------------------------------
(***************************************************************************)
(* From a document to facts: synthesis proposes, a person, an agent or the *)
(* synthesis itself decides, and one transaction commits what was accepted *)
(* (src-tauri/src/librarian/synthesis.rs, librarian/mod.rs,                *)
(* db/proposals.rs, db/commit.rs, db/proposals_review.rs, proposals_api.rs)*)
(*                                                                         *)
(* The model that is asked and the provider that embeds are slow: between  *)
(* reading a document and writing its proposals, and between loading a     *)
(* proposal and resolving it, the watcher stages and deletes documents,    *)
(* other synthesis runs supersede proposals, and other desks resolve them. *)
(*                                                                         *)
(* Abstracted: a document is one chunk, named by its content; every item   *)
(* quotes the document that triggered its proposal.  Items that add a fact *)
(* are told apart by the fact's text; Other stands for any item else, whose*)
(* commit may also be dropped or fail.  Ids of documents, proposals and    *)
(* entities are never reused; an entity minted for a proposal has its id.  *)
(***************************************************************************)
EXTENDS Naturals, FiniteSets

CONSTANTS
  Docs,        \* ids of documents
  Contents,    \* content hashes
  Names,       \* names of entities that are only proposed
  Existing,    \* entities that are there
  Bodies,      \* texts of facts
  Other,       \* an item that adds no fact
  Proposed,    \* ids of proposals
  Synths,      \* synthesis runs: the pipeline's worker, ct synth
  Desks,       \* resolvers: the desktop's desk, ct, the MCP server
  MaxBundles,  \* proposals one answer yields
  MaxEdits,    \* bound on edits and deletions of documents
  None

ASSUME ProposalsAssumption ==
  /\ None \notin Contents \cup Proposed \cup Existing
  /\ Other \notin Bodies
  /\ Names \cap Existing = {} /\ Proposed \cap Existing = {}
  /\ MaxBundles \in Nat \ {0} /\ MaxEdits \in Nat

VARIABLES
  doc,       \* documents: hash, the chunk's content, and the watermark
  edits,     \* edits and deletions so far
  prop,      \* curated_proposals with items and sources
  fact,      \* llm_wiki_entries added by proposals, as <<proposal, body>>
  archived,  \* those of them archived since
  run,       \* synthesis runs
  desk,      \* per resolver: the proposal it loaded and what it accepts
  ran,       \* (history) per document: the content its last synthesis read
  orphaned   \* (history) auto-approved proposals with a cited document gone

vars == <<doc, edits, prop, fact, archived, run, desk, ran, orphaned>>

Items    == Bodies \cup {Other}
Open     == {"pending"}
Landed   == {"approved", "partial"}
Statuses == {"none", "pending", "superseded", "rejected"} \cup Landed
Lost     == [hash : Contents, role : {"trigger", "evidence"}]

Document == [st : {"absent", "live", "gone"}, hash : Contents \cup {None},
             text : Contents \cup {None}, synth : Contents \cup {None}]
Proposal == [st : Statuses, target : Names \cup Existing \cup {None},
             items : SUBSET Items, accepted : SUBSET Items,
             trigger : Docs \cup {None}, cites : SUBSET Docs, quote : Contents \cup {None},
             lost : SUBSET Lost, entity : Existing \cup Proposed \cup {None}]
Run == [at : {"idle", "asking", "writing", "resolving"},
        doc : Docs \cup {None}, read : Contents \cup {None}, left : 0..MaxBundles,
        prop : Proposed \cup {None}]
Decision == [prop : Proposed, accepts : SUBSET Items]

TypeOK ==
  /\ doc \in [Docs -> Document] /\ edits \in Nat
  /\ prop \in [Proposed -> Proposal]
  /\ fact \subseteq Proposed \X Bodies /\ archived \subseteq fact
  /\ run \in [Synths -> Run]
  /\ desk \in [Desks -> Decision \cup {None}]
  /\ ran \in [Docs -> Contents \cup {None}]
  /\ orphaned \subseteq Proposed

NoDocument == [st |-> "absent", hash |-> None, text |-> None, synth |-> None]
NoProposal == [st |-> "none", target |-> None, items |-> {}, accepted |-> {},
               trigger |-> None, cites |-> {}, quote |-> None, lost |-> {},
               entity |-> None]
Idle == [at |-> "idle", doc |-> None, read |-> None, left |-> 0, prop |-> None]

Init ==
  /\ doc = [d \in Docs |-> NoDocument] /\ edits = 0
  /\ prop = [p \in Proposed |-> NoProposal]
  /\ fact = {} /\ archived = {}
  /\ run = [s \in Synths |-> Idle] /\ desk = [r \in Desks |-> None]
  /\ ran = [d \in Docs |-> None] /\ orphaned = {}

Live(d) == doc[d].st = "live"
Edited == edits < MaxEdits /\ edits' = edits + 1

-----------------------------------------------------------------------------
(* Documents *)

(* enqueue_vault_event: a file appears, or an edit is staged; the chunks    *)
(* stay what they were until the row is ingested.                          *)
Stage(d, c) ==
  /\ \/ doc[d].st = "absent" /\ UNCHANGED edits
     \/ Live(d) /\ doc[d].hash # c /\ Edited
  /\ doc' = [doc EXCEPT ![d] = [@ EXCEPT !.st = "live", !.hash = c]]
  /\ UNCHANGED <<prop, fact, archived, run, desk, ran, orphaned>>

(* ingest_file, as far as the chunks go.                                   *)
Ingest(d) ==
  /\ Live(d) /\ doc[d].text # doc[d].hash
  /\ doc' = [doc EXCEPT ![d] = [@ EXCEPT !.text = doc[d].hash]]
  /\ UNCHANGED <<edits, prop, fact, archived, run, desk, ran, orphaned>>

(* record_deleted_sources: only pending proposals keep a record.           *)
RecordLost(d) ==
  prop' = [p \in Proposed |->
    IF prop[p].st \in Open /\ d \in prop[p].cites
    THEN [prop[p] EXCEPT !.lost = @ \cup
            {[hash |-> doc[d].hash,
              role |-> IF prop[p].trigger = d THEN "trigger" ELSE "evidence"]}]
    ELSE prop[p]]

(* Mutant: the row is deleted and no proposal told.                        *)
DeleteUnrecorded(d) ==
  /\ Live(d)
  /\ Edited
  /\ doc' = [doc EXCEPT ![d] = [NoDocument EXCEPT !.st = "gone"]]
  /\ ran' = [ran EXCEPT ![d] = None]
  /\ UNCHANGED <<prop, fact, archived, run, desk, orphaned>>

(* delete_document: the record and the row in one transaction; the sources *)
(* cascade, so a proposal's sources are the cited documents still live.    *)
Delete(d) ==
  /\ Live(d)
  /\ RecordLost(d)
  /\ Edited
  /\ doc' = [doc EXCEPT ![d] = [NoDocument EXCEPT !.st = "gone"]]
  /\ ran' = [ran EXCEPT ![d] = None]
  /\ UNCHANGED <<fact, archived, run, desk, orphaned>>

-----------------------------------------------------------------------------
(* Synthesis *)

Anchored(c) == \E d \in Docs : Live(d) /\ doc[d].text = c

(* is_doc_clean                                                            *)
Clean(d) == doc[d].synth = doc[d].hash

(* generate_summary: the chunks are read and the watermark asked, unless   *)
(* the run is forced; then the model is asked.                             *)
Start(s, d, force) ==
  /\ run[s].at = "idle" /\ Live(d) /\ doc[d].text # None
  /\ force \/ ~Clean(d)
  /\ run' = [run EXCEPT ![s] = [Idle EXCEPT !.at = "asking", !.doc = d,
                                            !.read = doc[d].text]]
  /\ UNCHANGED <<doc, edits, prop, fact, archived, desk, ran, orphaned>>

(* write_synth_watermark: with the hash as it is by now.                   *)
Watermark(s) ==
  LET d == run[s].doc IN
  /\ doc' = IF Live(d) THEN [doc EXCEPT ![d] = [@ EXCEPT !.synth = doc[d].hash]]
            ELSE doc
  /\ ran' = IF Live(d) THEN [ran EXCEPT ![d] = run[s].read] ELSE ran
  /\ run' = [run EXCEPT ![s] = Idle]

(* The answer holds nothing to propose; or some bundles, which are written *)
(* if the document is still there.                                         *)
AnswerEmpty(s) ==
  /\ run[s].at = "asking"
  /\ Watermark(s)
  /\ UNCHANGED <<edits, prop, fact, archived, desk, orphaned>>

Answer(s) ==
  /\ run[s].at = "asking"
  /\ \E n \in 1..MaxBundles :
       run' = [run EXCEPT ![s] = IF Live(run[s].doc)
                                 THEN [@ EXCEPT !.at = "writing", !.left = n] ELSE Idle]
  /\ UNCHANGED <<doc, edits, prop, fact, archived, desk, ran, orphaned>>

(* Every other way out: no usable answer, a loud error such as a proposal  *)
(* that somebody else resolved meanwhile, or a death.                      *)
Fail(s) ==
  /\ run[s].at # "idle"
  /\ run' = [run EXCEPT ![s] = Idle]
  /\ UNCHANGED <<doc, edits, prop, fact, archived, desk, ran, orphaned>>

(* Nothing asks for the items and sources of a proposal that is not        *)
(* pending, and the model forgets them.                                    *)
Closed(p, st, landed, entity) ==
  [NoProposal EXCEPT !.st = st, !.accepted = landed, !.entity = entity]

(* Is q, for the same target, out of date once d has been read again, or   *)
(* moved?                                                                  *)
Stale(q, t, d) ==
  /\ prop[q].st \in Open /\ prop[q].target = t
  /\ \/ prop[q].trigger = d
     \/ [hash |-> doc[d].hash, role |-> "trigger"] \in prop[q].lost

(* insert_proposal: one transaction, refused by a foreign key when a cited *)
(* document is gone; that ends the run.                                    *)
Insert(s, p, t, items, others, auto) ==
  LET d == run[s].doc  cites == {d} \cup others IN
  /\ run[s].at = "writing" /\ run[s].left > 0 /\ prop[p].st = "none" /\ items # {}
  /\ \A d2 \in cites : doc[d2].st # "absent"
  /\ \/ /\ \E d2 \in cites : ~Live(d2)
        /\ run' = [run EXCEPT ![s] = Idle] /\ UNCHANGED prop
     \/ /\ \A d2 \in cites : Live(d2)
        /\ prop' = [q \in Proposed |->
             IF q = p
             THEN [NoProposal EXCEPT !.st = "pending", !.target = t, !.items = items,
                     !.trigger = d, !.cites = cites, !.quote = run[s].read,
                     !.entity = IF t \in Existing THEN t ELSE None]
             ELSE IF Stale(q, t, d) THEN Closed(q, "superseded", {}, prop[q].entity)
             ELSE prop[q]]
        /\ run' = [run EXCEPT ![s] =
             IF auto THEN [run[s] EXCEPT !.at = "resolving", !.prop = p]
             ELSE [run[s] EXCEPT !.left = run[s].left - 1]]
  /\ UNCHANGED <<doc, edits, fact, archived, desk, ran, orphaned>>

(* The last bundle is written.                                             *)
Finish(s) ==
  /\ run[s].at = "writing" /\ run[s].left = 0
  /\ Watermark(s)
  /\ UNCHANGED <<edits, prop, fact, archived, desk, orphaned>>

-----------------------------------------------------------------------------
(* Resolution *)

(* resolve_proposal before its transaction: a proposal that is not pending *)
(* is refused; then the entries are embedded.  An automatic resolution has *)
(* its decision from the start: to accept everything.                      *)
Load(r, p, accepts) ==
  /\ desk[r] = None /\ prop[p].st \in Open /\ accepts \subseteq prop[p].items
  /\ desk' = [desk EXCEPT ![r] = [prop |-> p, accepts |-> accepts]]
  /\ UNCHANGED <<doc, edits, prop, fact, archived, run, ran, orphaned>>

(* The entity a proposal's facts belong to: its own, or the one that would *)
(* be minted for it.                                                       *)
Owner(p) == IF prop[p].entity = None THEN p ELSE prop[p].entity

(* commit_fact_add skips a fact the entity has, and one whose quote is in  *)
(* no chunk any more.                                                      *)
Lands(p, b) ==
  /\ Anchored(prop[p].quote)
  /\ \A f \in fact \ archived : Owner(f[1]) = Owner(p) => f[2] # b

Added(p, accepts) == {b \in accepts \cap Bodies : Lands(p, b)}

(* The outcomes of the items: what landed.                                 *)
Outcomes(p, accepts) ==
  {Added(p, accepts)} \cup
  (IF Other \in accepts THEN {Added(p, accepts) \cup {Other}} ELSE {})

(* finalize_proposal_status                                                *)
Verdict(p, landed) ==
  IF landed = {} THEN "rejected" ELSE IF landed = prop[p].items THEN "approved" ELSE "partial"

(* create_entity_if_needed, and the empty-shell rollback: an entity minted *)
(* here for which nothing landed is deleted again.                         *)
EntityAfter(p, accepts, landed) ==
  IF prop[p].entity = None /\ landed # {} THEN p ELSE prop[p].entity

(* Mutant: the check before the transaction is enough.                     *)
LoadedIsEnough(p) == TRUE

(* finalize_proposal_status_guarded, which ends the transaction.           *)
Finalizable(p) == prop[p].st \in Open

(* Sources deleted while it was pending.                                   *)
Vanished(p) == prop[p].lost # {}

(* The transaction commits.                                                *)
Commit(p, accepts, landed) ==
  /\ Finalizable(p)
  /\ prop' = [prop EXCEPT ![p] =
       Closed(p, Verdict(p, landed), landed, EntityAfter(p, accepts, landed))]
  /\ fact' = fact \cup {<<p, b>> : b \in landed \cap Bodies}

(* An automatic resolution accepts every item, and refuses a proposal that *)
(* lost a source: that bundle is left pending and the run goes on.         *)
ResolveAuto(s) ==
  LET p == run[s].prop
      next == [run[s] EXCEPT !.at = "writing", !.left = @ - 1, !.prop = None] IN
  /\ run[s].at = "resolving"
  /\ run' = [run EXCEPT ![s] = next]
  /\ \/ Vanished(p) /\ UNCHANGED <<prop, fact, orphaned>>
     \/ /\ ~Vanished(p)
        /\ \E landed \in Outcomes(p, prop[p].items) : Commit(p, prop[p].items, landed)
        /\ orphaned' = IF \E d \in prop[p].cites : ~Live(d)
                       THEN orphaned \cup {p} ELSE orphaned
  /\ UNCHANGED <<doc, edits, archived, desk, ran>>

Resolve(r) ==
  /\ desk[r] # None
  /\ \E landed \in Outcomes(desk[r].prop, desk[r].accepts) :
       Commit(desk[r].prop, desk[r].accepts, landed)
  /\ desk' = [desk EXCEPT ![r] = None]
  /\ UNCHANGED <<doc, edits, archived, run, ran, orphaned>>

(* An item fails, the gate holds the new entity, or another resolution was *)
(* first: the transaction rolls back.  Or the resolver dies.               *)
GiveUp(r) ==
  /\ desk[r] # None
  /\ desk' = [desk EXCEPT ![r] = None]
  /\ UNCHANGED <<doc, edits, prop, fact, archived, run, ran, orphaned>>

(* archive_wisdom                                                          *)
Archive(f) ==
  /\ f \in fact \ archived
  /\ archived' = archived \cup {f}
  /\ UNCHANGED <<doc, edits, prop, fact, run, desk, ran, orphaned>>

Next ==
  \/ \E d \in Docs : Ingest(d) \/ Delete(d) \/ \E c \in Contents : Stage(d, c)
  \/ \E s \in Synths :
       \/ \E d \in Docs, force \in BOOLEAN : Start(s, d, force)
       \/ AnswerEmpty(s) \/ Answer(s) \/ Fail(s) \/ Finish(s)
       \/ /\ run[s].at = "writing"
          /\ \E p \in Proposed, t \in Names \cup Existing, items \in SUBSET Items,
                others \in SUBSET (Docs \ {run[s].doc}), auto \in BOOLEAN :
               Insert(s, p, t, items, others, auto)
       \/ ResolveAuto(s)
  \/ \E r \in Desks : \/ \E p \in Proposed, accepts \in SUBSET Items : Load(r, p, accepts)
                      \/ Resolve(r) \/ GiveUp(r)
  \/ \E f \in fact : Archive(f)

Spec == Init /\ [][Next]_vars

-----------------------------------------------------------------------------
(* What the brain holds of a proposal is what its record says was accepted:*)
(* two desks, a desk and the synthesis, or a desk and a run that supersedes*)
(* it never both have their way with one proposal.                         *)
BrainMatchesRecord ==
  \A p \in Proposed :
    /\ {f \in fact : f[1] = p} = {p} \X (prop[p].accepted \cap Bodies)
    /\ prop[p].st \in Landed <=> prop[p].accepted # {}

(* Nothing is approved without a person once a document it cites is gone,  *)
(* however late the deletion comes.                                        *)
AutoApprovedIsSourced == orphaned = {}

(* No resolution leaves an entity behind for which nothing landed.         *)
NoEmptyShell ==
  \A p \in Proposed : prop[p].entity = p => prop[p].accepted # {}

(* "Skip docs whose content hash ... match the last successful synthesis": *)
(* the content a document is marked with is the one its synthesis read.    *)
MarkIsWhatWasRead == \A d \in Docs : doc[d].synth = ran[d]
=============================================================================
