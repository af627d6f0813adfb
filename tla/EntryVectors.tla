---------------------------- MODULE EntryVectors ----------------------------
(***************************************************************************)
(* The vectors of wiki entries and the scheme they are embedded under      *)
(* (src-tauri/src/embed_sweep.rs, embed_scheme.rs, and the writers of      *)
(* entries in db/commit.rs, db/wisdom.rs, db/bundle_apply.rs, db/queue.rs).*)
(*                                                                         *)
(* An entry's vector is computed by a slow provider, so every reader and   *)
(* every sweep lets go of the database between reading what it embeds and  *)
(* using the result.  Sweeps fill vectors that are missing or of an old    *)
(* scheme; writers store a vector with the text or leave it to the sweeps; *)
(* one command moves the readers to the new scheme for good.               *)
(*                                                                         *)
(* Abstracted: a vector is the scheme and the text it was computed from.   *)
(* Writers embed the very text they then write, and nothing changes a      *)
(* proposal's items in between, so their embedding and their transaction   *)
(* are one step.  The bound on batches per run is not modelled: a sweep    *)
(* that stops there is a sweep that is not continued.                      *)
(***************************************************************************)
EXTENDS Naturals, FiniteSets

CONSTANTS
  Entries,     \* ids of wiki entries
  Bodies,      \* texts an entry may have
  Titles,
  TitleOf,     \* the title fact_title_from_body derives from a body
  Sweepers,    \* sweeps of the desktop, of ct and of graph_reanchor
  Readers,     \* searches under way
  BatchSize,
  None         \* NULL

ASSUME VectorsAssumption ==
  /\ TitleOf \in [Bodies -> Titles]
  /\ BatchSize \in Nat \ {0}

Schemes == {"raw", "instr1"}
WriteScheme == "instr1"

Text   == [title : Titles, body : Bodies]
Vector == [scheme : Schemes, text : Text]

ASSUME NoneAssumption == None \notin Text \cup Vector \cup Schemes

VARIABLES
  entry,     \* llm_wiki_entries: text, vector, stamp, archived or live
  active,    \* llm_wiki_meta.wisdom_active_scheme
  batch,     \* per sweep: the texts it read and is embedding, and which sweep
  query,     \* per reader: the scheme its query is embedded under
  revived,   \* (history) entries un-denied since they were last written
  excused,   \* (history) entries whose text changed under a vector, see below
  crossed    \* (history) a query met a vector of another scheme

vars == <<entry, active, batch, query, revived, excused, crossed>>

Absent == [st |-> "absent", text |-> None, vec |-> None, stamp |-> "raw"]

Row == [st : {"absent", "live", "archived"}, text : Text \cup {None},
        vec : Vector \cup {None}, stamp : Schemes]

Batch == [kind : {"null", "scheme"}, text : [Entries -> Text \cup {None}]]

TypeOK ==
  /\ entry \in [Entries -> Row]
  /\ active \in Schemes
  /\ batch \in [Sweepers -> Batch \cup {None}]
  /\ query \in [Readers -> Schemes \cup {None}]
  /\ revived \subseteq Entries /\ excused \subseteq Entries
  /\ crossed \in BOOLEAN

(* doc_text_for_entry, and the vector the provider returns for it.         *)
Embedded(text) == [scheme |-> WriteScheme, text |-> text]

(* Title and body as every writer but the import derives them.             *)
Derived(b) == [title |-> TitleOf[b], body |-> b]

Pending(kind, r) ==
  /\ r.st = "live"
  /\ \/ kind = "null" /\ r.vec = None
     \/ kind = "scheme" /\ r.vec # None /\ r.stamp # WriteScheme

(* count_unstamped_entries                                                 *)
Unstamped == {e \in Entries : Pending("scheme", entry[e])}

(* The brain as V27 finds it: vectors of the text they stand beside.       *)
Init ==
  /\ entry \in [Entries ->
       {Absent} \cup {[st |-> l, text |-> t, vec |-> v, stamp |-> "raw"] :
                        l \in {"live", "archived"}, t \in Text,
                        v \in {None} \cup [scheme : {"raw"}, text : Text]}]
  /\ \A e \in Entries : entry[e].vec # None => entry[e].vec.text = entry[e].text
  /\ active = "raw"
  /\ batch = [s \in Sweepers |-> None] /\ query = [r \in Readers |-> None]
  /\ revived = {} /\ excused = {} /\ crossed = FALSE

-----------------------------------------------------------------------------
(* Sweeps *)

(* pending_null_batch and pending_scheme_batch: the first BatchSize ids,   *)
(* and ids are random.                                                     *)
ReadBatch(s, kind) ==
  LET pending == {e \in Entries : Pending(kind, entry[e])}
  IN  /\ batch[s] = None /\ pending # {}
      /\ \E S \in SUBSET pending :
           /\ Cardinality(S) = IF Cardinality(pending) < BatchSize
                               THEN Cardinality(pending) ELSE BatchSize
           /\ batch' = [batch EXCEPT ![s] =
                 [kind |-> kind,
                  text |-> [e \in Entries |-> IF e \in S THEN entry[e].text ELSE None]]]
      /\ UNCHANGED <<entry, active, query, revived, excused, crossed>>

(* Mutant: the null sweep does not ask again whether the vector is missing. *)
ApplyUnguarded(s) ==
  /\ batch[s] # None
  /\ LET b == batch[s] IN
       entry' = [e \in Entries |->
                   IF b.text[e] # None /\ entry[e].st = "live"
                      /\ (b.kind = "scheme" => Pending("scheme", entry[e]))
                   THEN [entry[e] EXCEPT !.vec = Embedded(b.text[e]),
                                         !.stamp = WriteScheme]
                   ELSE entry[e]]
  /\ batch' = [batch EXCEPT ![s] = None]
  /\ UNCHANGED <<active, query, revived, excused, crossed>>

(* Mutant: the stamp is left to the column's default.                      *)
ApplyUnstamped(s) ==
  /\ batch[s] # None
  /\ LET b == batch[s] IN
       entry' = [e \in Entries |->
                   IF b.text[e] # None /\ Pending(b.kind, entry[e])
                   THEN [entry[e] EXCEPT !.vec = Embedded(b.text[e])]
                   ELSE entry[e]]
  /\ batch' = [batch EXCEPT ![s] = None]
  /\ UNCHANGED <<active, query, revived, excused, crossed>>

(* apply_embeddings and apply_scheme_embeddings: one transaction for the   *)
(* batch; each UPDATE repeats the condition its row was selected by, and   *)
(* writes vector and stamp together.                                       *)
ApplyEmbeddings(s) ==
  /\ batch[s] # None
  /\ LET b == batch[s] IN
       entry' = [e \in Entries |->
                   IF b.text[e] # None /\ Pending(b.kind, entry[e])
                   THEN [entry[e] EXCEPT !.vec = Embedded(b.text[e]),
                                         !.stamp = WriteScheme]
                   ELSE entry[e]]
  /\ batch' = [batch EXCEPT ![s] = None]
  /\ UNCHANGED <<active, query, revived, excused, crossed>>

(* The provider fails or returns another number of vectors, or the process *)
(* dies: nothing of the batch is written.                                  *)
BatchFails(s) ==
  /\ batch[s] # None
  /\ batch' = [batch EXCEPT ![s] = None]
  /\ UNCHANGED <<entry, active, query, revived, excused, crossed>>

-----------------------------------------------------------------------------
(* Writers *)

(* A row gets new content.  Two known ways leave a vector of another text  *)
(* behind, and the entry is excused until it is written again: the vector  *)
(* is left to the sweeps while one of them already embeds the old text, or *)
(* the title changes under a vector that is kept.                          *)
Put(e, row, retitled) ==
  /\ entry' = [entry EXCEPT ![e] = row]
  /\ revived' = IF row.stamp = WriteScheme \/ row.vec = None
                THEN revived \ {e} ELSE revived
  /\ excused' =
       IF \/ retitled
          \/ /\ row.vec = None
             /\ \E s \in Sweepers : batch[s] # None /\ batch[s].text[e] # None
       THEN excused \cup {e} ELSE excused \ {e}
  /\ UNCHANGED <<active, batch, query, crossed>>

(* The new text with its vector, or with none when the provider failed;    *)
(* stamped either way.                                                     *)
Rewritten(b, embeds) ==
  [st |-> "live", text |-> Derived(b), stamp |-> WriteScheme,
   vec |-> IF embeds THEN Embedded(Derived(b)) ELSE None]

(* commit_fact_add                                                         *)
FactAdd(e, b, embeds) ==
  /\ entry[e].st = "absent"
  /\ Put(e, Rewritten(b, embeds), FALSE)

(* update_wisdom: the edit of a fact in the desktop.                       *)
UpdateWisdom(e, b, embeds) ==
  /\ entry[e].st = "live"
  /\ Put(e, Rewritten(b, embeds), FALSE)

(* A vector is kept under a title that is derived again.                   *)
Retitled(e, b) ==
  entry[e].vec # None /\ (entry[e].text # Derived(b) \/ e \in excused)

(* commit_fact_update: with an unchanged body and no new vector, the old   *)
(* vector and its stamp stay, but the title is derived again.              *)
FactUpdate(e, b, embeds) ==
  /\ entry[e].st = "live"
  /\ IF embeds \/ entry[e].text.body # b
     THEN Put(e, Rewritten(b, embeds), FALSE)
     ELSE Put(e, [entry[e] EXCEPT !.text = Derived(b)], Retitled(e, b))

(* A bundle's fact, with the title it has there: no vector, and the stamp  *)
(* is the column's default.  Only a replacing import touches an id that is *)
(* in use; a fact imported as archived is one archived right after.        *)
Import(e, t) ==
  Put(e, [st |-> "live", text |-> t, vec |-> None, stamp |-> "raw"], FALSE)

(* archive_wisdom_in_tx, commit_fact_archive, deny_fact_at                 *)
Archive(e) ==
  /\ entry[e].st = "live"
  /\ entry' = [entry EXCEPT ![e].st = "archived"]
  /\ UNCHANGED <<active, batch, query, revived, excused, crossed>>

(* Un-denying revives the row as it was archived.                          *)
Undeny(e) ==
  /\ entry[e].st = "archived"
  /\ entry' = [entry EXCEPT ![e].st = "live"]
  /\ revived' = revived \cup {e}
  /\ UNCHANGED <<active, batch, query, excused, crossed>>

-----------------------------------------------------------------------------
(* Cutover and readers *)

(* activate_instr1                                                         *)
Activate ==
  /\ Unstamped = {} /\ active # WriteScheme
  /\ active' = WriteScheme
  /\ UNCHANGED <<entry, batch, query, revived, excused, crossed>>

(* reader_scheme: resolved once; the query is then embedded under it.      *)
Resolve(r) ==
  /\ query[r] = None
  /\ query' = [query EXCEPT ![r] = active]
  /\ UNCHANGED <<entry, active, batch, revived, excused, crossed>>

Candidates(scheme) ==
  {e \in Entries : entry[e].st = "live" /\ entry[e].vec # None /\ entry[e].stamp = scheme}

Compare(r, scheme) ==
  /\ query[r] # None
  /\ crossed' = (crossed \/ \E e \in Candidates(scheme) : entry[e].vec.scheme # query[r])
  /\ query' = [query EXCEPT ![r] = None]
  /\ UNCHANGED <<entry, active, batch, revived, excused>>

(* Mutant: the search resolves the scheme a second time.                   *)
SearchResolvesAgain(r) == Compare(r, active)

(* wiki_search_in_scheme, wisdom_match_in_scheme: the rows of the scheme   *)
(* the query was embedded under.                                           *)
Search(r) == Compare(r, query[r])

Next ==
  \/ \E s \in Sweepers : \/ \E kind \in {"null", "scheme"} : ReadBatch(s, kind)
                         \/ ApplyEmbeddings(s) \/ BatchFails(s)
  \/ \E e \in Entries :
       \/ \E b \in Bodies, embeds \in BOOLEAN :
            FactAdd(e, b, embeds) \/ UpdateWisdom(e, b, embeds) \/ FactUpdate(e, b, embeds)
       \/ \E t \in Text : Import(e, t)
       \/ Archive(e) \/ Undeny(e)
  \/ Activate
  \/ \E r \in Readers : Resolve(r) \/ Search(r)

Spec == Init /\ [][Next]_vars

-----------------------------------------------------------------------------
(* A query is compared only with vectors of the scheme it was itself       *)
(* embedded under, whatever the sweeps, the writers and a cutover do while *)
(* the provider embeds it.                                                 *)
ComparedWithinScheme == ~crossed

(* From the cutover on no live vector is hidden from the readers, which    *)
(* only look at the new scheme; un-denied rows alone come back as they     *)
(* were archived.                                                          *)
CutoverIsComplete == active = WriteScheme => Unstamped \subseteq revived

(* "A stored vector always describes exactly the text" of its entry: a     *)
(* slow sweep never overwrites a newer vector, and an edit never keeps one *)
(* of the old text.                                                        *)
VectorDescribesText ==
  \A e \in Entries \ excused : entry[e].vec # None => entry[e].vec.text = entry[e].text
=============================================================================
