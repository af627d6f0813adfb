------------------------- MODULE EntryVectorsProofs -------------------------
(***************************************************************************)
(* For every number of entries, sweeps and readers, and every batch size:  *)
(* a query meets only vectors of its own scheme, the cutover hides no live *)
(* vector, and a vector describes the text of its entry but for the two    *)
(* known ways.  IInv says of every row what its stamp promises, and of     *)
(* every open batch that a row still waiting for it has the text it read.  *)
(***************************************************************************)
EXTENDS EntryVectors, TLAPS

(* The stamp of a row is the scheme its vector was computed under.         *)
Stamped == \A e \in Entries : entry[e].vec # None => entry[e].vec.scheme = entry[e].stamp

(* A row a sweep would still write has the text that sweep is embedding.   *)
Waits(s, e) ==
  /\ batch[s] # None /\ batch[s].text[e] # None
  /\ \/ batch[s].kind = "null" /\ entry[e].vec = None
     \/ batch[s].kind = "scheme" /\ entry[e].vec # None /\ entry[e].stamp # WriteScheme

BatchesAreCurrent ==
  \A s \in Sweepers, e \in Entries \ excused :
     Waits(s, e) => batch[s].text[e] = entry[e].text

IInv == /\ TypeOK /\ Stamped /\ crossed = FALSE
        /\ CutoverIsComplete /\ VectorDescribesText /\ BatchesAreCurrent

-----------------------------------------------------------------------------
LEMMA InitInv == Init => IInv
<1> SUFFICES ASSUME Init PROVE IInv
  OBVIOUS
<1>1. \A e \in Entries : /\ entry[e] \in Row /\ entry[e].stamp = "raw"
                         /\ entry[e].vec # None => entry[e].vec.scheme = "raw"
  BY DEF Init, Absent, Row, Vector, Schemes
<1>2. TypeOK
  <2>1. entry \in [Entries -> Row]
    BY <1>1 DEF Init
  <2> QED
    BY <2>1 DEF Init, TypeOK, Schemes
<1>3. Stamped
  BY <1>1 DEF Stamped
<1>4. CutoverIsComplete
  BY DEF Init, CutoverIsComplete, WriteScheme
<1>5. VectorDescribesText
  BY DEF Init, VectorDescribesText
<1>6. BatchesAreCurrent
  BY DEF Init, BatchesAreCurrent, Waits
<1> QED
  BY <1>2, <1>3, <1>4, <1>5, <1>6 DEF Init, IInv

(* What every writer's row must be: well typed, stamped with its scheme,   *)
(* of the new scheme or revived before, and of its own text unless excused.*)
LEMMA PutInv ==
  ASSUME IInv, NEW e \in Entries, NEW row \in Row, NEW retitled \in BOOLEAN,
         Put(e, row, retitled),
         row.vec # None => row.vec.scheme = row.stamp,
         row.stamp = WriteScheme \/ row.vec = None \/ (row.vec = entry[e].vec /\ row.stamp = entry[e].stamp
                                                       /\ row.st = entry[e].st),
         retitled = TRUE \/ (row.vec # None => row.vec.text = row.text),
         retitled = TRUE \/ row.vec = None \/ row.stamp = WriteScheme
           \/ (row.text = entry[e].text /\ e \notin excused)
  PROVE  IInv'
<1>1. TypeOK'
  BY DEF Put, IInv, TypeOK
<1>2. Stamped'
  BY DEF Put, IInv, Stamped, TypeOK
<1>3. crossed' = FALSE
  BY DEF Put, IInv
<1>4. CutoverIsComplete'
  <2> SUFFICES ASSUME active' = WriteScheme, NEW f \in Unstamped' PROVE f \in revived'
    BY DEF CutoverIsComplete
  <2>1. active = WriteScheme /\ f \in Entries /\ entry'[f].st = "live" /\ entry'[f].vec # None
        /\ entry'[f].stamp # WriteScheme
    BY DEF Put, Unstamped, Pending
  <2>2. CASE f = e
    <3>1. entry'[f] = row
      BY <2>2 DEF Put, IInv, TypeOK
    <3>2. row.stamp # WriteScheme /\ row.vec # None /\ row.st = "live"
      BY <2>1, <3>1
    <3>3. e \in Unstamped
      BY <3>2 DEF Unstamped, Pending
    <3>4. e \in revived
      BY <2>1, <3>3 DEF IInv, CutoverIsComplete
    <3> QED
      BY <2>2, <3>2, <3>4 DEF Put
  <2>3. CASE f # e
    <3>1. f \in Unstamped
      BY <2>1, <2>3 DEF Put, IInv, TypeOK, Unstamped, Pending
    <3>2. f \in revived
      BY <2>1, <3>1 DEF IInv, CutoverIsComplete
    <3> QED
      BY <3>2, <2>3 DEF Put
  <2> QED
    BY <2>2, <2>3
<1>5. VectorDescribesText'
  <2> SUFFICES ASSUME NEW f \in Entries, f \notin excused', entry'[f].vec # None
               PROVE  entry'[f].vec.text = entry'[f].text
    BY DEF VectorDescribesText
  <2>1. CASE f = e
    <3>1. entry'[f] = row
      BY <2>1 DEF Put, IInv, TypeOK
    <3>2. retitled # TRUE
      BY <2>1 DEF Put
    <3> QED
      BY <3>1, <3>2
  <2>2. CASE f # e
    <3>1. entry'[f] = entry[f] /\ f \notin excused
      BY <2>2 DEF Put, IInv, TypeOK
    <3> QED
      BY <3>1 DEF IInv, VectorDescribesText
  <2> QED
    BY <2>1, <2>2
<1>6. BatchesAreCurrent'
  <2> SUFFICES ASSUME NEW s \in Sweepers, NEW f \in Entries, f \notin excused', Waits(s, f)'
               PROVE  batch'[s].text[f] = entry'[f].text
    BY DEF BatchesAreCurrent
  <2>0. batch' = batch
    BY DEF Put
  <2>1. CASE f = e
    <3>1. entry'[f] = row
      BY <2>1 DEF Put, IInv, TypeOK
    <3>2. batch[s] # None /\ batch[s].text[e] # None
      BY <2>0, <2>1 DEF Waits
    <3>3a. retitled # TRUE
      BY <2>1 DEF Put
    <3>3b. row.vec # None
      <4> SUFFICES ASSUME row.vec = None PROVE FALSE
        OBVIOUS
      <4>1. \E x \in Sweepers : batch[x] # None /\ batch[x].text[e] # None
        BY <3>2
      <4>2. excused' = excused \cup {e}
        BY <4>1 DEF Put
      <4> QED
        BY <2>1, <4>2
    <3>3. retitled # TRUE /\ row.vec # None
      BY <3>3a, <3>3b
    <3>4. batch[s].kind = "scheme" /\ row.stamp # WriteScheme
      BY <2>0, <3>1, <3>3, <2>1 DEF Waits
    <3>5. row.vec = entry[e].vec /\ row.stamp = entry[e].stamp /\ row.text = entry[e].text
      BY <3>3, <3>4
    <3>6. Waits(s, e)
      BY <3>2, <3>3, <3>4, <3>5 DEF Waits
    <3>7. e \notin excused
      BY <3>3, <3>4
    <3> QED
      BY <2>0, <2>1, <3>1, <3>5, <3>6, <3>7 DEF IInv, BatchesAreCurrent
  <2>2. CASE f # e
    <3>1. entry'[f] = entry[f] /\ f \notin excused
      BY <2>2 DEF Put, IInv, TypeOK
    <3>2. Waits(s, f)
      BY <2>0, <3>1 DEF Waits
    <3> QED
      BY <2>0, <3>1, <3>2 DEF IInv, BatchesAreCurrent
  <2> QED
    BY <2>1, <2>2
<1> QED
  BY <1>1, <1>2, <1>3, <1>4, <1>5, <1>6 DEF IInv

(* Reading a batch: what it reads is what the rows hold.                   *)
LEMMA ReadInv ==
  ASSUME IInv, NEW s \in Sweepers, NEW kind \in {"null", "scheme"}, ReadBatch(s, kind)
  PROVE  IInv'
<1> PICK S \in SUBSET Entries :
       /\ \A e \in S : Pending(kind, entry[e])
       /\ batch' = [batch EXCEPT ![s] =
                 [kind |-> kind,
                  text |-> [e \in Entries |-> IF e \in S THEN entry[e].text ELSE None]]]
  BY DEF ReadBatch
<1> DEFINE b == [kind |-> kind,
                 text |-> [e \in Entries |-> IF e \in S THEN entry[e].text ELSE None]]
<1>0. UNCHANGED <<entry, active, query, revived, excused, crossed>>
  BY DEF ReadBatch
<1>1. TypeOK'
  <2>1. \A e \in Entries : entry[e].text \in Text \cup {None}
    BY DEF IInv, TypeOK, Row
  <2>2. b \in Batch
    BY <2>1 DEF Batch
  <2>3. batch' \in [Sweepers -> Batch \cup {None}]
    BY <2>2 DEF IInv, TypeOK
  <2> QED
    BY <1>0, <2>3 DEF IInv, TypeOK
<1>2. BatchesAreCurrent'
  <2> SUFFICES ASSUME NEW x \in Sweepers, NEW f \in Entries, f \notin excused, Waits(x, f)'
               PROVE  batch'[x].text[f] = entry[f].text
    BY <1>0 DEF BatchesAreCurrent
  <2>1. CASE x = s
    <3>1. batch'[x] = b
      BY <2>1 DEF IInv, TypeOK
    <3>2. b.text[f] # None
      BY <3>1 DEF Waits
    <3> QED
      BY <3>1, <3>2
  <2>2. CASE x # s
    <3>1. batch'[x] = batch[x]
      BY <2>2 DEF IInv, TypeOK
    <3>2. Waits(x, f)
      BY <1>0, <3>1 DEF Waits
    <3> QED
      BY <3>1, <3>2 DEF IInv, BatchesAreCurrent
  <2> QED
    BY <2>1, <2>2
<1> QED
  BY <1>0, <1>1, <1>2
  DEF IInv, Stamped, CutoverIsComplete, VectorDescribesText, Unstamped, Pending

(* Writing a batch: vector and stamp go together, and onto the text the    *)
(* batch read.                                                             *)
LEMMA ApplyInv ==
  ASSUME IInv, NEW s \in Sweepers, ApplyEmbeddings(s)
  PROVE  IInv'
<1> DEFINE b == batch[s]
           Written(e) == b.text[e] # None /\ Pending(b.kind, entry[e])
           New(e) == [entry[e] EXCEPT !.vec = Embedded(b.text[e]), !.stamp = WriteScheme]
<1>0. /\ b \in Batch
      /\ batch' = [batch EXCEPT ![s] = None]
      /\ UNCHANGED <<active, query, revived, excused, crossed>>
  BY DEF IInv, TypeOK, ApplyEmbeddings
<1>1. \A e \in Entries : entry'[e] = IF Written(e) THEN New(e) ELSE entry[e]
  BY DEF ApplyEmbeddings
<1>2. ASSUME NEW e \in Entries, Written(e)
      PROVE  /\ entry'[e] \in Row /\ entry'[e].vec = Embedded(b.text[e])
             /\ entry'[e].stamp = WriteScheme /\ entry'[e].text = entry[e].text
             /\ entry'[e].vec # None /\ Waits(s, e)
             /\ entry'[e].vec.scheme = WriteScheme /\ entry'[e].vec.text = b.text[e]
  <2>1. entry[e] \in Row /\ b.text[e] \in Text
    BY <1>0, <1>2 DEF IInv, TypeOK, Batch
  <2>2. Embedded(b.text[e]) \in Vector
    BY <2>1 DEF Embedded, Vector, Schemes, WriteScheme
  <2>3. entry'[e] = New(e)
    BY <1>1, <1>2
  <2>4. New(e) \in Row
    BY <2>1, <2>2 DEF Row, Schemes, WriteScheme
  <2>5. New(e).vec = Embedded(b.text[e]) /\ New(e).stamp = WriteScheme
        /\ New(e).text = entry[e].text
    BY <2>1 DEF Row
  <2>6. Waits(s, e)
    BY <1>2, <1>0 DEF Waits, Pending, ApplyEmbeddings
  <2>7. Embedded(b.text[e]).scheme = WriteScheme /\ Embedded(b.text[e]).text = b.text[e]
    BY DEF Embedded
  <2> QED
    BY <2>2, <2>3, <2>4, <2>5, <2>6, <2>7, NoneAssumption
<1>3. ASSUME NEW e \in Entries, ~Written(e) PROVE entry'[e] = entry[e]
  BY <1>1, <1>3
<1> HIDE DEF Written, New
<1>4. TypeOK'
  <2>1. entry' = [e \in Entries |-> entry'[e]]
    BY DEF ApplyEmbeddings
  <2>2. \A e \in Entries : entry'[e] \in Row
    BY <1>2, <1>3 DEF IInv, TypeOK
  <2>3. entry' \in [Entries -> Row]
    BY <2>1, <2>2
  <2> QED
    BY <1>0, <2>3 DEF IInv, TypeOK
<1>5. Stamped'
  <2> SUFFICES ASSUME NEW e \in Entries, entry'[e].vec # None
               PROVE  entry'[e].vec.scheme = entry'[e].stamp
    BY DEF Stamped
  <2>1. CASE Written(e)
    BY <2>1, <1>2
  <2>2. CASE ~Written(e)
    BY <2>2, <1>3 DEF IInv, Stamped
  <2> QED
    BY <2>1, <2>2
<1>6. CutoverIsComplete'
  <2>1. Unstamped' \subseteq Unstamped
    <3> SUFFICES ASSUME NEW e \in Unstamped' PROVE e \in Unstamped
      OBVIOUS
    <3>1. e \in Entries /\ Pending("scheme", entry'[e])
      BY DEF Unstamped
    <3>2. ~Written(e)
      BY <3>1, <1>2 DEF Pending
    <3> QED
      BY <3>1, <3>2, <1>3 DEF Unstamped
  <2> QED
    BY <2>1, <1>0 DEF IInv, CutoverIsComplete
<1>7. VectorDescribesText'
  <2> SUFFICES ASSUME NEW e \in Entries, e \notin excused, entry'[e].vec # None
               PROVE  entry'[e].vec.text = entry'[e].text
    BY <1>0 DEF VectorDescribesText
  <2>1. CASE Written(e)
    <3>1. b.text[e] = entry[e].text
      BY <2>1, <1>2 DEF IInv, BatchesAreCurrent
    <3> QED
      BY <3>1, <2>1, <1>2
  <2>2. CASE ~Written(e)
    BY <2>2, <1>3 DEF IInv, VectorDescribesText
  <2> QED
    BY <2>1, <2>2
<1>8. BatchesAreCurrent'
  <2> SUFFICES ASSUME NEW x \in Sweepers, NEW f \in Entries, f \notin excused, Waits(x, f)'
               PROVE  batch'[x].text[f] = entry'[f].text
    BY <1>0 DEF BatchesAreCurrent
  <2>1. x # s /\ batch'[x] = batch[x]
    BY <1>0 DEF Waits, IInv, TypeOK
  <2>2. ~Written(f)
    <3> SUFFICES ASSUME Written(f) PROVE FALSE
      OBVIOUS
    <3>1. entry'[f].vec # None /\ entry'[f].stamp = WriteScheme
      BY <1>2
    <3> QED
      BY <3>1 DEF Waits
  <2>3. entry'[f] = entry[f]
    BY <2>2, <1>3
  <2>4. Waits(x, f)
    BY <2>1, <2>3 DEF Waits
  <2> QED
    BY <2>1, <2>3, <2>4 DEF IInv, BatchesAreCurrent
<1> QED
  BY <1>0, <1>4, <1>5, <1>6, <1>7, <1>8 DEF IInv

(* The rows the writers put.                                               *)
LEMMA WriteInv ==
  ASSUME IInv, NEW e \in Entries, NEW b \in Bodies, NEW embeds \in BOOLEAN,
         FactAdd(e, b, embeds) \/ UpdateWisdom(e, b, embeds) \/ FactUpdate(e, b, embeds)
  PROVE  IInv'
<1>1. Derived(b) \in Text
  BY VectorsAssumption DEF Derived, Text
<1>2. Embedded(Derived(b)) \in Vector /\ Embedded(Derived(b)) # None
  BY <1>1, NoneAssumption DEF Embedded, Vector, Schemes, WriteScheme
<1>3. ASSUME Put(e, Rewritten(b, embeds), FALSE) PROVE IInv'
  <2> DEFINE r == Rewritten(b, embeds)
  <2>1. r \in Row
    BY <1>1, <1>2 DEF Rewritten, Row, Schemes, WriteScheme
  <2>2. /\ r.stamp = WriteScheme /\ r.text = Derived(b)
        /\ r.vec = None \/ r.vec = Embedded(Derived(b))
    BY DEF Rewritten
  <2>3. r.vec # None => r.vec.scheme = r.stamp /\ r.vec.text = r.text
    BY <2>2 DEF Embedded
  <2> HIDE DEF r
  <2> QED
    BY <1>3, <2>1, <2>2, <2>3, PutInv DEF r
<1>4. ASSUME Put(e, [entry[e] EXCEPT !.text = Derived(b)], Retitled(e, b)) PROVE IInv'
  <2> DEFINE r == [entry[e] EXCEPT !.text = Derived(b)]
             t == Retitled(e, b)
  <2>1. entry[e] \in Row
    BY DEF IInv, TypeOK
  <2>2. r \in Row /\ r.vec = entry[e].vec /\ r.stamp = entry[e].stamp
        /\ r.st = entry[e].st /\ r.text = Derived(b)
    BY <2>1, <1>1 DEF Row
  <2>3. r.vec # None => r.vec.scheme = r.stamp
    BY <2>2 DEF IInv, Stamped
  <2>4. t \in BOOLEAN
    BY Zenon DEF Retitled
  <2>5. ASSUME t # TRUE, r.vec # None
        PROVE  r.text = entry[e].text /\ e \notin excused
    <3>1. ~Retitled(e, b)
      BY <2>4, <2>5
    <3> QED
      BY <3>1, <2>2, <2>5 DEF Retitled
  <2>6. t = TRUE \/ (r.vec # None => r.vec.text = r.text)
    BY <2>2, <2>5 DEF IInv, VectorDescribesText
  <2>7. Put(e, r, t)
    BY <1>4
  <2> HIDE DEF r, t
  <2> QED
    BY <2>2, <2>3, <2>4, <2>5, <2>6, <2>7, PutInv
<1> QED
  BY <1>3, <1>4 DEF FactAdd, UpdateWisdom, FactUpdate

LEMMA ImportInv ==
  ASSUME IInv, NEW e \in Entries, NEW t \in Text, Import(e, t) PROVE IInv'
<1> DEFINE r == [st |-> "live", text |-> t, vec |-> None, stamp |-> "raw"]
<1>1. r \in Row /\ r.vec = None
  BY DEF Row, Schemes
<1>2. Put(e, r, FALSE)
  BY DEF Import
<1> HIDE DEF r
<1> QED
  BY <1>1, <1>2, PutInv

(* Archiving and reviving keep text, vector and stamp.                     *)
LEMMA LifeInv ==
  ASSUME IInv, NEW e \in Entries, Archive(e) \/ Undeny(e) PROVE IInv'
<1>0. UNCHANGED <<active, batch, query, excused, crossed>>
  BY DEF Archive, Undeny
<1>1. \A f \in Entries : /\ entry'[f] \in Row /\ entry'[f].text = entry[f].text
                         /\ entry'[f].vec = entry[f].vec /\ entry'[f].stamp = entry[f].stamp
                         /\ f # e => entry'[f] = entry[f]
  BY DEF Archive, Undeny, IInv, TypeOK, Row
<1>2. TypeOK'
  <2>1. entry' \in [Entries -> Row]
    BY <1>1 DEF Archive, Undeny, IInv, TypeOK
  <2>2. revived' \subseteq Entries
    BY DEF Archive, Undeny, IInv, TypeOK
  <2> QED
    BY <1>0, <2>1, <2>2 DEF IInv, TypeOK
<1>3. Unstamped' \subseteq Unstamped \cup revived' /\ revived \subseteq revived'
  <2>1. CASE Archive(e)
    <3>1. entry'[e].st = "archived"
      BY <2>1 DEF Archive, IInv, TypeOK, Row
    <3> QED
      BY <2>1, <3>1, <1>1 DEF Archive, Unstamped, Pending
  <2>2. CASE Undeny(e)
    <3>1. revived' = revived \cup {e}
      BY <2>2 DEF Undeny
    <3> QED
      BY <3>1, <1>1 DEF Unstamped, Pending
  <2> QED
    BY <2>1, <2>2
<1>4. CutoverIsComplete'
  BY <1>0, <1>3 DEF IInv, CutoverIsComplete
<1>5. Stamped' /\ VectorDescribesText'
  BY <1>0, <1>1 DEF IInv, Stamped, VectorDescribesText
<1>6. BatchesAreCurrent'
  BY <1>0, <1>1 DEF IInv, BatchesAreCurrent, Waits
<1> QED
  BY <1>0, <1>2, <1>4, <1>5, <1>6 DEF IInv

(* The cutover and the readers leave the rows alone.                       *)
LEMMA ReaderInv ==
  ASSUME IInv, NEW r \in Readers, Resolve(r) \/ Search(r) PROVE IInv'
<1>0. UNCHANGED <<entry, active, batch, revived, excused>>
  BY DEF Resolve, Search, Compare
<1>1. crossed' = FALSE
  <2>1. CASE Resolve(r)
    BY <2>1 DEF Resolve, IInv
  <2>2. CASE Search(r)
    <3>1. ~\E e \in Candidates(query[r]) : entry[e].vec.scheme # query[r]
      BY DEF Candidates, IInv, Stamped
    <3>2. crossed' = (crossed \/ \E e \in Candidates(query[r]) : entry[e].vec.scheme # query[r])
      BY <2>2, Zenon DEF Search, Compare
    <3> QED
      BY <3>1, <3>2 DEF IInv
  <2> QED
    BY <2>1, <2>2
<1>2. query' \in [Readers -> Schemes \cup {None}]
  BY DEF Resolve, Search, Compare, IInv, TypeOK
<1>3. TypeOK'
  BY <1>0, <1>1, <1>2 DEF IInv, TypeOK
<1> QED
  BY <1>0, <1>1, <1>3
  DEF IInv, Stamped, CutoverIsComplete, VectorDescribesText, BatchesAreCurrent, Waits,
      Unstamped, Pending

LEMMA ActivateInv == ASSUME IInv, Activate PROVE IInv'
<1>0. UNCHANGED <<entry, batch, query, revived, excused, crossed>> /\ Unstamped = {}
      /\ active' = WriteScheme
  BY DEF Activate
<1>1. TypeOK'
  BY <1>0 DEF IInv, TypeOK, Schemes, WriteScheme
<1>2. CutoverIsComplete'
  BY <1>0 DEF CutoverIsComplete, Unstamped, Pending
<1> QED
  BY <1>0, <1>1, <1>2
  DEF IInv, Stamped, VectorDescribesText, BatchesAreCurrent, Waits

LEMMA BatchFailsInv ==
  ASSUME IInv, NEW s \in Sweepers, BatchFails(s) PROVE IInv'
<1>0. batch' = [batch EXCEPT ![s] = None]
      /\ UNCHANGED <<entry, active, query, revived, excused, crossed>>
  BY DEF BatchFails
<1>1. TypeOK'
  BY <1>0 DEF IInv, TypeOK
<1>2. ASSUME NEW x \in Sweepers, NEW e \in Entries, Waits(x, e)'
      PROVE  Waits(x, e) /\ batch'[x] = batch[x]
  BY <1>0, <1>2 DEF Waits, IInv, TypeOK
<1>3. BatchesAreCurrent'
  BY <1>0, <1>2 DEF IInv, BatchesAreCurrent
<1> QED
  BY <1>0, <1>1, <1>3
  DEF IInv, Stamped, CutoverIsComplete, VectorDescribesText, Unstamped, Pending

-----------------------------------------------------------------------------
THEOREM Inductive == Spec => []IInv
<1>1. Init => IInv
  BY InitInv
<1>2. IInv /\ [Next]_vars => IInv'
  <2> SUFFICES ASSUME IInv, [Next]_vars PROVE IInv'
    OBVIOUS
  <2>1. ASSUME NEW s \in Sweepers,
               (\E kind \in {"null", "scheme"} : ReadBatch(s, kind))
                 \/ ApplyEmbeddings(s) \/ BatchFails(s)
        PROVE  IInv'
    BY <2>1, ReadInv, ApplyInv, BatchFailsInv
  <2>2. ASSUME NEW e \in Entries,
               \/ \E b \in Bodies, embeds \in BOOLEAN :
                    FactAdd(e, b, embeds) \/ UpdateWisdom(e, b, embeds)
                    \/ FactUpdate(e, b, embeds)
               \/ \E t \in Text : Import(e, t)
               \/ Archive(e) \/ Undeny(e)
        PROVE  IInv'
    BY <2>2, WriteInv, ImportInv, LifeInv
  <2>3. CASE Activate
    BY <2>3, ActivateInv
  <2>4. ASSUME NEW r \in Readers, Resolve(r) \/ Search(r) PROVE IInv'
    BY <2>4, ReaderInv
  <2>5. CASE UNCHANGED vars
    BY <2>5 DEF vars, IInv, TypeOK, Stamped, CutoverIsComplete, VectorDescribesText,
                BatchesAreCurrent, Waits, Unstamped, Pending
  <2> QED
    BY <2>1, <2>2, <2>3, <2>4, <2>5 DEF Next
<1> QED
  BY <1>1, <1>2, PTL DEF Spec

(* Every reachable state is well typed.                                    *)
THEOREM TypeCorrect == Spec => []TypeOK
BY Inductive, PTL DEF IInv

(* No search ever compares a query with a vector of the other scheme       *)
(* (wiki_search_in_scheme, wisdom_match_in_scheme).                        *)
THEOREM SearchesStayInScheme == Spec => []ComparedWithinScheme
<1>1. IInv => ComparedWithinScheme
  BY DEF IInv, ComparedWithinScheme
<1> QED
  BY <1>1, Inductive, PTL

(* activate_instr1 never hides a live vector, then or later.               *)
THEOREM CutoversAreComplete == Spec => []CutoverIsComplete
BY Inductive, PTL DEF IInv

(* Outside the two known ways a stored vector describes its entry's text.  *)
THEOREM VectorsDescribe == Spec => []VectorDescribesText
BY Inductive, PTL DEF IInv
=============================================================================
