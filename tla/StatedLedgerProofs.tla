------------------------- MODULE StatedLedgerProofs -------------------------
(***************************************************************************)
(* What the run of StatedLedger checks for two facts and two texts, proved *)
(* for any facts, texts and places and any number of deaths, refusals,     *)
(* edits and rebuilds.  The history of an un-denial (half) and the memory  *)
(* of a command (op) make the invariants inductive.                        *)
(***************************************************************************)
EXTENDS StatedLedger, TLAPS

Ops == [at : Stages, fact : Facts, text : Texts, key : Keys, read : Ledgers]

\* What a command remembers is still so: the ledger has what the command has
\* put there, and lacks what it has taken from there.
Remembered ==
    /\ op[Queue].at = "deny" => op[Queue].key \in lines.denied
    /\ op[Queue].at = "undeny" => op[Queue].key \notin lines.denied
    /\ \A p \in Procs : op[p].read.sure \subseteq lines.sure
    /\ \A p \in {Queue, Modal} :
          op[p].at \in {"twins", "stamp"} => op[p].text \in lines.sure

\* A confirmation holds the text that the fact still has.
Confirms ==
    \A p \in {Queue, Modal} :
        op[p].at \in {"record", "twins", "stamp"} =>
            /\ desk = "up" /\ row[op[p].fact].at # "none"
            /\ ~races => row[op[p].fact].text = op[p].text

\* A stamp that a confirmation gave rests on a line of the ledger.
StampIsCarried ==
    ~races => \A f \in Facts \ orphans : Stamped(f) => row[f].text \in lines.sure

IInv == TypeOK /\ Remembered /\ Confirms /\ StampIsCarried
               /\ SuppressionIsCarried /\ ConfirmIsDurable

-----------------------------------------------------------------------------
LEMMA Basics ==
    /\ Queue \in Procs /\ Modal \in Procs /\ Desktop \in Procs /\ Other \in Procs
    /\ Blank \in Texts /\ NoFact \in Facts
    /\ Idle \in Ops /\ Idle.at = "idle" /\ Idle.read.sure = {}
    /\ Nothing.cmd = "none" /\ Nothing.fact \in Facts /\ Nothing.text \in Texts
    /\ \A f \in Facts, t \in Texts : Key(f, t) \in Keys
<1>1. Blank \in Texts /\ NoFact \in Facts
  BY LedgerAssumption DEF Blank, NoFact
<1>2. \A f \in Facts, t \in Texts : Key(f, t) \in Keys
  BY DEF Key, Keys
<1>3. Idle \in Ops
  BY <1>1, <1>2 DEF Idle, Ops, Stages, Ledgers
<1> QED
  BY <1>1, <1>2, <1>3 DEF Procs, Idle, Nothing

LEMMA TypeInit == Init => TypeOK
<1> SUFFICES ASSUME Init PROVE TypeOK
  OBVIOUS
<1>1. row \in [Facts -> Rows]
  BY LedgerAssumption DEF Init, Rows
<1>2. op \in [Procs -> Ops]
  BY Basics DEF Init
<1>3. done \in [cmd : {"none", "confirm", "deny"}, fact : Facts, text : Texts]
  BY Basics DEF Init, Nothing
<1>4. lines \in Ledgers
  BY DEF Init, Ledgers
<1>5. races \in BOOLEAN /\ used \in Nat
  BY LedgerAssumption DEF Init
<1> QED
  BY <1>1, <1>2, <1>3, <1>4, <1>5 DEF Init, TypeOK, Ops

\* The rows that an edit, a rewriting and an approval write.
LEMMA WrittenRow ==
    ASSUME TypeOK, NEW f \in Facts, NEW t \in Texts,
           \/ Rewrite(f, t)
           \/ \E sure \in BOOLEAN : Edit(f, t, sure)
           \/ \E origin \in Origins : Add(f, t, origin)
    PROVE  \E r \in Rows :
              /\ Written(f, r) /\ r.text = t /\ r.at # "none"
              /\ row[f].at = "none" \/ (row[f].at = r.at /\ (races \/ ~Confirming(f)))
<1>1. row[f] \in Rows
  BY DEF TypeOK
<1>2. CASE Rewrite(f, t)
  <2>1. [row[f] EXCEPT !.text = t] \in Rows
    BY <1>1 DEF Rows
  <2> QED
    BY <1>1, <1>2, <2>1 DEF Rewrite, Live, Rows
<1>3. ASSUME NEW sure \in BOOLEAN, Edit(f, t, sure)
      PROVE  \E r \in Rows :
              /\ Written(f, r) /\ r.text = t /\ r.at # "none"
              /\ row[f].at = "none" \/ (row[f].at = r.at /\ (races \/ ~Confirming(f)))
  <2>1. [row[f] EXCEPT !.text = t, !.sure = sure] \in Rows
    BY <1>1 DEF Rows
  <2> QED
    BY <1>1, <1>3, <2>1 DEF Edit, Live, Rows
<1>4. ASSUME NEW origin \in Origins, Add(f, t, origin)
      PROVE  \E r \in Rows :
              /\ Written(f, r) /\ r.text = t /\ r.at # "none"
              /\ row[f].at = "none" \/ (row[f].at = r.at /\ (races \/ ~Confirming(f)))
  <2>1. origin[1] \in BOOLEAN /\ origin[2] \in BOOLEAN
    BY LedgerAssumption
  <2>2. [at |-> "live", text |-> t, human |-> origin[1], sure |-> origin[2]] \in Rows
    BY <2>1 DEF Rows
  <2> QED
    BY <1>4, <2>2 DEF Add
<1> QED
  BY <1>2, <1>3, <1>4

LEMMA TypeStep == TypeOK /\ [Next]_vars => TypeOK'
<1> SUFFICES ASSUME TypeOK, [Next]_vars PROVE TypeOK'
  OBVIOUS
<1> USE Basics
<1>0. op \in [Procs -> Ops]
  BY DEF TypeOK, Ops
<1> DEFINE At(r, at) == [r EXCEPT !.at = at]
<1>r. \A r \in Rows : /\ Stamp(r) \in Rows
                      /\ \A at \in {"none", "live", "gone"} : At(r, at) \in Rows
  BY DEF Stamp, Rows
<1>f. row \in [Facts -> Rows] /\ \A p \in Procs : op[p].fact \in Facts
  BY <1>0 DEF TypeOK, Ops
<1>1. row' \in [Facts -> Rows]
  <2> HIDE DEF At
  <2>1. CASE UNCHANGED row
    BY <2>1 DEF TypeOK
  <2>2. ASSUME NEW p \in {Queue, Modal}, StampTwins(p) PROVE row' \in [Facts -> Rows]
    BY <2>2, <1>r, <1>f DEF StampTwins, StampAll
  <2>3. ASSUME NEW p \in {Queue, Modal}, StampFact(p) PROVE row' \in [Facts -> Rows]
    BY <2>3, <1>r, <1>f DEF StampFact
  <2>4. CASE DenyCommit
    <3> DEFINE f == op[Queue].fact
    <3>1. row' = row \/ row' = [row EXCEPT ![f].at = "gone"]
      BY <2>4 DEF DenyCommit
    <3>2. row[f] \in Rows /\ At(row[f], "gone") \in Rows
      BY <1>r, <1>f
    <3>3. [row EXCEPT ![f].at = "gone"] = [row EXCEPT ![f] = At(row[f], "gone")]
      BY <1>f DEF At
    <3> HIDE DEF f
    <3> QED
      BY <3>1, <3>2, <3>3, <1>f
  <2>5. CASE UndenyCommit
    BY <2>5, <1>r, <1>f DEF UndenyCommit, At
  <2>6. ASSUME NEW p \in {Desktop, Other}, Rederive(p) PROVE row' \in [Facts -> Rows]
    BY <2>6, <1>r, <1>f DEF Rederive, StampAll
  <2>7. ASSUME NEW f \in Facts, NEW r \in Rows, Written(f, r)
        PROVE  row' \in [Facts -> Rows]
    BY <2>7, <1>f DEF Written
  <2>8. ASSUME NEW f \in Facts, NEW t \in Texts,
               \/ Rewrite(f, t)
               \/ \E sure \in BOOLEAN : Edit(f, t, sure)
               \/ \E origin \in Origins : Add(f, t, origin)
        PROVE  row' \in [Facts -> Rows]
    BY <2>7, <2>8, WrittenRow
  <2>9. ASSUME NEW f \in Facts, Archive(f) PROVE row' \in [Facts -> Rows]
    BY <2>9, <1>r, <1>f DEF Archive, At
  <2>10. CASE NewBrain
    BY <2>10, <1>r, <1>f DEF NewBrain, At
  <2> QED
    BY <2>1, <2>2, <2>3, <2>4, <2>5, <2>6, <2>7, <2>8, <2>9, <2>10
    DEF Next, Command, Denials, Opening, World, vars, brain, ConfirmAgain,
        ConfirmRead, Record, Fail, DenyAgain, DenyRead, Undeny, DenyAppend,
        OpenMarked, OpenBrain, Mark, Defer, Quit, Die
<1>2. lines' \in Ledgers
  <2>1. CASE UNCHANGED lines
    BY <2>1 DEF TypeOK
  <2>2. ASSUME NEW p \in {Queue, Modal}, Record(p) PROVE lines' \in Ledgers
    BY <2>2, <1>0 DEF Record, TypeOK, Ledgers, Ops
  <2>3. CASE DenyAppend
    BY <2>3, <1>0 DEF DenyAppend, TypeOK, Ledgers, Ops
  <2>4. ASSUME NEW k \in Keys, Undeny(k) PROVE lines' \in Ledgers
    BY <2>4 DEF Undeny, TypeOK, Ledgers
  <2> QED
    BY <2>1, <2>2, <2>3, <2>4
    DEF Next, Command, Denials, Opening, World, vars, brain, ConfirmAgain,
        ConfirmRead, StampTwins, StampFact, Fail, DenyAgain, DenyRead,
        DenyCommit, UndenyCommit, OpenMarked, OpenBrain, Rederive, Mark, Defer,
        Edit, Rewrite, Archive, Add, Quit, Die, NewBrain, Written
<1>3. op' \in [Procs -> Ops]
  <2>1. ASSUME NEW p \in Procs, NEW s \in Stages, Go(p, s)
        PROVE  op' \in [Procs -> Ops]
    BY <2>1, <1>0 DEF Go, Ops
  <2>2. ASSUME NEW p \in Procs, Rest(p) PROVE op' \in [Procs -> Ops]
    BY <2>2, <1>0 DEF Rest
  <2>3. ASSUME NEW p \in {Queue, Modal}, NEW f \in Facts, ConfirmRead(p, f)
        PROVE  op' \in [Procs -> Ops]
    <3>1. [Idle EXCEPT !.at = "record", !.fact = f, !.text = row[f].text] \in Ops
      BY DEF Ops, Stages, TypeOK, Rows
    <3> QED
      BY <2>3, <3>1, <1>0 DEF ConfirmRead
  <2>4. ASSUME NEW f \in Facts, DenyRead(f) PROVE op' \in [Procs -> Ops]
    <3>1. row[f].text \in Texts
      BY DEF TypeOK, Rows
    <3>2. [Idle EXCEPT !.at = "append", !.fact = f, !.text = row[f].text,
                       !.key = Key(f, row[f].text)] \in Ops
      BY <3>1 DEF Ops, Stages
    <3> QED
      BY <2>4, <3>2, <1>0 DEF DenyRead
  <2>5. ASSUME NEW k \in Keys, Undeny(k) PROVE op' \in [Procs -> Ops]
    <3>1. [Idle EXCEPT !.at = "undeny", !.key = k] \in Ops
      BY DEF Ops, Stages
    <3> QED
      BY <2>5, <3>1, <1>0 DEF Undeny
  <2>6. ASSUME NEW p \in {Desktop, Other}, OpenBrain(p)
        PROVE  op' \in [Procs -> Ops]
    <3>1. [Idle EXCEPT !.at = "rederive", !.read = lines] \in Ops
      BY DEF Ops, Stages, TypeOK
    <3> QED
      BY <2>6, <3>1, <1>0 DEF OpenBrain
  <2>7. CASE Die
    BY <2>7, <1>0 DEF Die
  <2>8. CASE UNCHANGED op
    BY <2>8, <1>0
  <2>9. {"twins", "stamp", "deny", "mark"} \subseteq Stages
    BY DEF Stages
  <2>10. ASSUME NEW p \in {Queue, Modal}, Record(p) PROVE op' \in [Procs -> Ops]
    BY <2>10, <2>1, <2>9 DEF Record
  <2> QED
    BY <2>1, <2>2, <2>3, <2>4, <2>5, <2>6, <2>7, <2>8, <2>9, <2>10
    DEF Next, Command, Denials, Opening, World, vars, brain, ConfirmAgain,
        StampTwins, StampFact, Fail, DenyAgain, DenyAppend, DenyCommit,
        UndenyCommit, OpenMarked, Rederive, Mark, Defer, Edit, Rewrite, Archive, Add,
        Quit, NewBrain, Written
<1>4. done' \in [cmd : {"none", "confirm", "deny"}, fact : Facts, text : Texts]
  <2>1. CASE UNCHANGED done
    BY <2>1 DEF TypeOK
  <2>2. CASE Quiet
    BY <2>2 DEF Quiet, Nothing
  <2>3. ASSUME NEW c \in {"confirm", "deny"}, NEW f \in Facts, NEW t \in Texts,
               Report(c, f, t)
        PROVE  done' \in [cmd : {"none", "confirm", "deny"}, fact : Facts, text : Texts]
    BY <2>3 DEF Report
  <2>4. \A p \in Procs : op[p].fact \in Facts /\ op[p].text \in Texts
    BY <1>0 DEF Ops
  <2>5. \A f \in Facts : row[f].text \in Texts
    BY DEF TypeOK, Rows
  <2>6. ASSUME NEW p \in {Queue, Modal}, NEW f \in Facts, ConfirmAgain(p, f)
        PROVE  \E c \in {"confirm", "deny"}, g \in Facts, t \in Texts : Report(c, g, t)
    BY <2>6, <2>5 DEF ConfirmAgain
  <2>7. ASSUME NEW p \in {Queue, Modal}, StampFact(p)
        PROVE  \E c \in {"confirm", "deny"}, g \in Facts, t \in Texts : Report(c, g, t)
    BY <2>7, <2>4 DEF StampFact
  <2>8. ASSUME NEW f \in Facts, DenyAgain(f)
        PROVE  \E c \in {"confirm", "deny"}, g \in Facts, t \in Texts : Report(c, g, t)
    BY <2>8, <2>5 DEF DenyAgain
  <2>9. ASSUME DenyCommit
        PROVE  Quiet \/ \E c \in {"confirm", "deny"}, g \in Facts, t \in Texts : Report(c, g, t)
    BY <2>9, <2>4 DEF DenyCommit
  <2> QED
    BY <2>1, <2>2, <2>3, <2>6, <2>7, <2>8, <2>9
    DEF Next, Command, Denials, Opening, World, vars, brain, ConfirmRead,
        Record, StampTwins, Fail, DenyRead, Undeny, DenyAppend, UndenyCommit,
        OpenMarked, OpenBrain, Rederive, Mark, Defer, Edit, Rewrite, Archive, Add, Quit,
        Die, NewBrain, Written
<1>5. denied' \subseteq Keys /\ half' \subseteq Keys
  <2>1. CASE UNCHANGED <<denied, half>>
    BY <2>1 DEF TypeOK
  <2>2. \A p \in Procs : op[p].key \in Keys
    BY <1>0 DEF Ops
  <2>3. CASE DenyAppend \/ DenyCommit \/ UndenyCommit
    <3>1. CASE DenyAppend
      BY <2>2, <3>1 DEF DenyAppend, TypeOK, brain
    <3>2. CASE DenyCommit
      BY <2>2, <3>2 DEF DenyCommit, TypeOK
    <3>3. CASE UndenyCommit
      BY <2>2, <3>3 DEF UndenyCommit, TypeOK
    <3> QED
      BY <2>3, <3>1, <3>2, <3>3
  <2>4. ASSUME NEW k \in Keys, Undeny(k) PROVE denied' \subseteq Keys /\ half' \subseteq Keys
    BY <2>4 DEF Undeny, TypeOK, brain
  <2>5. ASSUME NEW p \in {Desktop, Other}, Rederive(p)
        PROVE  denied' \subseteq Keys /\ half' \subseteq Keys
    BY <2>5 DEF Rederive, TypeOK, Ledgers
  <2>6. CASE NewBrain
    BY <2>6 DEF NewBrain
  <2> QED
    BY <2>1, <2>3, <2>4, <2>5, <2>6
    DEF Next, Command, Denials, Opening, World, vars, brain, ConfirmAgain,
        ConfirmRead, Record, StampTwins, StampFact, Fail, DenyAgain, DenyRead,
        OpenMarked, OpenBrain, Mark, Defer, Edit, Rewrite, Archive, Add, Quit, Die, Written
<1>9. orphans' \subseteq Facts
  <2>1. ASSUME NEW p \in Procs, StampTwins(p) \/ Rederive(p)
        PROVE  orphans' \subseteq Facts
    BY <2>1 DEF StampTwins, Rederive, StampAll, TypeOK
  <2>2. ASSUME NEW f \in Facts, NEW r, Written(f, r)
        PROVE  orphans' \subseteq Facts
    BY <2>2 DEF Written, TypeOK
  <2>3. ASSUME NEW f \in Facts, NEW t \in Texts, NEW sure \in BOOLEAN,
               Edit(f, t, sure) \/ Rewrite(f, t)
        PROVE  orphans' \subseteq Facts
    BY <2>2, <2>3 DEF Edit, Rewrite
  <2>4. ASSUME NEW f \in Facts, NEW t \in Texts, NEW origin \in Origins,
               Add(f, t, origin)
        PROVE  orphans' \subseteq Facts
    BY <2>2, <2>4 DEF Add
  <2>5. orphans \subseteq Facts
    BY DEF TypeOK
  <2> QED
    BY <2>1, <2>3, <2>4, <2>5
    DEF Next, Command, Denials, Opening, World, vars, Procs, ConfirmAgain,
        ConfirmRead, Record, StampFact, Fail, DenyAgain, DenyRead, Undeny,
        DenyAppend, DenyCommit, UndenyCommit, OpenMarked, OpenBrain, Mark,
        Defer, Archive, Quit, Die, NewBrain
<1>6. races' = races
  BY DEF Next, Command, Denials, Opening, World, vars, brain,
         ConfirmAgain, ConfirmRead, Record, StampTwins, StampFact, Fail,
         DenyAgain, DenyRead, Undeny, DenyAppend, DenyCommit, UndenyCommit,
         OpenMarked, OpenBrain, Rederive, Mark, Defer, Edit, Rewrite, Archive, Add,
         Quit, Die, NewBrain, Written
<1>8. used' \in Nat
  <2>1. used' = used \/ Upset
    BY DEF Next, Command, Denials, Opening, World, vars, brain,
           ConfirmAgain, ConfirmRead, Record, StampTwins, StampFact, Fail,
           DenyAgain, DenyRead, Undeny, DenyAppend, DenyCommit, UndenyCommit,
           OpenMarked, OpenBrain, Rederive, Mark, Defer, Edit, Rewrite, Archive, Add,
           Quit, Die, NewBrain, Written
  <2> QED
    BY <2>1 DEF Upset, TypeOK
<1>7. marked' \in BOOLEAN /\ desk' \in {"down", "opening", "up"}
  <2>1. marked' = marked \/ marked' = TRUE \/ marked' = FALSE
    BY DEF Next, Command, Denials, Opening, World, vars, brain,
           ConfirmAgain, ConfirmRead, Record, StampTwins, StampFact, Fail,
           DenyAgain, DenyRead, Undeny, DenyAppend, DenyCommit, UndenyCommit,
           OpenMarked, OpenBrain, Rederive, Mark, Defer, Edit, Rewrite, Archive, Add,
           Quit, Die, NewBrain, Written
  <2>2. desk' = desk \/ desk' \in {"down", "opening", "up"}
    BY DEF Next, Command, Denials, Opening, World, vars, brain,
           ConfirmAgain, ConfirmRead, Record, StampTwins, StampFact, Fail,
           DenyAgain, DenyRead, Undeny, DenyAppend, DenyCommit, UndenyCommit,
           OpenMarked, OpenBrain, Rederive, Mark, Defer, Edit, Rewrite, Archive, Add,
           Quit, Die, NewBrain, Written
  <2> QED
    BY <2>1, <2>2 DEF TypeOK
<1> QED
  BY <1>1, <1>2, <1>3, <1>4, <1>5, <1>6, <1>7, <1>8, <1>9 DEF TypeOK, Ops

\* Every state of the queue, the ledgers and the brain is well typed.
THEOREM TypeCorrect == Spec => []TypeOK
BY TypeInit, TypeStep, PTL DEF Spec

-----------------------------------------------------------------------------
\* What each action does to what the invariants relate.
LEMMA Touched ==
    ASSUME TypeOK, [Next]_vars
    PROVE  /\ op \in [Procs -> Ops] /\ op' \in [Procs -> Ops]
           /\ races' = races
           /\ row \in [Facts -> Rows] /\ row' \in [Facts -> Rows]
           /\ lines \in Ledgers
<1>1. TypeOK'
  BY TypeStep
<1>2. races' = races
  BY DEF Next, Command, Denials, Opening, World, vars, brain,
         ConfirmAgain, ConfirmRead, Record, StampTwins, StampFact, Fail,
         DenyAgain, DenyRead, Undeny, DenyAppend, DenyCommit, UndenyCommit,
         OpenMarked, OpenBrain, Rederive, Mark, Defer, Edit, Rewrite, Archive, Add,
         Quit, Die, NewBrain, Written
<1> QED
  BY <1>1, <1>2 DEF TypeOK, Ops

\* The ledger of confirmations only grows; a step of Queue or Modal that is not
\* its own leaves what the process remembers alone.
LEMMA RememberedStep == IInv /\ [Next]_vars => Remembered'
<1> SUFFICES ASSUME IInv, [Next]_vars PROVE Remembered'
  OBVIOUS
<1> USE Basics
<1>0. /\ op \in [Procs -> Ops] /\ lines \in Ledgers
      /\ Queue # Modal /\ Queue # Desktop /\ Queue # Other
      /\ Modal # Desktop /\ Modal # Other
  BY Touched DEF IInv, Queue, Modal, Desktop, Other
<1>1. lines.sure \subseteq lines'.sure
  BY <1>0 DEF Ledgers, Next, Command, Denials, Opening, World, vars, brain,
         ConfirmAgain, ConfirmRead, Record, StampTwins, StampFact, Fail,
         DenyAgain, DenyRead, Undeny, DenyAppend, DenyCommit, UndenyCommit,
         OpenMarked, OpenBrain, Rederive, Mark, Defer, Edit, Rewrite, Archive, Add,
         Quit, Die, NewBrain, Written
<1>2. CASE UNCHANGED <<op, lines>>
  BY <1>2 DEF IInv, Remembered
<1>3. ASSUME NEW p \in Procs, Rest(p), lines' = lines PROVE Remembered'
  BY <1>0, <1>3 DEF IInv, Remembered, Rest
<1>4. ASSUME NEW p \in Procs, NEW s \in Stages, Go(p, s), lines' = lines,
             s \in {"deny", "undeny"} => p # Queue,
             s \in {"twins", "stamp"} => op[p].at \in {"twins", "stamp"}
      PROVE  Remembered'
  BY <1>0, <1>4 DEF IInv, Remembered, Go, Ops
<1>5. ASSUME NEW p \in {Queue, Modal}, NEW f \in Facts, ConfirmRead(p, f)
      PROVE  Remembered'
  BY <1>0, <1>5 DEF IInv, Remembered, ConfirmRead, brain, Idle
<1>6. ASSUME NEW p \in {Queue, Modal}, Record(p) PROVE Remembered'
  <2> DEFINE s == IF op[p].text \in lines.sure THEN "stamp" ELSE "twins"
  <2>1. /\ op[p].at = "record" /\ s \in {"stamp", "twins"}
        /\ op' = [op EXCEPT ![p].at = s]
        /\ lines' = [lines EXCEPT !.sure = @ \cup {op[p].text}]
    BY <1>6 DEF Record, Go
  <2>2. lines'.denied = lines.denied /\ op[p].text \in lines'.sure
    BY <2>1, <1>0 DEF Ledgers
  <2> HIDE DEF s
  <2> QED
    BY <2>1, <2>2, <1>0, <1>1 DEF IInv, Remembered, Ops
<1>7. ASSUME NEW f \in Facts, DenyRead(f) PROVE Remembered'
  BY <1>0, <1>7 DEF IInv, Remembered, DenyRead, brain, Idle
<1>8. CASE DenyAppend
  <2>1. /\ lines' = [lines EXCEPT !.denied = @ \cup {op[Queue].key}]
        /\ op' = [op EXCEPT ![Queue].at = "deny"]
    BY <1>8 DEF DenyAppend, Go
  <2>2. lines'.sure = lines.sure /\ op[Queue].key \in lines'.denied
    BY <2>1, <1>0 DEF Ledgers
  <2> QED
    BY <2>1, <2>2, <1>0 DEF IInv, Remembered, Ops
<1>9. ASSUME NEW k \in Keys, Undeny(k) PROVE Remembered'
  <2>1. /\ lines' = [lines EXCEPT !.denied = @ \ {k}]
        /\ op' = [op EXCEPT ![Queue] = [Idle EXCEPT !.at = "undeny", !.key = k]]
    BY <1>9 DEF Undeny
  <2>2. lines'.sure = lines.sure /\ k \notin lines'.denied
    BY <2>1, <1>0 DEF Ledgers
  <2>3. op'[Queue].at = "undeny" /\ op'[Queue].key = k /\ op'[Queue].read.sure = {}
    BY <2>1, <1>0 DEF Ops, Idle
  <2> QED
    BY <2>1, <2>2, <2>3, <1>0 DEF IInv, Remembered
<1>10. ASSUME NEW p \in {Desktop, Other}, OpenBrain(p) PROVE Remembered'
  <2>1. op' = [op EXCEPT ![p] = [Idle EXCEPT !.at = "rederive", !.read = lines]]
        /\ lines' = lines
    BY <1>10 DEF OpenBrain
  <2>2. op'[p].read = lines
    BY <2>1, <1>0 DEF Idle
  <2> QED
    BY <2>1, <2>2, <1>0 DEF IInv, Remembered
<1>11. CASE Die
  BY <1>11, <1>0 DEF IInv, Remembered, Die, brain
<1>12. ASSUME NEW p \in {Queue, Modal}, StampTwins(p) PROVE Remembered'
  BY <1>12, <1>4 DEF StampTwins, Stages
<1>13. ASSUME NEW p \in {Desktop, Other}, Rederive(p) PROVE Remembered'
  BY <1>13, <1>4, <1>0 DEF Rederive, Stages
<1>14. ASSUME NEW p \in {Queue, Modal}, Fail(p) PROVE Remembered'
  BY <1>14, <1>3 DEF Fail
<1>15. ASSUME NEW p \in {Desktop, Other}, Mark(p) \/ Defer(p) PROVE Remembered'
  BY <1>15, <1>3 DEF Mark, Defer
<1>16. CASE DenyCommit \/ UndenyCommit
  BY <1>16, <1>3 DEF DenyCommit, UndenyCommit
<1>17. ASSUME NEW p \in {Queue, Modal}, StampFact(p) PROVE Remembered'
  BY <1>17, <1>3 DEF StampFact
<1> QED
  BY <1>2, <1>5, <1>6, <1>7, <1>8, <1>9, <1>10, <1>11, <1>12, <1>13, <1>14,
     <1>15, <1>16, <1>17
  DEF Next, Command, Denials, Opening, World, vars, brain, ConfirmAgain,
      DenyAgain, OpenMarked, Edit, Rewrite, Archive, Add, Quit, NewBrain, Written

-----------------------------------------------------------------------------
\* Which texts and stamps an action leaves alone.
KeepsTexts  == \A f \in Facts : /\ row'[f].text = row[f].text
                                /\ row'[f].at = "none" => row[f].at = "none"
KeepsStamps == \A f \in Facts : /\ row'[f].human = row[f].human
                                /\ row'[f].sure = row[f].sure

LEMMA WhatRowsKeep ==
    ASSUME TypeOK, [Next]_vars
    PROVE  /\ row' = row => KeepsTexts /\ KeepsStamps
           /\ \A p \in {Queue, Modal} : StampTwins(p) \/ StampFact(p) => KeepsTexts
           /\ \A p \in {Desktop, Other} : Rederive(p) => KeepsTexts
           /\ DenyCommit => KeepsTexts /\ KeepsStamps
           /\ UndenyCommit => KeepsTexts /\ KeepsStamps
           /\ \A f \in Facts : Archive(f) => KeepsTexts /\ KeepsStamps
           /\ NewBrain => KeepsStamps /\ \A f \in Facts : row'[f].text = row[f].text
<1> USE Touched
<1>1. row' = row => KeepsTexts /\ KeepsStamps
  BY DEF KeepsTexts, KeepsStamps
<1>2. ASSUME NEW p \in {Queue, Modal}, StampTwins(p) PROVE KeepsTexts
  BY <1>2 DEF StampTwins, StampAll, Stamp, KeepsTexts, Rows
<1>3. ASSUME NEW p \in {Queue, Modal}, StampFact(p) PROVE KeepsTexts
  BY <1>3 DEF StampFact, Stamp, KeepsTexts, Rows
<1>4. ASSUME NEW p \in {Desktop, Other}, Rederive(p) PROVE KeepsTexts
  BY <1>4 DEF Rederive, StampAll, Stamp, KeepsTexts, Rows
<1>5. ASSUME DenyCommit PROVE KeepsTexts /\ KeepsStamps
  <2>1. row' = row \/ row' = [row EXCEPT ![op[Queue].fact].at = "gone"]
    BY <1>5 DEF DenyCommit
  <2> QED
    BY <2>1 DEF KeepsTexts, KeepsStamps, Rows
<1>6. ASSUME UndenyCommit PROVE KeepsTexts /\ KeepsStamps
  BY <1>6 DEF UndenyCommit, KeepsTexts, KeepsStamps, Rows
<1>7. ASSUME NEW f \in Facts, Archive(f) PROVE KeepsTexts /\ KeepsStamps
  BY <1>7 DEF Archive, KeepsTexts, KeepsStamps, Rows
<1>8. ASSUME NewBrain
      PROVE  KeepsStamps /\ \A f \in Facts : row'[f].text = row[f].text
  BY <1>8 DEF NewBrain, KeepsStamps, Rows
<1> QED
  BY <1>1, <1>2, <1>3, <1>4, <1>5, <1>6, <1>7, <1>8

Pending == {"record", "twins", "stamp"}

LEMMA ConfirmsStep == IInv /\ [Next]_vars => Confirms'
<1> SUFFICES ASSUME IInv, [Next]_vars PROVE Confirms'
  OBVIOUS
<1> USE Basics
<1>0. /\ TypeOK /\ op \in [Procs -> Ops] /\ races' = races
      /\ row \in [Facts -> Rows] /\ row' \in [Facts -> Rows]
      /\ Queue # Modal /\ Queue # Desktop /\ Queue # Other
      /\ Modal # Desktop /\ Modal # Other
  BY Touched DEF IInv, Queue, Modal, Desktop, Other
<1> DEFINE Goes == \A p \in {Queue, Modal} : op'[p].at \in Pending =>
                      /\ op[p].at \in Pending
                      /\ op'[p].fact = op[p].fact /\ op'[p].text = op[p].text
           Desks == desk' = desk \/ desk' = "up" \/ desk = "down"
<1>f. \A p \in Procs : op[p].fact \in Facts
  BY <1>0 DEF Ops
<1>k. ASSUME KeepsTexts, Goes, Desks PROVE Confirms'
  BY <1>0, <1>k, <1>f DEF IInv, Confirms, KeepsTexts, Pending
<1>g. ASSUME NEW p \in Procs, Rest(p) PROVE Goes
  <2>1. \A q \in Procs : op'[q] = IF q = p THEN Idle ELSE op[q]
    BY <1>0, <1>g DEF Rest
  <2> QED
    BY <2>1 DEF Pending
<1>h. ASSUME NEW p \in Procs, NEW a \in Stages, Go(p, a),
             a \in Pending => op[p].at \in Pending
      PROVE  Goes
  <2>1. \A q \in Procs : /\ op'[q].fact = op[q].fact /\ op'[q].text = op[q].text
                         /\ op'[q].at = IF q = p THEN a ELSE op[q].at
    BY <1>0, <1>h DEF Go, Ops
  <2> QED
    BY <2>1, <1>h
<1>r. row' = row => KeepsTexts
  BY <1>0, WhatRowsKeep
<1> HIDE DEF Goes
<1>1. CASE UNCHANGED <<op, row, desk>>
  BY <1>0, <1>1 DEF IInv, Confirms
<1>2. ASSUME NEW p \in {Queue, Modal}, NEW f \in Facts, ConfirmRead(p, f)
      PROVE  Confirms'
  <2> DEFINE new == [Idle EXCEPT !.at = "record", !.fact = f, !.text = row[f].text]
  <2>1. /\ op' = [op EXCEPT ![p] = new] /\ row' = row /\ desk' = desk
        /\ desk = "up" /\ row[f].at = "live"
    BY <1>2 DEF ConfirmRead, brain, Live
  <2>2. new.fact = f /\ new.text = row[f].text
    BY DEF Idle
  <2>3. \A q \in {Queue, Modal} : op'[q] = IF q = p THEN new ELSE op[q]
    BY <2>1, <1>0
  <2> HIDE DEF new
  <2> QED
    BY <2>1, <2>2, <2>3, <1>0 DEF IInv, Confirms
<1>3. ASSUME NEW p \in {Queue, Modal}, Record(p) PROVE Confirms'
  <2>1. op[p].at = "record" /\ (Go(p, "stamp") \/ Go(p, "twins"))
        /\ row' = row /\ desk' = desk
    BY <1>3 DEF Record, brain
  <2>2. Goes
    BY <2>1, <1>h DEF Pending, Stages
  <2> QED
    BY <2>1, <2>2, <1>k, <1>r
<1>4. ASSUME NEW p \in {Queue, Modal}, StampTwins(p) PROVE Confirms'
  <2>1. Goes
    BY <1>4, <1>h DEF StampTwins, Pending, Stages
  <2> QED
    BY <1>4, <2>1, <1>k, <1>0, WhatRowsKeep DEF StampTwins
<1>5. ASSUME NEW p \in {Queue, Modal}, StampFact(p) PROVE Confirms'
  BY <1>5, <1>g, <1>k, <1>0, WhatRowsKeep DEF StampFact
<1>6. ASSUME NEW p \in {Queue, Modal}, Fail(p) PROVE Confirms'
  BY <1>6, <1>g, <1>k, <1>r DEF Fail, brain
<1>7. ASSUME NEW f \in Facts, DenyRead(f) PROVE Confirms'
  <2>1. Goes
    BY <1>7, <1>0 DEF DenyRead, Goes, Pending, Idle
  <2> QED
    BY <1>7, <2>1, <1>k, <1>r DEF DenyRead, brain
<1>8. ASSUME NEW k \in Keys, Undeny(k) PROVE Confirms'
  <2>1. Goes
    BY <1>8, <1>0 DEF Undeny, Goes, Pending, Idle
  <2> QED
    BY <1>8, <2>1, <1>k, <1>r DEF Undeny, brain
<1>9. CASE DenyAppend
  <2>1. Goes
    BY <1>9, <1>h DEF DenyAppend, Pending, Stages
  <2> QED
    BY <1>9, <2>1, <1>k, <1>r DEF DenyAppend, brain
<1>10. CASE DenyCommit
  BY <1>10, <1>g, <1>k, <1>0, WhatRowsKeep DEF DenyCommit
<1>11. CASE UndenyCommit
  BY <1>11, <1>g, <1>k, <1>0, WhatRowsKeep DEF UndenyCommit
<1>12. CASE OpenMarked
  <2>1. Goes
    BY <1>12 DEF OpenMarked, Goes
  <2> QED
    BY <1>12, <2>1, <1>k, <1>r DEF OpenMarked, brain
<1>13. ASSUME NEW p \in {Desktop, Other}, OpenBrain(p) PROVE Confirms'
  <2>1. Goes
    BY <1>13, <1>0 DEF OpenBrain, Goes
  <2>2. Desks /\ row' = row
    BY <1>13 DEF OpenBrain, brain
  <2> QED
    BY <2>1, <2>2, <1>k, <1>r
<1>14. ASSUME NEW p \in {Desktop, Other}, Rederive(p) PROVE Confirms'
  <2>1. Goes
    BY <1>14, <1>h DEF Rederive, Pending, Stages
  <2> QED
    BY <1>14, <2>1, <1>k, <1>0, WhatRowsKeep DEF Rederive
<1>15. ASSUME NEW p \in {Desktop, Other}, Mark(p) \/ Defer(p) PROVE Confirms'
  <2>1. Goes
    BY <1>15, <1>g DEF Mark, Defer
  <2>2. Desks /\ row' = row
    BY <1>15 DEF Mark, Defer, brain
  <2> QED
    BY <2>1, <2>2, <1>k, <1>r
<1>16. ASSUME NEW f \in Facts, NEW t \in Texts,
              \/ Rewrite(f, t)
              \/ \E sure \in BOOLEAN : Edit(f, t, sure)
              \/ \E origin \in Origins : Add(f, t, origin)
       PROVE  Confirms'
  <2>1. PICK r \in Rows :
          /\ Written(f, r) /\ r.text = t /\ r.at # "none"
          /\ row[f].at = "none" \/ (row[f].at = r.at /\ (races \/ ~Confirming(f)))
    BY <1>16, <1>0, WrittenRow
  <2>2. op' = op /\ desk' = desk /\ row' = [row EXCEPT ![f] = r]
    BY <2>1 DEF Written
  <2>3. row'[f] = r /\ \A g \in Facts : g # f => row'[g] = row[g]
    BY <2>2, <1>0
  <2> SUFFICES ASSUME NEW p \in {Queue, Modal}, op[p].at \in Pending
               PROVE  /\ desk = "up" /\ row'[op[p].fact].at # "none"
                      /\ ~races => row'[op[p].fact].text = op[p].text
    BY <2>2, <1>0 DEF Confirms, Pending
  <2>4. /\ desk = "up" /\ row[op[p].fact].at # "none"
        /\ ~races => row[op[p].fact].text = op[p].text
    BY DEF IInv, Confirms, Pending
  <2>5. op[p].fact \in Facts
    BY <1>f
  <2>6. CASE op[p].fact = f
    <3>1. races
      BY <2>1, <2>4, <2>6 DEF Confirming, Pending
    <3> QED
      BY <2>1, <2>3, <2>4, <2>6, <3>1
  <2> QED
    BY <2>3, <2>4, <2>5, <2>6
<1>18. ASSUME NEW f \in Facts, Archive(f) PROVE Confirms'
  <2>1. Goes
    BY <1>18 DEF Archive, Goes
  <2> QED
    BY <1>18, <2>1, <1>k, <1>0, WhatRowsKeep DEF Archive
<1>19. CASE Quit \/ Die
  <2>1. op'[Queue] = Idle /\ op'[Modal] = Idle
    BY <1>19, <1>0 DEF Quit, Die
  <2> QED
    BY <2>1 DEF Confirms
<1>20. CASE NewBrain
  <2>1. op' = op /\ desk = "down"
    BY <1>20 DEF NewBrain
  <2> QED
    BY <2>1, <1>0 DEF IInv, Confirms
<1> QED
  BY <1>1, <1>2, <1>3, <1>4, <1>5, <1>6, <1>7, <1>8, <1>9, <1>10, <1>11, <1>12,
     <1>13, <1>14, <1>15, <1>16, <1>18, <1>19, <1>20
  DEF Next, Command, Denials, Opening, World, vars, brain, ConfirmAgain,
      DenyAgain

-----------------------------------------------------------------------------
LEMMA StampStep == IInv /\ [Next]_vars => StampIsCarried'
<1> SUFFICES ASSUME IInv, [Next]_vars, ~races PROVE StampIsCarried'
  BY Touched DEF StampIsCarried, IInv
<1> USE Basics
<1>0. /\ TypeOK /\ op \in [Procs -> Ops] /\ races' = races /\ lines \in Ledgers
      /\ row \in [Facts -> Rows] /\ row' \in [Facts -> Rows]
  BY Touched DEF IInv
<1>1. lines.sure \subseteq lines'.sure
  BY <1>0 DEF Ledgers, Next, Command, Denials, Opening, World, vars, brain,
         ConfirmAgain, ConfirmRead, Record, StampTwins, StampFact, Fail,
         DenyAgain, DenyRead, Undeny, DenyAppend, DenyCommit, UndenyCommit,
         OpenMarked, OpenBrain, Rederive, Mark, Defer, Edit, Rewrite, Archive, Add,
         Quit, Die, NewBrain, Written
<1>2. \A f \in Facts \ orphans : Stamped(f) => row[f].text \in lines.sure
  BY DEF IInv, StampIsCarried
<1>3. SUFFICES \A f \in Facts \ orphans' : row'[f].human /\ row'[f].sure
                                  => row'[f].text \in lines.sure
  BY <1>1 DEF StampIsCarried, Stamped
<1>4. ASSUME KeepsStamps, orphans' = orphans, \A f \in Facts : row'[f].text = row[f].text
      PROVE  \A f \in Facts \ orphans' : row'[f].human /\ row'[f].sure
                                => row'[f].text \in lines.sure
  BY <1>2, <1>4 DEF KeepsStamps, Stamped
<1>s. ASSUME NEW S \in SUBSET Facts, StampAll(S), \A f \in S : row[f].text \in lines.sure
      PROVE  \A f \in Facts \ orphans' : row'[f].human /\ row'[f].sure
                                => row'[f].text \in lines.sure
  <2> SUFFICES ASSUME NEW f \in Facts \ orphans', row'[f].human, row'[f].sure
               PROVE  row'[f].text \in lines.sure
    OBVIOUS
  <2>1. CASE f \in S
    <3>1. row'[f] = Stamp(row[f]) /\ row[f].text \in lines.sure
      BY <1>s, <2>1 DEF StampAll
    <3>2. Stamp(row[f]).text = row[f].text
      BY <1>0 DEF Stamp, Rows
    <3> QED
      BY <3>1, <3>2
  <2>2. CASE f \notin S
    <3>1. row'[f] = row[f] /\ f \notin orphans
      BY <1>s, <2>2 DEF StampAll
    <3> QED
      BY <3>1, <1>2 DEF Stamped
  <2> QED
    BY <2>1, <2>2
<1>5. ASSUME NEW p \in {Queue, Modal}, StampTwins(p)
      PROVE  \A f \in Facts \ orphans' : row'[f].human /\ row'[f].sure
                                => row'[f].text \in lines.sure
  <2>1. op[p].text \in lines.sure
    BY <1>5 DEF StampTwins, IInv, Remembered
  <2> DEFINE S == {f \in Facts : Live(f) /\ row[f].text = op[p].text}
  <2>2. StampAll(S) /\ S \subseteq Facts /\ \A f \in S : row[f].text \in lines.sure
    BY <1>5, <2>1 DEF StampTwins
  <2> HIDE DEF S
  <2> QED
    BY <2>2, <1>s
<1>6. ASSUME NEW p \in {Queue, Modal}, StampFact(p)
      PROVE  \A f \in Facts \ orphans' : row'[f].human /\ row'[f].sure
                                => row'[f].text \in lines.sure
  <2>1. op[p].text \in lines.sure /\ row[op[p].fact].text = op[p].text
    BY <1>6 DEF StampFact, IInv, Remembered, Confirms
  <2>2. op[p].fact \in Facts
    BY <1>0 DEF Ops
  <2>3. row' = [row EXCEPT ![op[p].fact] = Stamp(row[op[p].fact])]
    BY <1>6 DEF StampFact
  <2>4. orphans' = orphans /\ \A f \in Facts : f # op[p].fact => row'[f] = row[f]
    BY <2>3, <1>0, <1>6 DEF StampFact
  <2>5. row'[op[p].fact].text = row[op[p].fact].text
    BY <2>2, <2>3, <1>0 DEF Stamp, Rows
  <2> QED
    BY <2>1, <2>2, <2>4, <2>5, <1>2 DEF Stamped
<1>7. ASSUME NEW p \in {Desktop, Other}, Rederive(p)
      PROVE  \A f \in Facts \ orphans' : row'[f].human /\ row'[f].sure
                                => row'[f].text \in lines.sure
  <2>1. op[p].read.sure \subseteq lines.sure
    BY DEF IInv, Remembered
  <2> DEFINE S == {f \in Facts : Live(f) /\ row[f].text \in op[p].read.sure}
  <2>2. StampAll(S) /\ S \subseteq Facts /\ \A f \in S : row[f].text \in lines.sure
    BY <1>7, <2>1 DEF Rederive
  <2> HIDE DEF S
  <2> QED
    BY <2>2, <1>s
<1>8. ASSUME NEW f \in Facts, NEW t \in Texts,
             \/ Rewrite(f, t)
             \/ \E sure \in BOOLEAN : Edit(f, t, sure)
             \/ \E origin \in Origins : Add(f, t, origin)
      PROVE  \A g \in Facts \ orphans' : row'[g].human /\ row'[g].sure
                                => row'[g].text \in lines.sure
  <2>1. PICK r \in Rows : Written(f, r)
    BY <1>8, <1>0, WrittenRow
  <2>2. row'[f] = r /\ \A g \in Facts : g # f => row'[g] = row[g]
    BY <2>1, <1>0 DEF Written
  <2>3. r.human /\ r.sure => f \in orphans'
    BY <2>1 DEF Written
  <2>4. \A g \in Facts \ orphans' : g # f => g \notin orphans
    BY <2>1 DEF Written
  <2> QED
    BY <2>2, <2>3, <2>4, <1>2 DEF Stamped
<1>9. CASE KeepsTexts /\ KeepsStamps /\ orphans' = orphans
  BY <1>9, <1>4 DEF KeepsTexts
<1>10. CASE NewBrain
  BY <1>10, <1>4, <1>0, WhatRowsKeep DEF NewBrain
<1>11. CASE row' = row /\ orphans' = orphans
  BY <1>11, <1>9, <1>0, WhatRowsKeep
<1>12. ASSUME NEW f \in Facts, Archive(f) PROVE KeepsTexts /\ KeepsStamps /\ orphans' = orphans
  BY <1>12, <1>0, WhatRowsKeep DEF Archive
<1>13. DenyCommit \/ UndenyCommit => KeepsTexts /\ KeepsStamps /\ orphans' = orphans
  BY <1>0, WhatRowsKeep DEF DenyCommit, UndenyCommit
<1> QED
  BY <1>5, <1>6, <1>7, <1>8, <1>9, <1>10, <1>11, <1>12, <1>13
  DEF Next, Command, Denials, Opening, World, vars, brain, ConfirmAgain,
      ConfirmRead, Record, Fail, DenyAgain, DenyRead, Undeny, DenyAppend,
      OpenMarked, OpenBrain, Mark, Defer, Quit, Die

LEMMA SuppressionStep == IInv /\ [Next]_vars => SuppressionIsCarried'
<1> SUFFICES ASSUME IInv, [Next]_vars PROVE SuppressionIsCarried'
  OBVIOUS
<1> USE Basics
<1>0. lines \in Ledgers /\ denied \subseteq lines.denied \cup half
  BY Touched DEF IInv, SuppressionIsCarried
<1>1. CASE UNCHANGED <<denied, half>> /\ lines'.denied = lines.denied
  BY <1>0, <1>1 DEF SuppressionIsCarried
<1>2. CASE DenyAppend
  <2>1. lines'.denied = lines.denied \cup {op[Queue].key} /\ denied' = denied
    BY <1>0, <1>2 DEF DenyAppend, Ledgers, brain
  <2> QED
    BY <1>0, <1>2, <2>1 DEF DenyAppend, SuppressionIsCarried
<1>3. CASE DenyCommit
  <2>1. op[Queue].key \in lines.denied
    BY <1>3 DEF DenyCommit, IInv, Remembered
  <2>2. denied' = denied \/ denied' = denied \cup {op[Queue].key}
    BY <1>3 DEF DenyCommit
  <2> QED
    BY <1>0, <1>3, <2>1, <2>2 DEF DenyCommit, SuppressionIsCarried
<1>4. ASSUME NEW k \in Keys, Undeny(k) PROVE SuppressionIsCarried'
  <2>1. lines'.denied = lines.denied \ {k} /\ denied' = denied
    BY <1>0, <1>4 DEF Undeny, Ledgers, brain
  <2> QED
    BY <1>0, <1>4, <2>1 DEF Undeny, SuppressionIsCarried
<1>5. CASE UndenyCommit
  BY <1>0, <1>5 DEF UndenyCommit, SuppressionIsCarried
<1>6. ASSUME NEW p \in {Desktop, Other}, Rederive(p) PROVE SuppressionIsCarried'
  BY <1>6 DEF Rederive, SuppressionIsCarried
<1>7. CASE NewBrain
  BY <1>7 DEF NewBrain, SuppressionIsCarried
<1>8. ASSUME NEW p \in {Queue, Modal}, Record(p)
      PROVE  UNCHANGED <<denied, half>> /\ lines'.denied = lines.denied
  BY <1>0, <1>8 DEF Record, Ledgers, brain
<1> QED
  BY <1>1, <1>2, <1>3, <1>4, <1>5, <1>6, <1>7, <1>8
  DEF Next, Command, Denials, Opening, World, vars, brain, ConfirmAgain,
      ConfirmRead, StampTwins, StampFact, Fail, DenyAgain, DenyRead,
      OpenMarked, OpenBrain, Mark, Defer, Edit, Rewrite, Archive, Add, Quit, Die, Written

LEMMA DurableStep == IInv /\ [Next]_vars => ConfirmIsDurable'
<1> SUFFICES ASSUME IInv, [Next]_vars, ~races, done'.cmd = "confirm"
             PROVE  /\ done'.text \in lines'.sure \/ done'.fact \in orphans'
                    /\ row'[done'.fact].text = done'.text
                    /\ row'[done'.fact].human /\ row'[done'.fact].sure
  BY Touched DEF ConfirmIsDurable, IInv, Stamped
<1> USE Basics
<1>0. /\ op \in [Procs -> Ops] /\ lines \in Ledgers /\ row \in [Facts -> Rows]
  BY Touched DEF IInv
<1>1. CASE UNCHANGED vars
  BY <1>1 DEF vars, brain, IInv, ConfirmIsDurable, Stamped
<1>2. ASSUME NEW p \in {Queue, Modal}, NEW f \in Facts, ConfirmAgain(p, f)
      PROVE  /\ done'.text \in lines'.sure \/ done'.fact \in orphans'
             /\ row'[done'.fact].text = done'.text
             /\ row'[done'.fact].human /\ row'[done'.fact].sure
  BY <1>2 DEF ConfirmAgain, Report, Stamped, IInv, StampIsCarried, brain
<1>3. ASSUME NEW p \in {Queue, Modal}, StampFact(p)
      PROVE  /\ done'.text \in lines'.sure \/ done'.fact \in orphans'
             /\ row'[done'.fact].text = done'.text
             /\ row'[done'.fact].human /\ row'[done'.fact].sure
  <2>1. op[p].text \in lines.sure /\ row[op[p].fact].text = op[p].text
    BY <1>3 DEF StampFact, IInv, Remembered, Confirms
  <2>2. op[p].fact \in Facts
    BY <1>0 DEF Ops
  <2>3. row'[op[p].fact] = Stamp(row[op[p].fact])
    BY <1>3, <1>0, <2>2 DEF StampFact
  <2>4. /\ Stamp(row[op[p].fact]).human /\ Stamp(row[op[p].fact]).sure
        /\ Stamp(row[op[p].fact]).text = row[op[p].fact].text
    BY <1>0, <2>2 DEF Stamp, Rows
  <2>5. done'.fact = op[p].fact /\ done'.text = op[p].text /\ lines' = lines
    BY <1>3 DEF StampFact, Report
  <2> QED
    BY <2>1, <2>3, <2>4, <2>5
<1>4. CASE Quiet
  BY <1>4 DEF Quiet
<1>5. CASE DenyCommit
  BY <1>5 DEF DenyCommit, Quiet, Report
<1>6. ASSUME NEW f \in Facts, DenyAgain(f) PROVE FALSE
  BY <1>6 DEF DenyAgain, Report
<1> QED
  BY <1>1, <1>2, <1>3, <1>4, <1>5, <1>6
  DEF Next, Command, Denials, Opening, World, ConfirmRead, Record, StampTwins,
      Fail, DenyRead, Undeny, DenyAppend, UndenyCommit, OpenMarked, OpenBrain,
      Rederive, Mark, Defer, Edit, Rewrite, Archive, Add, Quit, Die, NewBrain, Written

LEMMA IInvHolds == Spec => []IInv
<1>1. Init => IInv
  <2> SUFFICES ASSUME Init PROVE IInv
    OBVIOUS
  <2>1. \A p \in Procs : op[p] = Idle
    BY DEF Init
  <2>2. Remembered /\ Confirms
    BY <2>1, Basics DEF Remembered, Confirms
  <2>3. StampIsCarried
    BY LedgerAssumption DEF Init, StampIsCarried, Stamped
  <2>4. SuppressionIsCarried /\ ConfirmIsDurable
    BY Basics DEF Init, SuppressionIsCarried, ConfirmIsDurable
  <2> QED
    BY <2>2, <2>3, <2>4, TypeInit DEF IInv
<1>2. IInv /\ [Next]_vars => IInv'
  BY TypeStep, RememberedStep, ConfirmsStep, StampStep, SuppressionStep,
     DurableStep DEF IInv
<1> QED
  BY <1>1, <1>2, PTL DEF Spec

\* A confirmation that reports success is on the fact and in the ledger, unless
\* the fact's stamp came with an edit or a proposal (queue.rs, confirm_fact_at),
\* for any number of crashes and retries.
THEOREM ConfirmationIsDurable == Spec => []ConfirmIsDurable
<1>1. IInv => ConfirmIsDurable
  BY DEF IInv
<1> QED
  BY <1>1, IInvHolds, PTL

\* Every suppression of the brain is carried by the vault (queue.rs,
\* deny_fact_at and undeny_fact_at).
THEOREM SuppressionsAreCarried == Spec => []SuppressionIsCarried
<1>1. IInv => SuppressionIsCarried
  BY DEF IInv
<1> QED
  BY <1>1, IInvHolds, PTL

\* The table of suppressions never forgets a key of the ledger, whatever
\* rederive runs beside whatever command (stated_ledger.rs, rebuild_rederive).
THEOREM TheLedgerIsObeyed == Spec => LedgerIsObeyed
<1> DEFINE Obeys == \A k \in denied \ denied' : k \notin lines.denied \/ NewBrain
<1>1. IInv /\ [Next]_vars => [Obeys]_vars
  <2> SUFFICES ASSUME IInv, [Next]_vars, ~UNCHANGED denied PROVE Obeys
    BY DEF vars, brain
  <2>1. CASE DenyCommit
    BY <2>1 DEF DenyCommit
  <2>2. CASE UndenyCommit
    BY <2>2 DEF UndenyCommit, IInv, Remembered
  <2>3. ASSUME NEW p \in {Desktop, Other}, Rederive(p) PROVE Obeys
    BY <2>3 DEF Rederive
  <2> QED
    BY <2>1, <2>2, <2>3
    DEF Next, Command, Denials, Opening, World, vars, brain, ConfirmAgain,
        ConfirmRead, Record, StampTwins, StampFact, Fail, DenyAgain, DenyRead,
        Undeny, DenyAppend, OpenMarked, OpenBrain, Mark, Defer, Edit, Rewrite, Archive,
        Add, Quit, Die, Written
<1> QED
  BY <1>1, IInvHolds, PTL DEF Spec, LedgerIsObeyed
=============================================================================
