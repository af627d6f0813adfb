---------------------------- MODULE StatedLedger ----------------------------
(***************************************************************************)
(* The human confirmation queue and its durable carriers: a person         *)
(* confirms, denies or un-denies a fact (db/queue.rs), each time first in  *)
(* the vault's stated/*.jsonl ledgers and then in one transaction of the   *)
(* brain, and a new brain re-derives stamps and suppressions from the      *)
(* ledgers when it is first opened (db/stated_ledger.rs, db/connection.rs).*)
(*                                                                         *)
(* Two processes of the desktop run commands: the queue's, one at a time   *)
(* under the DbState mutex, and the prompt modal's confirmation, on a      *)
(* connection of its own.  Facts are edited, archived and added at any     *)
(* moment, a second process may open the brain, the desktop may die        *)
(* between any two steps, a transaction may be refused (SQLITE_BUSY), and  *)
(* the brain may be deleted and built again.                               *)
(*                                                                         *)
(* A text stands for a title and body; Norm is what fact_text_hash keeps   *)
(* of it (case and white space folded), while the hash of a confirmation   *)
(* is exact.  Place is the document and chunk of a fact's first evidence.  *)
(***************************************************************************)
EXTENDS Integers, FiniteSets

CONSTANTS Facts, Texts, Norm, Place, InitFacts,
          Origins,    \* <<source_type user_confirmed?, confidence confirmed?>>
                      \* of the facts that proposals add
          Races,      \* the values of races a behavior may have
          MaxUpsets

ASSUME LedgerAssumption ==
    /\ Facts # {} /\ Texts # {}
    /\ DOMAIN Norm = Texts /\ DOMAIN Place = Facts
    /\ InitFacts \in [Facts -> [at : {"none", "live", "gone"}, text : Texts,
                                human : BOOLEAN, sure : BOOLEAN]]
    /\ Origins \subseteq BOOLEAN \X BOOLEAN /\ Races \subseteq BOOLEAN
    /\ MaxUpsets \in Nat

VARIABLES
    row,      \* llm_wiki_entries: where each fact is, its text, its stamp
    denied,   \* the table queue_denials
    marked,   \* the meta row stated_ledger_rederived
    lines,    \* the vault's ledgers: confirmed texts, denied keys
    op,       \* what each process is doing
    desk,     \* the desktop: "down", "opening", "up"
    done,     \* the command that reported success in the last step
    half,     \* history: un-denials that got no further than the ledger
    orphans,  \* history: facts whose full stamp came with an edit or a proposal
    races,    \* whether a fact may be edited while it is being confirmed
    used      \* refusals, deaths, edits, archives and deletions so far

brain == <<row, denied, marked>>
vars  == <<brain, lines, op, desk, done, half, orphans, races, used>>

Queue   == "queue"      \* queue_api.rs, under DbState
Modal   == "modal"      \* queue_confirm_or_capture_cmd
Desktop == "desktop"    \* the desktop's open of the brain
Other   == "other"      \* another process's open
Procs   == {Queue, Modal, Desktop, Other}

Key(f, t) == <<Place[f], Norm[t]>>
Keys      == {<<Place[f], Norm[t]>> : f \in Facts, t \in Texts}
Rows      == [at : {"none", "live", "gone"}, text : Texts,
              human : BOOLEAN, sure : BOOLEAN]

Ledgers   == [sure : SUBSET Texts, denied : SUBSET Keys]
Stages    == {"idle", "record", "twins", "stamp", "append", "deny", "undeny",
              "rederive", "mark"}

Blank  == CHOOSE t \in Texts : TRUE
NoFact == CHOOSE f \in Facts : TRUE
Idle   == [at |-> "idle", fact |-> NoFact, text |-> Blank,
           key |-> Key(NoFact, Blank), read |-> [sure |-> {}, denied |-> {}]]
Nothing == [cmd |-> "none", fact |-> NoFact, text |-> Blank]

Live(f)    == row[f].at = "live"
Stamped(f) == row[f].human /\ row[f].sure

Go(p, at)  == op' = [op EXCEPT ![p].at = at]
Rest(p)    == op' = [op EXCEPT ![p] = Idle]
Report(c, f, t) == done' = [cmd |-> c, fact |-> f, text |-> t]
Quiet      == done' = Nothing      \* nothing was reported
Upset      == used < MaxUpsets /\ used' = used + 1

Init ==
    /\ row = InitFacts /\ denied = {} /\ marked = FALSE
    /\ lines = [sure |-> {}, denied |-> {}]
    /\ op = [p \in Procs |-> Idle] /\ desk = "down"
    /\ done = Nothing /\ half = {} /\ orphans = {f \in Facts : Stamped(f)}
    /\ races \in Races
    /\ used = 0

-----------------------------------------------------------------------------
\* Confirmation: the row as it is read now decides what the ledger will say.

Stamp(r) == [r EXCEPT !.human = TRUE, !.sure = TRUE]
StampAll(S) == /\ row' = [f \in Facts |-> IF f \in S THEN Stamp(row[f]) ELSE row[f]]
               /\ orphans' = orphans \ S

\* A fully stamped fact is a no-op that reports success.
ConfirmAgain(p, f) ==
    /\ p \in {Queue, Modal} /\ desk = "up" /\ op[p] = Idle
    /\ Live(f) /\ Stamped(f)
    /\ Report("confirm", f, row[f].text)
    /\ UNCHANGED <<brain, lines, op, desk, half, orphans, races, used>>

ConfirmRead(p, f) ==
    /\ p \in {Queue, Modal} /\ desk = "up" /\ op[p] = Idle
    /\ Live(f) /\ ~Stamped(f)
    /\ op' = [op EXCEPT ![p] = [Idle EXCEPT !.at = "record", !.fact = f,
                                            !.text = row[f].text]]
    /\ Quiet
    /\ UNCHANGED <<brain, lines, desk, half, orphans, races, used>>

\* The line is appended unless the ledger has the hash already, in which case
\* the stamp of the twins is skipped with it.
Record(p) ==
    /\ op[p].at = "record"
    /\ lines' = [lines EXCEPT !.sure = @ \cup {op[p].text}]
    /\ Go(p, IF op[p].text \in lines.sure THEN "stamp" ELSE "twins")
    /\ Quiet
    /\ UNCHANGED <<brain, desk, half, orphans, races, used>>

\* Mutant: twins are found by the queue's folded hash.
StampTwinsFolded(p) ==
    /\ op[p].at = "twins"
    /\ StampAll({f \in Facts : Live(f) /\ Norm[row[f].text] = Norm[op[p].text]})
    /\ Go(p, "stamp")
    /\ Quiet
    /\ UNCHANGED <<denied, marked, lines, desk, half, races, used>>

\* Every live fact of exactly this text is stamped, in a transaction of its own.
StampTwins(p) ==
    /\ op[p].at = "twins"
    /\ StampAll({f \in Facts : Live(f) /\ row[f].text = op[p].text})
    /\ Go(p, "stamp")
    /\ Quiet
    /\ UNCHANGED <<denied, marked, lines, desk, half, races, used>>

\* The clicked fact is stamped by its id, whatever became of it since.
StampFact(p) ==
    /\ op[p].at = "stamp"
    /\ row' = [row EXCEPT ![op[p].fact] = Stamp(@)]
    /\ Report("confirm", op[p].fact, op[p].text)
    /\ Rest(p)
    /\ UNCHANGED <<denied, marked, lines, desk, half, orphans, races, used>>

-----------------------------------------------------------------------------
\* Denial and un-denial: both run under the mutex.

\* A key the table already has is a no-op that reports success.
DenyAgain(f) ==
    /\ desk = "up" /\ op[Queue] = Idle
    /\ Live(f) /\ Key(f, row[f].text) \in denied
    /\ Report("deny", f, row[f].text)
    /\ UNCHANGED <<brain, lines, op, desk, half, orphans, races, used>>

DenyRead(f) ==
    /\ desk = "up" /\ op[Queue] = Idle
    /\ Live(f) /\ Key(f, row[f].text) \notin denied
    /\ op' = [op EXCEPT ![Queue] = [Idle EXCEPT !.at = "append", !.fact = f,
                                      !.text = row[f].text,
                                      !.key = Key(f, row[f].text)]]
    /\ Quiet
    /\ UNCHANGED <<brain, lines, desk, half, orphans, races, used>>

\* The line is appended unless the ledger has it.
DenyAppend ==
    /\ op[Queue].at = "append"
    /\ lines' = [lines EXCEPT !.denied = @ \cup {op[Queue].key}]
    /\ half' = half \ {op[Queue].key}
    /\ Go(Queue, "deny")
    /\ Quiet
    /\ UNCHANGED <<brain, desk, orphans, races, used>>

\* Archive and suppress, in one transaction; a fact that is archived already
\* makes it fail and roll back.
DenyCommit ==
    /\ op[Queue].at = "deny"
    /\ LET f == op[Queue].fact
       IN  IF Live(f)
           THEN /\ row' = [row EXCEPT ![f].at = "gone"]
                /\ denied' = denied \cup {op[Queue].key}
                /\ Report("deny", f, op[Queue].text)
           ELSE UNCHANGED <<row, denied>> /\ Quiet
    /\ Rest(Queue)
    /\ UNCHANGED <<marked, lines, desk, half, orphans, races, used>>

\* The denied section lists the table; the ledger is rewritten without the key.
Undeny(k) ==
    /\ desk = "up" /\ op[Queue] = Idle /\ k \in denied
    /\ lines' = [lines EXCEPT !.denied = @ \ {k}]
    /\ half' = half \cup {k}
    /\ op' = [op EXCEPT ![Queue] = [Idle EXCEPT !.at = "undeny", !.key = k]]
    /\ Quiet
    /\ UNCHANGED <<brain, desk, orphans, races, used>>

\* The suppression goes, and every archived fact of the same normalized text
\* is live again, whoever archived it.
UndenyCommit ==
    /\ op[Queue].at = "undeny"
    /\ LET k == op[Queue].key
       IN  /\ denied' = denied \ {k} /\ half' = half \ {k}
           /\ row' = [f \in Facts |->
                        IF row[f].at = "gone" /\ Norm[row[f].text] = k[2]
                        THEN [row[f] EXCEPT !.at = "live"] ELSE row[f]]
    /\ Rest(Queue)
    /\ Quiet
    /\ UNCHANGED <<marked, lines, desk, orphans, races, used>>

\* A step of the brain is refused: the command reports the error, and whatever
\* the ledger says by then stays.
Fail(p) ==
    /\ op[p].at \in {"twins", "stamp", "deny", "undeny"}
    /\ Upset
    /\ Rest(p)
    /\ Quiet
    /\ UNCHANGED <<brain, lines, desk, half, orphans, races>>

-----------------------------------------------------------------------------
\* Opening the brain: the ledgers are re-derived once per brain.

\* A brain that was re-derived before is simply opened.
OpenMarked ==
    /\ desk = "down" /\ marked
    /\ desk' = "up"
    /\ Quiet
    /\ UNCHANGED <<brain, lines, op, half, orphans, races, used>>

\* The confirmations are read before anything is locked.
OpenBrain(p) ==
    /\ ~marked /\ op[p] = Idle
    /\ \/ p = Desktop /\ desk = "down" /\ desk' = "opening"
       \/ p = Other /\ UNCHANGED desk
    /\ op' = [op EXCEPT ![p] = [Idle EXCEPT !.at = "rederive", !.read = lines]]
    /\ Quiet
    /\ UNCHANGED <<brain, lines, half, orphans, races, used>>

\* Mutant: the table is filled up, not replaced.
RederiveAdds(p) ==
    /\ op[p].at = "rederive"
    /\ StampAll({f \in Facts : Live(f) /\ row[f].text \in op[p].read.sure})
    /\ denied' = denied \cup lines.denied
    /\ half' = half \cap lines.denied
    /\ Go(p, "mark")
    /\ Quiet
    /\ UNCHANGED <<marked, lines, desk, races, used>>

\* Mutant: the denials are read with the confirmations, before the lock.
RederiveReadsFirst(p) ==
    /\ op[p].at = "rederive"
    /\ StampAll({f \in Facts : Live(f) /\ row[f].text \in op[p].read.sure})
    /\ denied' = op[p].read.denied
    /\ half' = half \cap lines.denied
    /\ Go(p, "mark")
    /\ Quiet
    /\ UNCHANGED <<marked, lines, desk, races, used>>

\* The rest is one transaction.  Its first DELETE takes the write lock, and the
\* denials are read after it.
Rederive(p) ==
    /\ op[p].at = "rederive"
    /\ StampAll({f \in Facts : Live(f) /\ row[f].text \in op[p].read.sure})
    /\ denied' = lines.denied
    /\ half' = half \cap lines.denied
    /\ Go(p, "mark")
    /\ Quiet
    /\ UNCHANGED <<marked, lines, desk, races, used>>

\* The marker is a statement of its own, and the open is over.
Mark(p) ==
    /\ op[p].at = "mark"
    /\ marked' = TRUE
    /\ Rest(p)
    /\ desk' = IF p = Desktop THEN "up" ELSE desk
    /\ Quiet
    /\ UNCHANGED <<row, denied, lines, half, orphans, races, used>>

\* A rederive that fails is deferred to the next open; this one goes on.
Defer(p) ==
    /\ op[p].at = "rederive"
    /\ Upset
    /\ Rest(p)
    /\ desk' = IF p = Desktop THEN "up" ELSE desk
    /\ Quiet
    /\ UNCHANGED <<brain, lines, half, orphans, races>>

-----------------------------------------------------------------------------
\* The environment.

\* Whether a confirmation of f is between its read and its stamps.
Confirming(f) == \E p \in {Queue, Modal} :
                    op[p].at \in {"record", "twins", "stamp"} /\ op[p].fact = f

\* The row f becomes r, whose stamp, if it is a full one, no confirmation gave.
Written(f, r) ==
    /\ row' = [row EXCEPT ![f] = r]
    /\ orphans' = IF r.human /\ r.sure THEN orphans \cup {f} ELSE orphans \ {f}
    /\ Quiet
    /\ UNCHANGED <<denied, marked, lines, op, desk, half, races>>

\* commit_fact_update: the payload's text and confidence, which may well be
\* "confirmed"; the row keeps its source_type.
Edit(f, t, sure) ==
    /\ Live(f) /\ <<t, sure>> # <<row[f].text, row[f].sure>> /\ Upset
    /\ races \/ ~Confirming(f)
    /\ Written(f, [row[f] EXCEPT !.text = t, !.sure = sure])

\* update_wisdom: a person rewrites the text, under the mutex, and the row
\* keeps its source_type and its confidence.
Rewrite(f, t) ==
    /\ desk = "up" /\ op[Queue] = Idle
    /\ Live(f) /\ t # row[f].text /\ Upset
    /\ races \/ ~Confirming(f)
    /\ Written(f, [row[f] EXCEPT !.text = t])

\* A heal, a forget or an approved fact_archive.
Archive(f) ==
    /\ Live(f) /\ Upset
    /\ row' = [row EXCEPT ![f].at = "gone"]
    /\ Quiet
    /\ UNCHANGED <<denied, marked, lines, op, desk, half, orphans, races>>

\* commit_fact_add: the source_type is the one of the approval, the confidence
\* the payload's.
Add(f, t, origin) ==
    /\ row[f].at = "none"
    /\ Written(f, [at |-> "live", text |-> t, human |-> origin[1], sure |-> origin[2]])
    /\ UNCHANGED used

\* The desktop is closed with nothing under way.
Quit ==
    /\ desk = "up" /\ op[Queue] = Idle /\ op[Modal] = Idle
    /\ desk' = "down" /\ Quiet
    /\ UNCHANGED <<brain, lines, op, half, orphans, races, used>>

\* It dies, between any two of its steps.
Die ==
    /\ desk # "down" /\ Upset
    /\ desk' = "down" /\ Quiet
    /\ op' = [op EXCEPT ![Queue] = Idle, ![Modal] = Idle, ![Desktop] = Idle]
    /\ UNCHANGED <<brain, lines, half, orphans, races>>

\* The brain is deleted while nobody has it open; the vault, with its ledgers,
\* stays.  Facts that are extracted again have new ids.
NewBrain ==
    /\ desk = "down" /\ op[Other] = Idle /\ Upset
    /\ row' = [f \in Facts |-> [row[f] EXCEPT !.at = "none"]]
    /\ denied' = {} /\ marked' = FALSE /\ half' = {}
    /\ Quiet
    /\ UNCHANGED <<lines, op, desk, orphans, races>>

-----------------------------------------------------------------------------
Command(p) == \/ \E f \in Facts : ConfirmAgain(p, f) \/ ConfirmRead(p, f)
              \/ Record(p) \/ StampTwins(p) \/ StampFact(p) \/ Fail(p)
Denials    == \/ \E f \in Facts : DenyAgain(f) \/ DenyRead(f)
              \/ \E k \in Keys : Undeny(k)
              \/ DenyAppend \/ DenyCommit \/ UndenyCommit
Opening(p) == OpenBrain(p) \/ Rederive(p) \/ Mark(p) \/ Defer(p)
World      == \/ \E f \in Facts : Archive(f)
              \/ \E f \in Facts, t \in Texts :
                    \/ Rewrite(f, t)
                    \/ \E sure \in BOOLEAN : Edit(f, t, sure)
                    \/ \E origin \in Origins : Add(f, t, origin)
              \/ Quit \/ Die \/ NewBrain

Next == \/ \E p \in {Queue, Modal} : Command(p)
        \/ Denials
        \/ OpenMarked \/ \E p \in {Desktop, Other} : Opening(p)
        \/ World

Spec == Init /\ [][Next]_vars

-----------------------------------------------------------------------------
TypeOK ==
    /\ row \in [Facts -> Rows] /\ denied \subseteq Keys /\ marked \in BOOLEAN
    /\ lines \in Ledgers
    /\ op \in [Procs -> [at : Stages, fact : Facts, text : Texts, key : Keys,
                         read : Ledgers]]
    /\ desk \in {"down", "opening", "up"}
    /\ done \in [cmd : {"none", "confirm", "deny"}, fact : Facts, text : Texts]
    /\ half \subseteq Keys /\ orphans \subseteq Facts /\ races \in BOOLEAN
    /\ used \in Nat

\* A confirmation that reports success is on the fact and in the vault's
\* ledger, whatever crash, refused transaction, retry, second confirmation,
\* denial or rebuild went before (queue.rs, confirm_fact_at: "ledger first",
\* the full stamp and the early return of a stamped fact), as long as nobody
\* edits the fact between the read and the stamp.  The early return takes an
\* orphan's stamp for a confirmation, so the ledger's half excepts orphans:
\* facts that got their full stamp, or kept it, with an edit or a proposal.
ConfirmIsDurable ==
    ~races /\ done.cmd = "confirm" =>
        /\ row[done.fact].text = done.text /\ Stamped(done.fact)
        /\ done.text \in lines.sure \/ done.fact \in orphans

\* What stated_ledger.rs says, "the JSONL ledger is the only durable carrier, the
\* brain rows are derived", the match key being the hash of the text: a live
\* fact that is stamped has its text in the ledger.  It is not so, and no run
\* claims it (README, divergences).
StampIsDerived ==
    ~races => \A f \in Facts : Live(f) /\ Stamped(f) => row[f].text \in lines.sure

\* Every suppression the brain applies is one the vault carries, so that a new
\* brain has it too; the exception is an un-denial that got only half way,
\* which a new brain completes (queue.rs, deny_fact_at and undeny_fact_at).
SuppressionIsCarried == denied \subseteq lines.denied \cup half

\* The table never forgets a key the ledger carries, short of the brain's
\* deletion: a rederive that runs beside a denial does not wipe the key the
\* denial has just inserted (stated_ledger.rs, rebuild_rederive).
LedgerIsObeyed ==
    [][\A k \in denied \ denied' :
          k \notin lines.denied \/ NewBrain]_vars

\* What deny_fact_at says of its early return: the fact of a denial that
\* reports success is suppressed, in the ledger and archived.  It is not so, and
\* no run claims it (README, divergences).
DenyIsApplied ==
    done.cmd = "deny" =>
        LET k == Key(done.fact, done.text)
        IN  /\ k \in denied /\ k \in lines.denied
            /\ row[done.fact].at = "gone"
=============================================================================
