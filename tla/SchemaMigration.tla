-------------------------- MODULE SchemaMigration --------------------------
(***************************************************************************)
(* migrate() of db/connection.rs: the ladder of schema versions that every *)
(* open of the brain climbs.  The desktop application and some commands of *)
(* ct open it with the root of the vault, once one is configured; others,  *)
(* and the headless server, open it without.  Opens of two processes may   *)
(* overlap, and a process may die, or give up on a locked database,        *)
(* between any two transactions.                                           *)
(*                                                                         *)
(* The ladder is gated on MAX(version), read once.  It is not climbed in   *)
(* numerical order, some versions are not stamped in the transaction of    *)
(* their body, and some may be put off, so a stamp can hide a version that *)
(* never ran.  The data a version rewrites is abstracted to whether its    *)
(* body has run; the rows of V20 are kept (flagged), since the healer acts *)
(* on them.                                                                *)
(***************************************************************************)
EXTENDS Integers, Sequences

CONSTANTS Openers,      \* processes that open the brain
          Rooted,       \* those that read config.json for the vault
          Levels,       \* versions a brain may be found at, 0 for a new one
          MaxCrashes    \* opens that die before their end

ASSUME OpenersAssumption == Rooted \subseteq Openers
ASSUME LevelsAssumption == Levels \subseteq 0..21
ASSUME BoundsAssumption == MaxCrashes \in Nat

VARIABLES stamps,       \* rows of schema_version
          applied,      \* versions whose body is in the database
          torn,         \* bodies outside a transaction, begun and not ended
          flagged,      \* the rows that V20 must export before they are deleted
          exportable,   \* the export of V20 can be completed
          configured,   \* config.json names a vault
          op,           \* per process, its open
          level,        \* the version the brain was found at
          crashes

vars == <<stamps, applied, torn, flagged, exportable, configured, op, level, crashes>>
brain == <<stamps, applied, torn>>
world == <<flagged, exportable, configured, level, crashes>>

-----------------------------------------------------------------------------
(* The ladder *)

Rekey == 0   \* the working-tier keys of chunks, updated after V5's transaction

\* In the order of the code.
Ladder == <<4, 5, Rekey, 6, 9, 10, 11, 7, 12, 13, 14, 15, 16, 17, 18, 19, 20,
            21, 22, 23, 24, 25, 26, 27, 28, 8>>
Steps == {Ladder[i] : i \in 1..Len(Ladder)}

Versions == 1..28

\* body and stamp in one transaction
Transactional == {5, 6, 9, 10, 11, 7, 12, 14, 16}
\* add to an existing table the columns that a look has found missing
Altered == {13, 17}
\* statements without a transaction, which cannot be run over a half-run body
Bare == {4, 15}
\* the body commits, the stamp follows
Split == {18, 19, 8}
\* run by every open, whatever the stamps say
Ungated == {23, 24, 25, 26, 27, 28}
\* ALTER TABLE ADD COLUMN without a look at the columns: a second run is an error
OnceOnly == {4, 5, 9, 11, 16}
\* touch tables that V7 creates
NeedsOkf == {12, 16, 17, 18, 19, 20, 21, 24, 27, 8}
\* what verify_llm_wiki_schema looks for
Guarded == {7, 16, 17, 24, 27}

AtLeast(v) == \E s \in stamps : s >= v

Closed == [pc |-> "closed", at |-> 1, ver |-> 0, rooted |-> FALSE,
           gate |-> FALSE, alone |-> TRUE, settled |-> FALSE]

Climbing(p) == op[p].pc \in {"read", "body", "alter", "stamp"}
AtVersion(p, pc, V) == /\ op[p].pc = pc
                       /\ op[p].at <= Len(Ladder)
                       /\ Ladder[op[p].at] \in V
Version(p) == Ladder[op[p].at]
Gate(v) == IF v = Rekey THEN 5 ELSE v
Due(p) == op[p].ver < Gate(Version(p))
Fits(v) == /\ v \in OnceOnly => v \notin applied
           /\ v \in NeedsOkf => 7 \in applied

Advance(p) == op' = [op EXCEPT ![p].at = @ + 1, ![p].pc = "body"]
ToStamp(p) == op' = [op EXCEPT ![p].pc = "stamp"]

-----------------------------------------------------------------------------
(* An open *)

\* Connection::open and the transaction of V1 to V3, which every open repeats.
\* A process that may know the vault creates the file, and opens it at each of
\* its starts; one that never does opens it once.
Start(p) ==
    /\ op[p].pc \in IF p \in Rooted THEN {"closed", "killed", "error"} ELSE {"closed"}
    /\ p \notin Rooted => stamps # {}
    /\ stamps' = stamps \cup {1, 2, 3}
    /\ LET others == {q \in Openers \ {p} : Climbing(q)}
       IN  op' = [q \in Openers |->
                    IF q = p
                    THEN [Closed EXCEPT !.pc = "read",
                                        !.rooted = (p \in Rooted /\ configured),
                                        !.alone = (others = {}),
                                        !.settled = (flagged # "doomed")]
                    ELSE IF q \in others THEN [op[q] EXCEPT !.alone = FALSE] ELSE op[q]]
    /\ UNCHANGED <<applied, torn>> /\ UNCHANGED world

\* SELECT MAX(version), the one read that gates the ladder.
ReadVersion(p) ==
    /\ op[p].pc = "read"
    /\ \E max \in stamps :
         /\ \A v \in stamps : v <= max
         /\ op' = [op EXCEPT ![p].pc = "body", ![p].ver = max]
    /\ UNCHANGED brain /\ UNCHANGED world

\* "if version < n" is false, for every n up to the next that is due.  The
\* snapshot is the process's own, so the run of skips is one step.
Skipped(p, i) == Ladder[i] \notin Ungated /\ Gate(Ladder[i]) <= op[p].ver
SkipVersions(p) ==
    /\ op[p].pc = "body"
    /\ \E next \in (op[p].at + 1)..(Len(Ladder) + 1) :
         /\ \A i \in op[p].at..(next - 1) : Skipped(p, i)
         /\ next <= Len(Ladder) => ~Skipped(p, next)
         /\ op' = [op EXCEPT ![p].at = next]
    /\ UNCHANGED brain /\ UNCHANGED world

\* A statement that the schema refuses: a duplicate column, a missing or an
\* existing table.  The error ends the open; its transaction is rolled back.
SchemaError(p) ==
    /\ \/ /\ AtVersion(p, "body", Versions)
          /\ Version(p) \in Ungated \/ Due(p)
          /\ ~Fits(Version(p)) \/ Version(p) \in Bare \cap torn
       \/ AtVersion(p, "alter", Altered) /\ Version(p) \in applied
    /\ op' = [op EXCEPT ![p].pc = "error"]
    /\ UNCHANGED brain /\ UNCHANGED world

\* Mutant: a body without its stamp.
MutTransactionalVersion(p) ==
    /\ AtVersion(p, "body", Transactional)
    /\ Due(p) /\ Fits(Version(p))
    /\ applied' = applied \cup {Version(p)}
    /\ Advance(p)
    /\ UNCHANGED <<stamps, torn>> /\ UNCHANGED world

TransactionalVersion(p) ==
    /\ AtVersion(p, "body", Transactional)
    /\ Due(p) /\ Fits(Version(p))
    /\ applied' = applied \cup {Version(p)}
    /\ stamps' = stamps \cup {Version(p)}
    /\ Advance(p)
    /\ UNCHANGED torn /\ UNCHANGED world

\* The keys of the chunks follow V5 in a statement of their own, under V5's gate.
RekeyChunks(p) ==
    /\ AtVersion(p, "body", {Rekey})
    /\ Due(p)
    /\ applied' = applied \cup {Rekey}
    /\ Advance(p)
    /\ UNCHANGED <<stamps, torn>> /\ UNCHANGED world

\* V4 adds four columns one by one; V15 creates a new documents table, copies,
\* drops the old one and renames.
BareBegin(p) ==
    /\ AtVersion(p, "body", Bare)
    /\ Due(p) /\ Fits(Version(p)) /\ Version(p) \notin torn
    /\ torn' = torn \cup {Version(p)}
    /\ ToStamp(p)
    /\ UNCHANGED <<stamps, applied>> /\ UNCHANGED world

\* The new documents table has the columns known to V15, not those of V28.
BareEnd(p) ==
    /\ AtVersion(p, "stamp", Bare)
    /\ torn' = torn \ {Version(p)}
    /\ applied' = (applied \cup {Version(p)}) \ (IF Version(p) = 15 THEN {28} ELSE {})
    /\ stamps' = stamps \cup {Version(p)}
    /\ Advance(p)
    /\ UNCHANGED world

\* V13 and V17 look at the columns of a table once and add what they miss, in
\* statements without a lock: another open may have added it meanwhile.
LookAtColumns(p) ==
    /\ AtVersion(p, "body", Altered)
    /\ Due(p) /\ Fits(Version(p))
    /\ op' = [op EXCEPT ![p].pc = IF Version(p) \in applied THEN "stamp" ELSE "alter"]
    /\ UNCHANGED brain /\ UNCHANGED world

AddColumns(p) ==
    /\ AtVersion(p, "alter", Altered)
    /\ Version(p) \notin applied
    /\ applied' = applied \cup {Version(p)}
    /\ ToStamp(p)
    /\ UNCHANGED <<stamps, torn>> /\ UNCHANGED world

SplitBody(p) ==
    /\ AtVersion(p, "body", Split)
    /\ Due(p) /\ Fits(Version(p))
    /\ applied' = applied \cup {Version(p)}
    /\ ToStamp(p)
    /\ UNCHANGED <<stamps, torn>> /\ UNCHANGED world

SplitStamp(p) ==
    /\ AtVersion(p, "stamp", Altered \cup Split \cup {20, 22})
    /\ stamps' = stamps \cup {Version(p)}
    /\ Advance(p)
    /\ UNCHANGED <<applied, torn>> /\ UNCHANGED world

\* Mutant: stamps V20 whatever the re-grade did.
MutRegrade(p) ==
    /\ AtVersion(p, "body", {20})
    /\ Due(p) /\ Fits(20)
    /\ ToStamp(p)
    /\ IF flagged # "doomed" \/ exportable
       THEN /\ flagged' = IF flagged = "doomed" THEN "exported" ELSE flagged
            /\ applied' = applied \cup {20}
       ELSE UNCHANGED <<flagged, applied>>
    /\ UNCHANGED <<stamps, torn, exportable, configured, level, crashes>>

\* V20 re-grades: doomed rows are exported and purged, or, when the export
\* cannot be completed, left as they are and the version is not stamped.
Regrade(p) ==
    /\ AtVersion(p, "body", {20})
    /\ Due(p) /\ Fits(20)
    /\ \/ /\ flagged # "doomed" \/ exportable
          /\ flagged' = IF flagged = "doomed" THEN "exported" ELSE flagged
          /\ applied' = applied \cup {20}
          /\ ToStamp(p)
       \/ /\ flagged = "doomed" /\ ~exportable
          /\ Advance(p)
          /\ UNCHANGED <<flagged, applied>>
    /\ UNCHANGED <<stamps, torn, exportable, configured, level, crashes>>

\* Mutant: V21 does not wait for V20.
MutReviewedBy(p) ==
    /\ AtVersion(p, "body", {21})
    /\ Due(p) /\ Fits(21)
    /\ Advance(p)
    /\ applied' = applied \cup {21} /\ stamps' = stamps \cup {21}
    /\ UNCHANGED torn /\ UNCHANGED world

\* V21 waits for V20's stamp; column and stamp are one transaction, and the
\* column is looked for again under the write lock.
ReviewedBy(p) ==
    /\ AtVersion(p, "body", {21})
    /\ Due(p) /\ Fits(21)
    /\ Advance(p)
    /\ IF AtLeast(20)
       THEN applied' = applied \cup {21} /\ stamps' = stamps \cup {21}
       ELSE UNCHANGED <<applied, stamps>>
    /\ UNCHANGED torn /\ UNCHANGED world

\* Mutant: an open without a vault stamps V22 too.
MutUnifyPaths(p) ==
    /\ AtVersion(p, "body", {22})
    /\ Due(p)
    /\ IF op[p].rooted THEN applied' = applied \cup {22} ELSE UNCHANGED applied
    /\ ToStamp(p)
    /\ UNCHANGED <<stamps, torn>> /\ UNCHANGED world

\* V22 rewrites the paths of documents, if the open knows the vault.
UnifyPaths(p) ==
    /\ AtVersion(p, "body", {22})
    /\ Due(p)
    /\ IF op[p].rooted
       THEN applied' = applied \cup {22} /\ ToStamp(p)
       ELSE Advance(p) /\ UNCHANGED applied
    /\ UNCHANGED <<stamps, torn>> /\ UNCHANGED world

-----------------------------------------------------------------------------
(* V23 to V28 run on every open; their stamps wait for V22's *)

\* Mutant: the bodies wait for V22 as their stamps do.
MutEveryOpenBody(p) ==
    /\ AtVersion(p, "body", {23, 26, 27, 28})
    /\ Fits(Version(p))
    /\ IF AtLeast(22) THEN applied' = applied \cup {Version(p)} ELSE UNCHANGED applied
    /\ ToStamp(p)
    /\ UNCHANGED <<stamps, torn>> /\ UNCHANGED world

EveryOpenBody(p) ==
    /\ AtVersion(p, "body", {23, 26, 27, 28})
    /\ Fits(Version(p))
    /\ applied' = applied \cup {Version(p)}
    /\ ToStamp(p)
    /\ UNCHANGED <<stamps, torn>> /\ UNCHANGED world

\* V23, V27 and V28 read MAX(version) for their stamp, V26 relies on V25's read.
EveryOpenStamp(p) ==
    /\ AtVersion(p, "stamp", {23, 26, 27, 28})
    /\ LET v == Version(p)
           gate == IF v = 26 THEN op[p].gate ELSE AtLeast(22)
       IN  /\ stamps' = IF gate THEN stamps \cup {v} ELSE stamps
           /\ op' = [op EXCEPT ![p].at = @ + 1, ![p].pc = "body", ![p].gate = gate]
    /\ UNCHANGED <<applied, torn>> /\ UNCHANGED world

\* Columns and stamp of V24 are one transaction, under V23's read.
TemporalColumns(p) ==
    /\ AtVersion(p, "body", {24})
    /\ Fits(24)
    /\ applied' = applied \cup {24}
    /\ stamps' = IF op[p].gate THEN stamps \cup {24} ELSE stamps
    /\ Advance(p)
    /\ UNCHANGED torn /\ UNCHANGED world

\* V25 reads MAX(version) again and waits for V22 with its body too.
DepositSeeds(p) ==
    /\ AtVersion(p, "body", {25})
    /\ IF AtLeast(22)
       THEN /\ applied' = applied \cup {25}
            /\ op' = [op EXCEPT ![p].pc = "stamp", ![p].gate = TRUE]
       ELSE /\ op' = [op EXCEPT ![p].at = @ + 1, ![p].gate = FALSE]
            /\ UNCHANGED applied
    /\ UNCHANGED <<stamps, torn>> /\ UNCHANGED world

DepositStamp(p) ==
    /\ AtVersion(p, "stamp", {25})
    /\ stamps' = stamps \cup {25}
    /\ Advance(p)
    /\ UNCHANGED <<applied, torn>> /\ UNCHANGED world

\* The startup guard over the tables of the wiki; then the process serves.
Finish(p) ==
    /\ op[p].pc = "body" /\ op[p].at = Len(Ladder) + 1
    /\ op' = [op EXCEPT ![p].pc = IF Guarded \subseteq applied THEN "open" ELSE "error"]
    /\ UNCHANGED brain /\ UNCHANGED world

Step(p) ==
    \/ ReadVersion(p) \/ SkipVersions(p) \/ SchemaError(p) \/ TransactionalVersion(p)
    \/ RekeyChunks(p) \/ BareBegin(p) \/ BareEnd(p) \/ LookAtColumns(p) \/ AddColumns(p)
    \/ SplitBody(p) \/ SplitStamp(p) \/ Regrade(p) \/ ReviewedBy(p) \/ UnifyPaths(p)
    \/ EveryOpenBody(p) \/ EveryOpenStamp(p) \/ TemporalColumns(p)
    \/ DepositSeeds(p) \/ DepositStamp(p) \/ Finish(p)

-----------------------------------------------------------------------------
(* The processes and the user *)

\* The process dies, or a statement fails on a locked database.
Die(p) ==
    /\ Climbing(p)
    /\ crashes < MaxCrashes
    /\ crashes' = crashes + 1
    /\ op' = [op EXCEPT ![p].pc = "killed"]
    /\ UNCHANGED brain /\ UNCHANGED <<flagged, exportable, configured, level>>

\* The re-grade of V20 fails, and migrate() with it.
RegradeFails(p) ==
    /\ AtVersion(p, "body", {20})
    /\ Due(p) /\ Fits(20)
    /\ Die(p)

Quit(p) ==
    /\ p \in Rooted /\ op[p].pc = "open"
    /\ op' = [op EXCEPT ![p] = Closed]
    /\ UNCHANGED brain /\ UNCHANGED world

Configure ==
    /\ ~configured /\ configured' = TRUE
    /\ UNCHANGED brain /\ UNCHANGED <<flagged, exportable, op, level, crashes>>

UnblockExport ==
    /\ ~exportable /\ exportable' = TRUE
    /\ UNCHANGED brain /\ UNCHANGED <<flagged, configured, op, level, crashes>>

\* `ct evidence regrade`, the manual recovery.
ManualRegrade ==
    /\ flagged = "doomed" /\ exportable
    /\ 18 \in applied
    /\ flagged' = "exported"
    /\ UNCHANGED brain /\ UNCHANGED <<exportable, configured, op, level, crashes>>

\* A heal of a serving process spares flagged rows as long as V20 is pending.
Heal ==
    /\ \E p \in Openers : op[p].pc = "open"
    /\ flagged = "doomed" /\ AtLeast(20)
    /\ flagged' = "healed"
    /\ UNCHANGED brain /\ UNCHANGED <<exportable, configured, op, level, crashes>>

Init ==
    /\ level \in Levels
    /\ stamps = {v \in Versions : v <= level}
    /\ applied = {v \in Steps : Gate(v) <= level}
    /\ torn = {}
    /\ flagged \in IF level \in 1..19 THEN {"none", "doomed"} ELSE {"none"}
    /\ exportable \in IF flagged = "doomed" THEN BOOLEAN ELSE {TRUE}
    /\ configured \in BOOLEAN
    /\ op = [p \in Openers |-> Closed]
    /\ crashes = 0

Next ==
    \/ \E p \in Openers : Start(p) \/ Step(p) \/ Die(p) \/ RegradeFails(p) \/ Quit(p)
    \/ Configure \/ UnblockExport \/ ManualRegrade \/ Heal

Spec == Init /\ [][Next]_vars

-----------------------------------------------------------------------------
(* Properties *)

Stages == {"closed", "read", "body", "alter", "stamp", "open", "killed", "error"}

Opens == [pc : Stages, at : 1..(Len(Ladder) + 1), ver : 0..28,
          rooted : BOOLEAN, gate : BOOLEAN, alone : BOOLEAN, settled : BOOLEAN]

\* The values the variables range over; only an open that has a version
\* before it is between a body and its stamp (db/connection.rs:220-960).
TypeOK ==
    /\ stamps \subseteq Versions
    /\ applied \subseteq Steps
    /\ torn \subseteq {4, 15}
    /\ flagged \in {"none", "doomed", "exported", "healed"}
    /\ exportable \in BOOLEAN /\ configured \in BOOLEAN
    /\ op \in [Openers -> Opens]
    /\ \A p \in Openers : op[p].pc = "stamp" => op[p].at <= Len(Ladder)
    /\ level \in 0..21
    /\ crashes \in 0..MaxCrashes

\* What is stamped has run, whichever opens overlapped or died.  V28 is the
\* exception: a late V15 takes its columns away again.
StampMeansApplied == (stamps \cap Steps) \ {28} \subseteq applied

\* What an open puts off stays due.  V22 rewrites paths and needs the root of
\* the vault, and no later version is stamped over it: MAX(version) would hide
\* it from every later open (db/connection.rs:702-720).  V20 waits for the export
\* of its doomed rows, V21 for V20, and nothing but V22, which does not look and
\* hides both, is stamped over V20 (db/connection.rs:576-583).
DeferredIsNotMasked ==
    AtLeast(22) \/ (AtLeast(20) /\ flagged = "doomed") => 22 \in applied

\* What an open may leave undone and serve all the same: V22, and V25 after it,
\* by a process that does not know the vault; V20, and V21 after it, if the
\* brain had doomed rows.
MayLack(p) == (IF op[p].rooted THEN {} ELSE {22, 25})
              \cup (IF flagged = "none" THEN {} ELSE {20, 21})

\* A process serves a brain with every table, column and repair of the ladder
\* but what its own open was let to leave undone, whichever opens overlapped or
\* died, if the brain is of version 15 or later; an older one can lose them to
\* overlapping opens (db/connection.rs:220-958).
OpenedIsUsable ==
    \A p \in Openers :
        op[p].pc = "open" /\ level >= 15 => Steps \ MayLack(p) \subseteq applied

\* What db/connection.rs:581-582 says of the column of V21, that it "lands on
\* the first open after recovery": an open that began when no row was doomed any
\* more serves with it.  It is not so, and no run claims it (README, divergences).
ReviewedByLands ==
    \A p \in Openers :
        op[p].pc = "open" /\ op[p].settled /\ level >= 15 => 21 \in applied

\* No history of opens leaves a brain of version 15 or later in a state that an
\* open, undisturbed, is refused by: "no boot loop" (db/connection.rs:574).
NoBootLoop ==
    level >= 15 => ~\E p \in Openers : op[p].pc = "error" /\ op[p].alone

\* An open that knows the vault leaves nothing of a brain of version 15 or later
\* undone, though earlier opens died or put V22 off, unless rows were doomed.
RootedOpenCompletes ==
    \A p \in Openers :
        op[p].pc = "open" /\ op[p].rooted /\ level >= 15 /\ flagged = "none" =>
            Steps \subseteq applied /\ Steps \ {Rekey} \subseteq stamps
=============================================================================
