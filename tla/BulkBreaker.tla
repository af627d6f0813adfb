---------------------------- MODULE BulkBreaker ----------------------------
(***************************************************************************)
(* The bulk-deletion circuit breaker (db/breaker.rs) and the three writers *)
(* it governs:                                                             *)
(*                                                                         *)
(*   heal     the scheduler and `ct heal` (db/heal.rs); soft-deletes       *)
(*            ungrounded rows, one transaction per row                     *)
(*   button   the "Heal Database" command (lib.rs); the same pass, but no  *)
(*            check for an empty selection and no --allow-bulk             *)
(*   regrade  `ct evidence regrade` and the V20 migration                  *)
(*            (db/evidence_regrade.rs); exports, then hard-deletes all its *)
(*            doomed rows in one transaction                               *)
(*                                                                         *)
(* The budget lives in the database, so that the desktop, `ct` and the     *)
(* headless process share it.  One action per transaction or autocommit    *)
(* read: passes of different processes interleave between them, and a pass *)
(* can die between any two.                                                *)
(*                                                                         *)
(* Abstracted: an entry is its state and whether what it cites is still    *)
(* indexed; the order in which a pass visits its rows is free; the edges a *)
(* deletion purges, its outbox row and the `healed` event are left out.    *)
(***************************************************************************)
EXTENDS Integers, FiniteSets

CONSTANTS
    Rows,           \* live llm_wiki_entries at first, by id
    HealRows,       \* librarian_inferred, with a source_ref
    EvidenceRows,   \* with a librarian_evidence row
    InitFlagged,    \* rows the V18/V19 backfill flagged unanchored
    Healers,        \* heal passes: scheduler, `ct heal` processes
    Buttons,        \* passes of the GUI command
    Regraders,      \* regrade passes
    None,           \* an absent meta key
    Percent,        \* 5 in the code
    Floor,          \* THRESHOLD_FLOOR, 10 in the code
    Rollover,       \* EPOCH_ROLLOVER_MS, in ticks
    Modes,          \* the circumstances an execution may have: see mode
    MaxPasses,      \* bound: passes started
    MaxChurn,       \* bound: documents (un)indexed
    MaxResets,      \* bound: operator resets
    MaxTime         \* bound: ticks

Writers == {"heal", "regrade"}
Passes  == Healers \cup Buttons \cup Regraders

ASSUME RowsAssumption ==
    /\ IsFiniteSet(Rows)
    /\ HealRows \subseteq Rows /\ EvidenceRows \subseteq Rows
    /\ InitFlagged \subseteq EvidenceRows

ASSUME PassesAssumption ==
    /\ Healers \cap Buttons = {} /\ Healers \cap Regraders = {}
    /\ Buttons \cap Regraders = {}

ASSUME BreakerAssumption ==
    /\ None \notin Nat
    /\ Percent \in Nat /\ Floor \in Nat /\ Rollover \in Nat
    /\ Modes \subseteq [races : SUBSET {"passes", "grounding"}, bulk : BOOLEAN,
                       rooted : BOOLEAN]
    /\ MaxPasses \in Nat /\ MaxChurn \in Nat /\ MaxResets \in Nat
    /\ MaxTime \in Nat

VARIABLES
    \* the database
    state,      \* live, soft-deleted or gone
    anchored,   \* rows whose source is still indexed
    flagged,    \* rows with unanchored = 1
    past20,     \* MAX(version) >= 20, all that the code asks of V20
    meta,       \* the breaker's keys in llm_wiki_meta
    exports,    \* ids with a file in repair-export-phase2/
    \* the passes
    pc, bulk, migrating, sel, l, threshold, doomed,
    took,       \* (history) rows the pass deleted
    masked,     \* (history) V22 was stamped while V20 was pending
    \* the world
    mode,       \* do passes overlap, do documents change meanwhile ("grounding"),
                \* do operators pass --allow-bulk, do opens know the vault?
    now, passes, churn, resets

db     == <<state, anchored, flagged, past20, masked, meta, exports>>
locals == <<bulk, migrating, sel, l, threshold, doomed, took>>
world  == <<mode, now, passes, churn, resets>>
vars   == <<db, pc, locals, world>>

Live(S) == {r \in S : state[r] = "live"}

\* A flagged row counts as grounded as long as MAX(version) < 20 says that the
\* export of V20 is pending.
Grounded(r) == r \in anchored \/ (r \in flagged /\ ~past20)

-----------------------------------------------------------------------------
(* db/breaker.rs *)

\* max(ceil(5% of n), 10)
ThresholdFor(n) ==
    LET share == (n * Percent + 99) \div 100
    IN  IF share > Floor THEN share ELSE Floor

\* Epoch bookkeeping: start one, or roll a healthy one over.
Booked(m, th) ==
    IF m.epoch = None THEN [m EXCEPT !.epoch = now]
    ELSE IF ~m.tripped /\ now - m.epoch >= Rollover /\ m.spent < th
      THEN [m EXCEPT !.epoch = now, !.spent = 0]
    ELSE m

\* Mutant: only the caller's own budget is looked at.
RefusesOwnBudgetOnly(m, n, own, th) ==
    \/ m.spent >= th
    \/ own > 0 /\ n >= own
    \/ n > th - m.spent

\* Mutant: the floor is trusted to protect small populations.
RefusesNoWipeRule(m, n, own, th) ==
    \/ m.tripped \/ m.spent >= th
    \/ n > th - m.spent

\* Mutant: each batch is held against the whole budget.
RefusesBatchOnly(m, n, own, th) ==
    \/ m.tripped \/ n > th
    \/ own > 0 /\ n >= own

\* Rule 1, tripped epoch; rule 2, the whole population; rule 3, the budget.
Refuses(m, n, own, th) ==
    \/ m.tripped \/ m.spent >= th
    \/ own > 0 /\ n >= own
    \/ n > th - m.spent

Snapshot(m, w, own) == IF own > 0 THEN [m EXCEPT !.baseline[w] = own] ELSE m

\* What breaker_check leaves in the meta table, and whether it allows.
Checked(m, w, n, own, th) ==
    LET b == Snapshot(Booked(m, th), w, own)
    IN  IF Refuses(b, n, own, th)
          THEN [allow |-> FALSE, meta |-> [b EXCEPT !.tripped = TRUE]]
          ELSE [allow |-> TRUE,  meta |-> b]

Spent(m, n) == [m EXCEPT !.spent = @ + n]

FreshMeta == [epoch |-> None, spent |-> 0, tripped |-> FALSE,
              baseline |-> [w \in Writers |-> 0]]

\* `ct heal --reset-breaker`: one transaction, no deletion pass.
Reset ==
    /\ resets < MaxResets /\ resets' = resets + 1
    /\ "passes" \in mode.races \/ \A q \in Passes : pc[q] = "idle"
    /\ meta' = FreshMeta
    /\ UNCHANGED <<state, anchored, flagged, past20, masked, exports, pc, locals, mode, now,
                   passes, churn>>

-----------------------------------------------------------------------------
(* Passes *)

Goto(p, next) == pc' = [pc EXCEPT ![p] = next]

Start(p, next) ==
    /\ pc[p] = "idle" /\ passes < MaxPasses
    /\ "passes" \in mode.races \/ \A q \in Passes : pc[q] = "idle"
    /\ passes' = passes + 1
    /\ Goto(p, next)
    /\ took' = [took EXCEPT ![p] = {}]
    /\ UNCHANGED <<db, sel, l, threshold, doomed, mode, now, churn, resets>>

StartHeal(p, allow) ==
    /\ allow => mode.bulk /\ p \in Healers
    /\ Start(p, "select")
    /\ bulk' = [bulk EXCEPT ![p] = allow]
    /\ UNCHANGED migrating

\* The button returns early when nothing is selected.
Select(p) ==
    /\ pc[p] = "select"
    /\ sel' = [sel EXCEPT ![p] = Live(HealRows)]
    /\ Goto(p, IF bulk[p] THEN "heal"
               ELSE IF p \in Buttons /\ Live(HealRows) = {} THEN "idle"
               ELSE "denominator")
    /\ UNCHANGED <<db, bulk, migrating, l, threshold, doomed, took, world>>

ReadDenominator(p) ==
    /\ pc[p] = "denominator"
    /\ l' = [l EXCEPT ![p] = Cardinality(Live(HealRows))]
    /\ Goto(p, "threshold")
    /\ UNCHANGED <<db, bulk, migrating, sel, threshold, doomed, took, world>>

\* heal_threshold counts the population again.
ReadThreshold(p) ==
    /\ pc[p] = "threshold"
    /\ threshold' = [threshold EXCEPT
                       ![p] = ThresholdFor(Cardinality(Live(HealRows)))]
    /\ Goto(p, "count")
    /\ UNCHANGED <<db, bulk, migrating, sel, l, doomed, took, world>>

\* One grounding query per selected row, taken together; rows another pass
\* deleted in the meantime still count.
CountDoomed(p) ==
    /\ pc[p] = "count"
    /\ doomed' = [doomed EXCEPT ![p] = {r \in sel[p] : ~Grounded(r)}]
    /\ Goto(p, "check")
    /\ UNCHANGED <<db, bulk, migrating, sel, l, threshold, took, world>>

CheckHeal(p) ==
    /\ pc[p] = "check"
    /\ LET c == Checked(meta, "heal", Cardinality(doomed[p]), l[p], threshold[p])
       IN  /\ meta' = c.meta
           /\ Goto(p, IF c.allow THEN "heal" ELSE "idle")
    /\ UNCHANGED <<state, anchored, flagged, past20, masked, exports, locals, world>>

\* Mutant: the loop trusts the grounding it counted before the check.
HealRowUnchecked(p) ==
    /\ pc[p] = "heal"
    /\ \E r \in sel[p] :
         /\ sel' = [sel EXCEPT ![p] = @ \ {r}]
         /\ IF r \notin doomed[p] \/ state[r] # "live"
            THEN UNCHANGED <<state, meta, took>>
            ELSE /\ state' = [state EXCEPT ![r] = "soft"]
                 /\ meta'  = Spent(meta, 1)
                 /\ took'  = [took EXCEPT ![p] = @ \cup {r}]
    /\ UNCHANGED <<anchored, flagged, past20, masked, exports, pc, bulk, migrating, l,
                   threshold, doomed, world>>

\* One row, one IMMEDIATE transaction: grounding again, conditional
\* soft-delete, spend.
HealRow(p) ==
    /\ pc[p] = "heal"
    /\ \E r \in sel[p] :
         /\ sel' = [sel EXCEPT ![p] = @ \ {r}]
         /\ IF Grounded(r) \/ state[r] # "live"
            THEN UNCHANGED <<state, meta, took>>
            ELSE /\ state' = [state EXCEPT ![r] = "soft"]
                 /\ meta'  = Spent(meta, 1)
                 /\ took'  = [took EXCEPT ![p] = @ \cup {r}]
    /\ UNCHANGED <<anchored, flagged, past20, masked, exports, pc, bulk, migrating, l,
                   threshold, doomed, world>>

FinishHeal(p) ==
    /\ pc[p] = "heal" /\ sel[p] = {}
    /\ Goto(p, "idle")
    /\ UNCHANGED <<db, locals, world>>

-----------------------------------------------------------------------------

\* The migration runs a regrade at every open that finds MAX(version) < 20.
StartRegrade(p, allow, open) ==
    /\ allow => mode.bulk /\ ~open
    /\ open => ~past20
    /\ Start(p, "classify")
    /\ bulk' = [bulk EXCEPT ![p] = allow]
    /\ migrating' = [migrating EXCEPT ![p] = open]

\* The classification of the flagged live rows: an anchored one loses its
\* flag, the others are doomed.
Doomed       == Live(flagged) \ anchored
StillFlagged == flagged \ (Live(flagged) \cap anchored)

Classify(p) ==
    /\ pc[p] = "classify"
    /\ doomed' = [doomed EXCEPT ![p] = Doomed]
    /\ flagged' = StillFlagged
    /\ Goto(p, IF Doomed = {} THEN "settled" ELSE "export")
    /\ UNCHANGED <<state, anchored, past20, masked, meta, exports, bulk, migrating, sel, l,
                   threshold, took, world>>

\* A regrade that skips its destructive phase; the ladder of an open goes on.
Skip(p) == Goto(p, IF migrating[p] THEN "ladder" ELSE "idle")

\* Mutant: the purge goes ahead without counting the files.
ExportUncounted(p) ==
    /\ pc[p] = "export"
    /\ \E S \in SUBSET doomed[p] : exports' = exports \cup S /\ Goto(p, "purge")
    /\ UNCHANGED <<state, anchored, flagged, past20, masked, meta, locals, world>>

\* Writing the export may fail half-way: the destructive phase is skipped, and
\* so it is for a brain that is not complete.
Export(p) ==
    /\ pc[p] = "export"
    /\ \/ exports' = exports \cup doomed[p] /\ Goto(p, "gate")
       \/ \E S \in SUBSET doomed[p] : exports' = exports \cup S /\ Skip(p)
    /\ UNCHANGED <<state, anchored, flagged, past20, masked, meta, locals, world>>

\* Every doomed id must have its file before the transaction opens.
Gate(p) ==
    /\ pc[p] = "gate"
    /\ IF doomed[p] \subseteq exports THEN Goto(p, "purge") ELSE Skip(p)
    /\ UNCHANGED <<db, locals, world>>

\* The check of regrade: skipped by --allow-bulk.
RegradeCheck(p) ==
    IF bulk[p] THEN [allow |-> TRUE, meta |-> meta]
    ELSE LET own == Cardinality(Live(EvidenceRows))
         IN  Checked(meta, "regrade", Cardinality(doomed[p]), own, ThresholdFor(own))

\* One IMMEDIATE transaction: check, recount, delete, spend.  The check and
\* the recount's cleared flags commit even when nothing is deleted.
Purge(p) ==
    /\ pc[p] = "purge"
    /\ LET c == RegradeCheck(p)
       IN  \/ /\ ~c.allow
              /\ meta' = c.meta
              /\ Goto(p, "cleanup")
              /\ UNCHANGED <<state, flagged, took>>
           \/ /\ c.allow /\ Doomed # doomed[p]
              /\ meta' = c.meta /\ flagged' = StillFlagged
              /\ Goto(p, "cleanup")
              /\ UNCHANGED <<state, took>>
           \/ /\ c.allow /\ Doomed = doomed[p]
              /\ meta' = Spent(c.meta, Cardinality(doomed[p]))
              /\ flagged' = StillFlagged \ doomed[p]
              /\ state' = [r \in Rows |->
                             IF r \in doomed[p] THEN "gone" ELSE state[r]]
              /\ took' = [took EXCEPT ![p] = doomed[p]]
              /\ Goto(p, "settled")
    /\ UNCHANGED <<anchored, past20, masked, exports, bulk, migrating, sel, l, threshold,
                   doomed, world>>

\* Mutant: a refused migration counts as settled.
CleanupStamps(p) ==
    /\ pc[p] = "cleanup"
    /\ exports' = exports \ doomed[p] /\ past20' = (past20 \/ migrating[p])
    /\ Skip(p)
    /\ UNCHANGED <<state, anchored, flagged, masked, meta, locals, world>>

\* remove_run_export_files, after the transaction.
Cleanup(p) ==
    /\ pc[p] = "cleanup"
    /\ exports' = exports \ doomed[p]
    /\ Skip(p)
    /\ UNCHANGED <<state, anchored, flagged, past20, masked, meta, locals, world>>

\* The migration stamps V20 only after a regrade that skipped nothing.
Stamp(p) ==
    /\ pc[p] = "settled"
    /\ past20' = (past20 \/ migrating[p])
    /\ Goto(p, "idle")
    /\ UNCHANGED <<state, anchored, flagged, masked, meta, exports, locals, world>>

\* An open whose regrade was skipped leaves V20 and V21 unstamped; V22 asks for
\* the root of the vault only.
ClimbOn(p) ==
    /\ pc[p] = "ladder"
    /\ Goto(p, "idle")
    /\ IF mode.rooted
       THEN past20' = TRUE /\ masked' = (masked \/ ~past20)
       ELSE UNCHANGED <<past20, masked>>
    /\ UNCHANGED <<state, anchored, flagged, meta, exports, locals, world>>

-----------------------------------------------------------------------------
(* The world *)

\* The process of a running pass dies.
Die(p) ==
    /\ pc[p] # "idle"
    /\ Goto(p, "idle")
    /\ UNCHANGED <<db, locals, world>>

\* A document is removed from, or comes back to, the index.
Reindex(r) ==
    /\ churn < MaxChurn /\ churn' = churn + 1
    /\ "grounding" \in mode.races \/ \A q \in Passes : pc[q] = "idle"
    /\ anchored' = IF r \in anchored THEN anchored \ {r} ELSE anchored \cup {r}
    /\ UNCHANGED <<state, flagged, past20, masked, meta, exports, pc, locals, mode, now,
                   passes, resets>>

Tick ==
    /\ now < MaxTime /\ now' = now + 1
    /\ UNCHANGED <<db, pc, locals, mode, passes, churn, resets>>

-----------------------------------------------------------------------------

Init ==
    /\ state = [r \in Rows |-> "live"]
    /\ anchored \in SUBSET Rows
    /\ flagged = InitFlagged /\ past20 = FALSE /\ masked = FALSE
    /\ meta = FreshMeta /\ exports = {}
    /\ pc = [p \in Passes |-> "idle"]
    /\ bulk = [p \in Passes |-> FALSE] /\ migrating = [p \in Passes |-> FALSE]
    /\ sel = [p \in Passes |-> {}] /\ doomed = [p \in Passes |-> {}]
    /\ took = [p \in Passes |-> {}]
    /\ l = [p \in Passes |-> 0] /\ threshold = [p \in Passes |-> 0]
    /\ mode \in Modes /\ now = 0 /\ passes = 0 /\ churn = 0 /\ resets = 0

HealStep(p) ==
    \/ \E allow \in BOOLEAN : StartHeal(p, allow)
    \/ Select(p) \/ ReadDenominator(p) \/ ReadThreshold(p) \/ CountDoomed(p)
    \/ CheckHeal(p) \/ HealRow(p) \/ FinishHeal(p)

RegradeStep(p) ==
    \/ \E allow \in BOOLEAN, open \in BOOLEAN : StartRegrade(p, allow, open)
    \/ Classify(p) \/ Export(p) \/ Gate(p) \/ Purge(p) \/ Cleanup(p) \/ Stamp(p)
    \/ ClimbOn(p)

Next ==
    \/ \E p \in Healers \cup Buttons : HealStep(p)
    \/ \E p \in Regraders : RegradeStep(p)
    \/ \E p \in Passes : Die(p)
    \/ Reset \/ Tick
    \/ \E r \in Rows : Reindex(r)

Spec == Init /\ [][Next]_vars

-----------------------------------------------------------------------------
(* Properties *)

Meta == [epoch : Nat \cup {None}, spent : Nat, tripped : BOOLEAN,
         baseline : [Writers -> Nat]]

HealSteps    == {"idle", "select", "denominator", "threshold", "count",
                 "check", "heal"}
RegradeSteps == {"idle", "classify", "export", "gate", "purge", "cleanup",
                 "settled", "ladder"}

TypeOK ==
    /\ state \in [Rows -> {"live", "soft", "gone"}]
    /\ anchored \subseteq Rows /\ flagged \subseteq InitFlagged
    /\ past20 \in BOOLEAN /\ masked \in BOOLEAN /\ exports \subseteq InitFlagged
    /\ meta \in Meta
    /\ pc \in [Passes -> HealSteps \cup RegradeSteps]
    /\ \A p \in Healers \cup Buttons : pc[p] \in HealSteps
    /\ \A p \in Regraders : pc[p] \in RegradeSteps
    /\ bulk \in [Passes -> BOOLEAN] /\ migrating \in [Passes -> BOOLEAN]
    /\ sel \in [Passes -> SUBSET HealRows] /\ doomed \in [Passes -> SUBSET Rows]
    /\ \A p \in Regraders : doomed[p] \subseteq InitFlagged
    /\ took \in [Passes -> SUBSET Rows]
    /\ l \in [Passes -> Nat] /\ threshold \in [Passes -> Nat]
    /\ mode \in Modes
    /\ now \in Nat /\ passes \in Nat /\ churn \in Nat /\ resets \in Nat

\* A tripped epoch never rolls over: until an operator resets it (which
\* removes the epoch), the marker, the epoch and what was spent stay, whoever
\* checks, with whatever threshold, however much later.
TrippedNeverRolls ==
    [][meta.tripped /\ meta'.epoch # None
         => /\ meta'.tripped /\ meta'.epoch = meta.epoch
            /\ meta'.spent >= meta.spent]_vars

\* The trip is shared: once any writer was refused, no writer of any process
\* passes a check any more; only a pass that was allowed before the trip, or
\* one that skips the check, still deletes.
TripStopsEveryWriter ==
    [][meta.tripped =>
         \A p \in Passes :
            /\ ~(pc[p] = "check" /\ pc'[p] = "heal")
            /\ ~(pc[p] = "purge" /\ pc'[p] = "settled" /\ ~bulk[p])]_vars

\* A trip is final and shared: it lasts until an operator resets it, and until
\* then it stops every writer.
TripHolds == TrippedNeverRolls /\ TripStopsEveryWriter

Serial == mode.races = {}

\* As long as passes follow one another and nobody uses --allow-bulk, the
\* writers together never delete more in one epoch than the budget of the
\* largest population there is.  (Overlapping passes do: the check of a heal
\* commits before its loop, and reserves nothing.)
WithinBudget ==
    Serial /\ ~mode.bulk => meta.spent <= ThresholdFor(Cardinality(Rows))

\* A checked pass never removes the whole population it selected from.
NoWipe ==
    Serial => \A p \in Passes \ Regraders :
        ~bulk[p] /\ l[p] > 0 => Cardinality(took[p]) < l[p]

\* Two passes over the same rows never count a row twice: the counter never
\* exceeds the rows that are really deleted.
SpentIsDeleted == meta.spent <= Cardinality(Rows) - Cardinality(Live(Rows))

\* What a pass deletes is stale at the moment it is deleted, whatever the pass
\* read before.
OnlyStaleDeleted ==
    [][\A r \in Rows : state[r] = "live" /\ state'[r] # "live"
                         => r \notin anchored]_vars

\* Overlapping passes are booked as they delete: no row is counted twice, and
\* no row is deleted on what a pass read too early.
DeletesAreSound == []SpentIsDeleted /\ OnlyStaleDeleted

\* A hard-deleted row has its backup, and keeps it.
PurgedIsBackedUp == \A r \in Rows : state[r] = "gone" => r \in exports

\* A row the backfill flagged is re-anchored or exported and purged; no heal
\* soft-deletes it, which would hide it from the export, unless V22 was stamped
\* over the pending V20.
FlaggedReachesExport == masked \/ \A r \in flagged : state[r] = "live"

\* What db/connection.rs:521-525 says, "leaving the stamp unwritten keeps
\* MAX(version) < 20 a durable recovery pending marker that heal defers to".
\* It is not so, V22's stamp being written by the same open, and no run claims
\* it (README, divergences).
RecoveryStaysPending == \A r \in flagged : state[r] = "live"
=============================================================================
