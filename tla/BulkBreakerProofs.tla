------------------------ MODULE BulkBreakerProofs ------------------------
(***************************************************************************)
(* What holds of the breaker for every population, every set of writers    *)
(* and every threshold, with --allow-bulk, resets, process deaths and all  *)
(* overlaps of passes allowed; and what holds of passes that follow one    *)
(* another, in which a check still counts what its pass will delete.       *)
(***************************************************************************)
EXTENDS BulkBreaker, FiniteSetTheorems, TLAPS

-----------------------------------------------------------------------------
(* Lemmas about the breaker's operators *)

\* A threshold is a natural number.
LEMMA ThresholdType == ASSUME NEW n \in Nat PROVE ThresholdFor(n) \in Nat
<1>1. n * Percent \in Nat
  BY BreakerAssumption
<1>2. (n * Percent + 99) \div 100 \in Nat
  BY <1>1
<1> QED
  BY <1>2, BreakerAssumption DEF ThresholdFor

\* Counting the live rows of a population gives a natural number.
LEMMA LiveCount ==
  ASSUME NEW S \in SUBSET Rows
  PROVE  IsFiniteSet(Live(S)) /\ Cardinality(Live(S)) \in Nat
<1>1. Live(S) \subseteq Rows
  BY DEF Live
<1> QED
  BY <1>1, RowsAssumption, FS_Subset, FS_CardinalityType

\* The epoch bookkeeping writes well-formed keys.
LEMMA BookedType ==
  ASSUME NEW m \in Meta, now \in Nat, NEW th \in Nat
  PROVE  Booked(m, th) \in Meta
<1>1. [m EXCEPT !.epoch = now] \in Meta
  BY DEF Meta
<1>2. [m EXCEPT !.epoch = now, !.spent = 0] \in Meta
  BY DEF Meta
<1> QED
  BY <1>1, <1>2 DEF Booked

\* A check writes well-formed keys.
LEMMA CheckedType ==
  ASSUME NEW m \in Meta, now \in Nat,
         NEW w \in Writers, NEW n \in Nat, NEW own \in Nat, NEW th \in Nat
  PROVE  /\ Checked(m, w, n, own, th).meta \in Meta
         /\ Checked(m, w, n, own, th).allow \in BOOLEAN
<1> DEFINE b == Snapshot(Booked(m, th), w, own)
<1>2. b \in Meta
  BY BookedType DEF Snapshot, Meta
<1>3. [b EXCEPT !.tripped = TRUE] \in Meta
  BY <1>2 DEF Meta
<1> QED
  BY <1>2, <1>3 DEF Checked

\* A check never raises the counter.
LEMMA CheckedSpends ==
  ASSUME NEW m \in Meta, now \in Nat,
         NEW w \in Writers, NEW n \in Nat, NEW own \in Nat, NEW th \in Nat
  PROVE  Checked(m, w, n, own, th).meta.spent <= m.spent
<1>1. Booked(m, th).spent <= m.spent
  BY DEF Booked, Meta
<1>2. Booked(m, th) \in Meta
  BY BookedType
<1> DEFINE b == Snapshot(Booked(m, th), w, own)
<1>3. b \in Meta /\ b.spent = Booked(m, th).spent
  BY <1>2 DEF Snapshot, Meta
<1>4. [b EXCEPT !.tripped = TRUE].spent = b.spent
  BY <1>3 DEF Meta
<1> QED
  BY <1>1, <1>3, <1>4 DEF Checked

\* A check of a tripped epoch refuses, and changes no more than a baseline.
LEMMA CheckedTripped ==
  ASSUME NEW m \in Meta, m.tripped, m.epoch # None,
         NEW w \in Writers, NEW n \in Nat, NEW own \in Nat, NEW th \in Nat
  PROVE  /\ ~Checked(m, w, n, own, th).allow
         /\ Checked(m, w, n, own, th).meta.tripped
         /\ Checked(m, w, n, own, th).meta.epoch = m.epoch
         /\ Checked(m, w, n, own, th).meta.spent = m.spent
<1>1. Booked(m, th) = m
  BY DEF Booked, Meta
<1> DEFINE b == Snapshot(m, w, own)
<1>2. b \in Meta /\ b.tripped /\ b.epoch = m.epoch /\ b.spent = m.spent
  BY DEF Snapshot, Meta
<1>3. Refuses(b, n, own, th)
  BY <1>2 DEF Refuses
<1>4. Checked(m, w, n, own, th) = [allow |-> FALSE, meta |-> [b EXCEPT !.tripped = TRUE]]
  BY <1>1, <1>3 DEF Checked
<1>5. [b EXCEPT !.tripped = TRUE].tripped
      /\ [b EXCEPT !.tripped = TRUE].epoch = b.epoch
      /\ [b EXCEPT !.tripped = TRUE].spent = b.spent
  BY <1>2 DEF Meta
<1>6. ~Checked(m, w, n, own, th).allow
  BY <1>4
<1>7. Checked(m, w, n, own, th).meta = [b EXCEPT !.tripped = TRUE]
  BY <1>4
<1> HIDE DEF b
<1> QED
  BY <1>2, <1>5, <1>6, <1>7

\* A check never leaves a tripped epoch without its start.
LEMMA CheckedHasEpoch ==
  ASSUME NEW m \in Meta, now \in Nat,
         NEW w \in Writers, NEW n \in Nat, NEW own \in Nat, NEW th \in Nat
  PROVE  Checked(m, w, n, own, th).meta.epoch # None
<1>1. Booked(m, th) \in Meta
  BY BookedType
<1>4. Booked(m, th).epoch # None
  BY BreakerAssumption DEF Booked, Meta
<1> DEFINE b == Snapshot(Booked(m, th), w, own)
<1>2. b \in Meta /\ b.epoch # None
  BY <1>1, <1>4 DEF Snapshot, Meta
<1>3. [b EXCEPT !.tripped = TRUE].epoch # None
  BY <1>2 DEF Meta
<1> QED
  BY <1>2, <1>3 DEF Checked

\* So does the check of regrade, taken or skipped.
LEMMA RegradeCheckType ==
  ASSUME meta \in Meta, now \in Nat, NEW p, Cardinality(doomed[p]) \in Nat,
         bulk[p] \in BOOLEAN
  PROVE  RegradeCheck(p).meta \in Meta /\ RegradeCheck(p).allow \in BOOLEAN
<1> DEFINE own == Cardinality(Live(EvidenceRows))
<1>1. own \in Nat /\ ThresholdFor(own) \in Nat
  BY LiveCount, ThresholdType, RowsAssumption
<1>2. "regrade" \in Writers
  BY DEF Writers
<1> DEFINE c == Checked(meta, "regrade", Cardinality(doomed[p]), own, ThresholdFor(own))
<1> HIDE DEF own
<1>3. c.meta \in Meta /\ c.allow \in BOOLEAN
  BY <1>1, <1>2, CheckedType
<1> USE DEF own
<1> QED
  BY <1>3 DEF RegradeCheck

\* ... never raises the counter ...
LEMMA RegradeCheckSpends ==
  ASSUME meta \in Meta, now \in Nat, NEW p, Cardinality(doomed[p]) \in Nat
  PROVE  RegradeCheck(p).meta.spent <= meta.spent
<1> DEFINE own == Cardinality(Live(EvidenceRows))
           c   == Checked(meta, "regrade", Cardinality(doomed[p]), own, ThresholdFor(own))
<1>1. own \in Nat /\ ThresholdFor(own) \in Nat /\ "regrade" \in Writers
  BY LiveCount, ThresholdType, RowsAssumption DEF Writers
<1> HIDE DEF own
<1>2. c.meta.spent <= meta.spent
  BY <1>1, CheckedSpends
<1>3. meta.spent \in Nat
  BY DEF Meta
<1>4. RegradeCheck(p) = IF bulk[p] THEN [allow |-> TRUE, meta |-> meta] ELSE c
  BY DEF RegradeCheck, own
<1> HIDE DEF c
<1> QED
  BY <1>2, <1>3, <1>4

\* ... which keeps a tripped epoch as it is, too.
LEMMA RegradeCheckTripped ==
  ASSUME meta \in Meta, now \in Nat, NEW p, Cardinality(doomed[p]) \in Nat,
         meta.tripped => meta.epoch # None
  PROVE  /\ RegradeCheck(p).meta.tripped => RegradeCheck(p).meta.epoch # None
         /\ meta.tripped =>
              /\ RegradeCheck(p).meta.tripped
              /\ RegradeCheck(p).meta.epoch = meta.epoch
              /\ RegradeCheck(p).meta.spent = meta.spent
              /\ ~bulk[p] => ~RegradeCheck(p).allow
<1> DEFINE own == Cardinality(Live(EvidenceRows))
           c   == Checked(meta, "regrade", Cardinality(doomed[p]), own, ThresholdFor(own))
<1>1. own \in Nat /\ ThresholdFor(own) \in Nat /\ "regrade" \in Writers
  BY LiveCount, ThresholdType, RowsAssumption DEF Writers
<1> HIDE DEF own
<1>2. c.meta.epoch # None
  BY <1>1, CheckedHasEpoch
<1>3. meta.tripped => /\ ~c.allow /\ c.meta.tripped
                      /\ c.meta.epoch = meta.epoch /\ c.meta.spent = meta.spent
  BY <1>1, CheckedTripped
<1>4. RegradeCheck(p) = IF bulk[p] THEN [allow |-> TRUE, meta |-> meta] ELSE c
  BY DEF RegradeCheck, own
<1> HIDE DEF c
<1>5. CASE bulk[p]
  BY <1>4, <1>5
<1>6. CASE ~bulk[p]
  BY <1>2, <1>3, <1>4, <1>6
<1> QED
  BY <1>5, <1>6

-----------------------------------------------------------------------------
(* Type correctness *)

\* Every operation keeps the state well-formed.
THEOREM TypeCorrect == Spec => []TypeOK
<1>1. ASSUME Init PROVE TypeOK
  <2>1. FreshMeta \in Meta
    BY DEF FreshMeta, Meta
  <2> QED
    BY <1>1, <2>1, RowsAssumption, PassesAssumption
    DEF Init, TypeOK, HealSteps, RegradeSteps, Passes
<1>2. TypeOK /\ [Next]_vars => TypeOK'
  <2> SUFFICES ASSUME TypeOK, [Next]_vars PROVE TypeOK'
    OBVIOUS
  <2> USE DEF TypeOK, HealSteps, RegradeSteps, Passes
  <2>1. ASSUME NEW p \in Healers \cup Buttons, HealStep(p) PROVE TypeOK'
    <3>1. ASSUME NEW allow \in BOOLEAN, StartHeal(p, allow) PROVE TypeOK'
      <4>1. pc' = [pc EXCEPT ![p] = "select"] /\ took' = [took EXCEPT ![p] = {}]
            /\ bulk' = [bulk EXCEPT ![p] = allow] /\ passes' = passes + 1
            /\ UNCHANGED <<db, migrating, sel, l, threshold, doomed, mode, now, churn, resets>>
        BY <3>1 DEF StartHeal, Start, Goto
      <4>2. /\ pc' \in [Passes -> HealSteps \cup RegradeSteps]
            /\ \A q \in Healers \cup Buttons : pc'[q] \in HealSteps
            /\ \A q \in Regraders : pc'[q] \in RegradeSteps
        BY <4>1, <2>1, PassesAssumption
      <4>3. took' \in [Passes -> SUBSET Rows] /\ bulk' \in [Passes -> BOOLEAN]
        BY <4>1
      <4> QED
        BY <4>1, <4>2, <4>3 DEF db
    <3>2. CASE Select(p)
      BY <3>2, RowsAssumption DEF Select, Goto, db, world, Live
    <3>3. CASE ReadDenominator(p)
      BY <3>3, LiveCount, RowsAssumption DEF ReadDenominator, Goto, db, world
    <3>4. CASE ReadThreshold(p)
      BY <3>4, LiveCount, ThresholdType, RowsAssumption
      DEF ReadThreshold, Goto, db, world
    <3>5. CASE CountDoomed(p)
      BY <3>5, <2>1, PassesAssumption, RowsAssumption DEF CountDoomed, Goto, db, world
    <3>6. CASE CheckHeal(p)
      <4>1. Cardinality(doomed[p]) \in Nat
        BY RowsAssumption, FS_Subset, FS_CardinalityType
      <4>2. "heal" \in Writers
        BY DEF Writers
      <4>3. meta' \in Meta
        BY <3>6, <4>1, <4>2, CheckedType DEF CheckHeal
      <4> QED
        BY <3>6, <4>3 DEF CheckHeal, Goto, locals, world
    <3>7. CASE HealRow(p)
      <4>1. Spent(meta, 1) \in Meta
        BY DEF Spent, Meta
      <4> QED
        BY <3>7, <4>1, RowsAssumption DEF HealRow, world
    <3>8. CASE FinishHeal(p)
      BY <3>8 DEF FinishHeal, Goto, db, locals, world
    <3> QED
      BY <2>1, <3>1, <3>2, <3>3, <3>4, <3>5, <3>6, <3>7, <3>8 DEF HealStep
  <2>2. ASSUME NEW p \in Regraders, RegradeStep(p) PROVE TypeOK'
    <3>1. ASSUME NEW allow \in BOOLEAN, NEW open \in BOOLEAN,
                 StartRegrade(p, allow, open)
          PROVE  TypeOK'
      <4>1. pc' = [pc EXCEPT ![p] = "classify"] /\ took' = [took EXCEPT ![p] = {}]
            /\ bulk' = [bulk EXCEPT ![p] = allow]
            /\ migrating' = [migrating EXCEPT ![p] = open] /\ passes' = passes + 1
            /\ UNCHANGED <<db, sel, l, threshold, doomed, mode, now, churn, resets>>
        BY <3>1 DEF StartRegrade, Start, Goto
      <4>2. /\ pc' \in [Passes -> HealSteps \cup RegradeSteps]
            /\ \A q \in Healers \cup Buttons : pc'[q] \in HealSteps
            /\ \A q \in Regraders : pc'[q] \in RegradeSteps
        BY <4>1, <2>2, PassesAssumption
      <4>3. /\ took' \in [Passes -> SUBSET Rows] /\ bulk' \in [Passes -> BOOLEAN]
            /\ migrating' \in [Passes -> BOOLEAN]
        BY <4>1
      <4> QED
        BY <4>1, <4>2, <4>3 DEF db
    <3>2. CASE Classify(p)
      <4>1. Doomed \subseteq InitFlagged /\ StillFlagged \subseteq InitFlagged
        BY RowsAssumption DEF Doomed, StillFlagged, Live
      <4> QED
        BY <3>2, <4>1, RowsAssumption DEF Classify, Goto, world
    <3>3. CASE Export(p)
      BY <3>3 DEF Export, Skip, Goto, locals, world
    <3>4. CASE Gate(p)
      BY <3>4 DEF Gate, Skip, Goto, db, locals, world
    <3>5. CASE Purge(p)
      <4>1. Cardinality(doomed[p]) \in Nat
        BY RowsAssumption, FS_Subset, FS_CardinalityType
      <4>2. RegradeCheck(p).meta \in Meta
        BY <4>1, RegradeCheckType
      <4>3. Spent(RegradeCheck(p).meta, Cardinality(doomed[p])) \in Meta
        BY <4>1, <4>2 DEF Spent, Meta
      <4>4. StillFlagged \subseteq InitFlagged
        BY DEF StillFlagged
      <4> QED
        BY <3>5, <4>2, <4>3, <4>4 DEF Purge, Goto, world
    <3>6. CASE Cleanup(p)
      BY <3>6 DEF Cleanup, Skip, Goto, locals, world
    <3>7. CASE Stamp(p)
      BY <3>7 DEF Stamp, Goto, locals, world
    <3>8. CASE ClimbOn(p)
      BY <3>8 DEF ClimbOn, Goto, locals, world
    <3> QED
      BY <2>2, <3>1, <3>2, <3>3, <3>4, <3>5, <3>6, <3>7, <3>8 DEF RegradeStep
  <2>3. ASSUME NEW p \in Passes, Die(p) PROVE TypeOK'
    BY <2>3 DEF Die, Goto, db, locals, world
  <2>4. CASE Reset
    <3>1. FreshMeta \in Meta
      BY DEF FreshMeta, Meta
    <3> QED
      BY <2>4, <3>1 DEF Reset, locals
  <2>5. CASE Tick
    BY <2>5 DEF Tick, db, locals
  <2>6. ASSUME NEW r \in Rows, Reindex(r) PROVE TypeOK'
    BY <2>6 DEF Reindex, locals
  <2>7. CASE UNCHANGED vars
    BY <2>7 DEF vars, db, locals, world
  <2> QED
    BY <2>1, <2>2, <2>3, <2>4, <2>5, <2>6, <2>7 DEF Next
<1> QED
  BY <1>1, <1>2, PTL DEF Spec

-----------------------------------------------------------------------------
(* A trip is final and shared *)

\* A tripped epoch has a start: without it, the next check would stamp a new
\* one.
TrippedHasEpoch == meta.tripped => meta.epoch # None

\* Which steps write the breaker's keys.
LEMMA WhoWritesMeta ==
  ASSUME TypeOK, [Next]_vars, meta' # meta
  PROVE  \/ Reset
         \/ \E p \in Healers \cup Buttons : CheckHeal(p) \/ HealRow(p)
         \/ \E p \in Regraders : Purge(p)
<1>1. ASSUME NEW p \in Healers \cup Buttons, HealStep(p)
      PROVE  CheckHeal(p) \/ HealRow(p)
  BY <1>1 DEF HealStep, StartHeal, Start, Select, ReadDenominator, ReadThreshold,
              CountDoomed, FinishHeal, db
<1>2. ASSUME NEW p \in Regraders, RegradeStep(p) PROVE Purge(p)
  BY <1>2 DEF RegradeStep, StartRegrade, Start, Classify, Export, Gate, Cleanup,
              Stamp, ClimbOn, Skip, db
<1>3. /\ \A p \in Passes : ~Die(p)
      /\ ~Tick /\ ~UNCHANGED vars
      /\ \A r \in Rows : ~Reindex(r)
  BY DEF Die, Tick, Reindex, vars, db
<1> QED
  BY <1>1, <1>2, <1>3 DEF Next

\* What one of those steps does to the keys.
LEMMA StepOfMeta ==
  ASSUME TypeOK, [Next]_vars, TrippedHasEpoch
  PROVE  /\ TrippedHasEpoch'
         /\ meta.tripped /\ meta'.epoch # None
              => /\ meta'.tripped /\ meta'.epoch = meta.epoch
                 /\ meta'.spent >= meta.spent
<1> DEFINE Good == /\ TrippedHasEpoch'
                   /\ meta.tripped /\ meta'.epoch # None
                        => /\ meta'.tripped /\ meta'.epoch = meta.epoch
                           /\ meta'.spent >= meta.spent
<1> USE DEF TrippedHasEpoch
<1>0. meta \in Meta /\ now \in Nat
  BY DEF TypeOK
<1>1. CASE meta' = meta
  BY <1>0, <1>1 DEF Meta
<1>2. CASE Reset
  BY <1>2 DEF Reset, FreshMeta
<1>3. ASSUME NEW p \in Healers \cup Buttons, CheckHeal(p) PROVE Good
  <2>1. /\ Cardinality(doomed[p]) \in Nat /\ l[p] \in Nat /\ threshold[p] \in Nat
        /\ "heal" \in Writers
    BY RowsAssumption, FS_Subset, FS_CardinalityType DEF TypeOK, Passes, Writers
  <2>2. meta' = Checked(meta, "heal", Cardinality(doomed[p]), l[p], threshold[p]).meta
    BY <1>3 DEF CheckHeal
  <2>3. meta' \in Meta /\ meta'.epoch # None
    BY <1>0, <2>1, <2>2, CheckedType, CheckedHasEpoch
  <2>4. meta.tripped => meta'.tripped /\ meta'.epoch = meta.epoch
                                      /\ meta'.spent = meta.spent
    BY <1>0, <2>1, <2>2, CheckedTripped
  <2> QED
    BY <1>0, <2>3, <2>4 DEF Meta
<1>4. ASSUME NEW p \in Healers \cup Buttons, HealRow(p) PROVE Good
  <2>1. meta' = meta \/ meta' = Spent(meta, 1)
    BY <1>4 DEF HealRow
  <2> QED
    BY <1>0, <2>1 DEF Spent, Meta
<1>5. ASSUME NEW p \in Regraders, Purge(p) PROVE Good
  <2> DEFINE n == Cardinality(doomed[p])
             c == RegradeCheck(p)
  <2>1. n \in Nat /\ bulk[p] \in BOOLEAN
    BY RowsAssumption, FS_Subset, FS_CardinalityType DEF TypeOK, Passes
  <2>2. c.meta \in Meta
    BY <1>0, <2>1, RegradeCheckType
  <2>3. meta' = c.meta \/ meta' = Spent(c.meta, n)
    BY <1>5 DEF Purge
  <2>4. /\ c.meta.tripped => c.meta.epoch # None
        /\ meta.tripped => /\ c.meta.tripped /\ c.meta.epoch = meta.epoch
                           /\ c.meta.spent = meta.spent
    BY <1>0, <2>1, RegradeCheckTripped
  <2> HIDE DEF n, c
  <2> QED
    BY <1>0, <2>1, <2>2, <2>3, <2>4 DEF Spent, Meta
<1> QED
  BY <1>1, <1>2, <1>3, <1>4, <1>5, WhoWritesMeta

\* Whatever the writers' thresholds, a tripped epoch stays as it is until an
\* operator resets it.
THEOREM TripIsFinal == Spec => TrippedNeverRolls
<1>1. Init => TrippedHasEpoch
  BY DEF Init, TrippedHasEpoch, FreshMeta
<1>2. TypeOK /\ TrippedHasEpoch /\ [Next]_vars => TrippedHasEpoch'
  BY StepOfMeta
<1>3. TypeOK /\ TrippedHasEpoch /\ [Next]_vars
        => [meta.tripped /\ meta'.epoch # None
              => /\ meta'.tripped /\ meta'.epoch = meta.epoch
                 /\ meta'.spent >= meta.spent]_vars
  BY StepOfMeta
<1> QED
  BY <1>1, <1>2, <1>3, TypeCorrect, PTL DEF Spec, TrippedNeverRolls

\* A pass moves only by a step of its own.
LEMMA WhoMoves ==
  ASSUME TypeOK, [Next]_vars, NEW p \in Passes, pc'[p] # pc[p]
  PROVE  \/ p \in Healers \cup Buttons /\ HealStep(p)
         \/ p \in Regraders /\ RegradeStep(p)
         \/ Die(p)
<1> DEFINE Own(q) == pc' = pc \/ \E x : pc' = [pc EXCEPT ![q] = x]
<1>0. pc \in [Passes -> HealSteps \cup RegradeSteps]
  BY DEF TypeOK
<1>1. ASSUME NEW q \in Passes, Own(q) PROVE q = p
  BY <1>0, <1>1
<1>2. ASSUME NEW q \in Healers \cup Buttons, HealStep(q) PROVE Own(q)
  BY <1>2 DEF HealStep, StartHeal, Start, Select, ReadDenominator, ReadThreshold,
              CountDoomed, CheckHeal, HealRow, FinishHeal, Goto
<1>3. ASSUME NEW q \in Regraders, RegradeStep(q) PROVE Own(q)
  BY <1>3 DEF RegradeStep, StartRegrade, Start, Classify, Export, Gate, Purge,
              Cleanup, Stamp, ClimbOn, Skip, Goto
<1>4. ASSUME NEW q \in Passes, Die(q) PROVE Own(q)
  BY <1>4 DEF Die, Goto
<1>5. /\ ~Reset /\ ~Tick /\ ~UNCHANGED vars
      /\ \A r \in Rows : ~Reindex(r)
  BY DEF Reset, Tick, Reindex, vars
<1>6. Healers \cup Buttons \subseteq Passes /\ Regraders \subseteq Passes
  BY DEF Passes
<1> HIDE DEF Own
<1> QED
  BY <1>1, <1>2, <1>3, <1>4, <1>5, <1>6 DEF Next

\* Once any writer was refused, no check allows anything any more.
THEOREM TripIsShared == Spec => TripStopsEveryWriter
<1> DEFINE Stops == meta.tripped =>
                      \A p \in Passes :
                        /\ ~(pc[p] = "check" /\ pc'[p] = "heal")
                        /\ ~(pc[p] = "purge" /\ pc'[p] = "settled" /\ ~bulk[p])
<1>1. Init => TrippedHasEpoch
  BY DEF Init, TrippedHasEpoch, FreshMeta
<1>2. TypeOK /\ TrippedHasEpoch /\ [Next]_vars => TrippedHasEpoch'
  BY StepOfMeta
<1>3. TypeOK /\ TrippedHasEpoch /\ [Next]_vars => [Stops]_vars
  <2> SUFFICES ASSUME TypeOK, TrippedHasEpoch, [Next]_vars,
                      meta.tripped, NEW p \in Passes
               PROVE  /\ ~(pc[p] = "check" /\ pc'[p] = "heal")
                      /\ ~(pc[p] = "purge" /\ pc'[p] = "settled" /\ ~bulk[p])
    OBVIOUS
  <2>0. meta \in Meta /\ now \in Nat /\ Cardinality(doomed[p]) \in Nat
    BY RowsAssumption, FS_Subset, FS_CardinalityType DEF TypeOK
  <2>1. ASSUME pc[p] = "check", pc'[p] = "heal" PROVE FALSE
    <3>1. CheckHeal(p)
      BY <2>1, WhoMoves
      DEF HealStep, StartHeal, Start, Select, ReadDenominator, ReadThreshold,
          CountDoomed, HealRow, FinishHeal, RegradeStep, StartRegrade, Classify,
          Export, Gate, Purge, Cleanup, Stamp, ClimbOn, Skip, Die, Goto, TypeOK
    <3>2. l[p] \in Nat /\ threshold[p] \in Nat /\ "heal" \in Writers
      BY DEF TypeOK, Writers
    <3>3. ~Checked(meta, "heal", Cardinality(doomed[p]), l[p], threshold[p]).allow
      BY <2>0, <3>2, CheckedTripped DEF TrippedHasEpoch
    <3> QED
      BY <2>1, <3>1, <3>3 DEF CheckHeal, Goto, TypeOK
  <2>2. ASSUME pc[p] = "purge", pc'[p] = "settled", ~bulk[p] PROVE FALSE
    <3>1. Purge(p)
      BY <2>2, WhoMoves
      DEF HealStep, StartHeal, Start, Select, ReadDenominator, ReadThreshold,
          CountDoomed, CheckHeal, HealRow, FinishHeal, RegradeStep, StartRegrade,
          Classify, Export, Gate, Cleanup, Stamp, ClimbOn, Skip, Die, Goto, TypeOK
    <3>2. ~RegradeCheck(p).allow
      BY <2>0, <2>2, RegradeCheckTripped DEF TrippedHasEpoch
    <3> QED
      BY <2>2, <3>1, <3>2 DEF Purge, Goto, TypeOK
  <2> QED
    BY <2>1, <2>2
<1> QED
  BY <1>1, <1>2, <1>3, TypeCorrect, PTL DEF Spec, TripStopsEveryWriter

-----------------------------------------------------------------------------
(* What is deleted *)

\* Rows change state only by a heal of one row or by a purge.
LEMMA WhoDeletes ==
  ASSUME [Next]_vars, state' # state
  PROVE  \/ \E p \in Healers \cup Buttons : HealRow(p)
         \/ \E p \in Regraders : Purge(p)
<1>1. ASSUME NEW p \in Healers \cup Buttons, HealStep(p) PROVE HealRow(p)
  BY <1>1 DEF HealStep, StartHeal, Start, Select, ReadDenominator, ReadThreshold,
              CountDoomed, CheckHeal, FinishHeal, db
<1>2. ASSUME NEW p \in Regraders, RegradeStep(p) PROVE Purge(p)
  BY <1>2 DEF RegradeStep, StartRegrade, Start, Classify, Export, Gate, Cleanup,
              Stamp, ClimbOn, Skip, db
<1>3. /\ \A p \in Passes : ~Die(p)
      /\ ~Reset /\ ~Tick /\ ~UNCHANGED vars
      /\ \A r \in Rows : ~Reindex(r)
  BY DEF Die, Reset, Tick, Reindex, vars, db
<1> QED
  BY <1>1, <1>2, <1>3 DEF Next

\* However stale what a pass read is, it deletes only rows whose source has
\* left the index.
THEOREM DeletesOnlyStale == Spec => OnlyStaleDeleted
<1> DEFINE Stale == \A r \in Rows : state[r] = "live" /\ state'[r] # "live"
                                      => r \notin anchored
<1>1. TypeOK /\ [Next]_vars => [Stale]_vars
  <2> SUFFICES ASSUME TypeOK, [Next]_vars, state' # state,
                      NEW r \in Rows, state[r] = "live", state'[r] # "live"
               PROVE  r \notin anchored
    OBVIOUS
  <2>1. ASSUME NEW p \in Healers \cup Buttons, HealRow(p) PROVE r \notin anchored
    BY <2>1 DEF HealRow, Grounded, TypeOK
  <2>2. ASSUME NEW p \in Regraders, Purge(p) PROVE r \notin anchored
    BY <2>2 DEF Purge, Doomed, TypeOK
  <2> QED
    BY <2>1, <2>2, WhoDeletes
<1> QED
  BY <1>1, TypeCorrect, PTL DEF Spec, OnlyStaleDeleted

\* The flags are gone when a regrade has settled, and so before V20 is stamped;
\* until then a flagged row counts as grounded for every heal.  All of it ends
\* once V22 is stamped over the pending V20.
FlagsSettle ==
    \/ masked
    \/ /\ \A r \in flagged : state[r] = "live"
       /\ \A p \in Regraders : pc[p] = "settled" => flagged = {}
       /\ past20 => flagged = {}

\* No heal of any process soft-deletes a flagged row before it is exported, as
\* long as no open stamped V22 over a V20 that is still pending (connection.rs,
\* "UNLIKE V18, a skipped destructive phase does NOT stamp").
THEOREM FlaggedRowsReachTheExport == Spec => []FlaggedReachesExport
<1>1. Init => FlagsSettle
  BY RowsAssumption DEF Init, FlagsSettle, FlaggedReachesExport, Passes
<1>2. TypeOK /\ FlagsSettle /\ [Next]_vars => FlagsSettle'
  <2> SUFFICES ASSUME TypeOK, FlagsSettle, [Next]_vars, ~masked' PROVE FlagsSettle'
    BY DEF FlagsSettle
  <2>5. ~masked
    BY DEF Next, HealStep, StartHeal, Start, Select, ReadDenominator, ReadThreshold,
           CountDoomed, CheckHeal, HealRow, FinishHeal, RegradeStep, StartRegrade,
           Classify, Export, Gate, Purge, Cleanup, Stamp, ClimbOn, Die, Reset, Tick,
           Reindex, vars, db
  <2>6. /\ \A r \in flagged : state[r] = "live"
        /\ \A p \in Regraders : pc[p] = "settled" => flagged = {}
        /\ past20 => flagged = {}
    BY <2>5 DEF FlagsSettle
  <2> USE <2>6 DEF FlagsSettle
  <2>0. /\ pc \in [Passes -> HealSteps \cup RegradeSteps]
        /\ state \in [Rows -> {"live", "soft", "gone"}]
        /\ flagged \subseteq Rows
        /\ \A p \in Passes : p \in Regraders => p \notin Healers \cup Buttons
    BY RowsAssumption, PassesAssumption DEF TypeOK
  <2>1. ASSUME NEW p \in Healers \cup Buttons, HealStep(p) PROVE FlagsSettle'
    <3>0. p \in Passes /\ p \notin Regraders
      BY <2>1, PassesAssumption DEF Passes
    <3>1. /\ UNCHANGED <<flagged, past20, masked>>
          /\ \A q \in Regraders : pc'[q] = pc[q]
      <4>1. /\ UNCHANGED <<flagged, past20, masked>>
            /\ pc' = pc \/ \E x : pc' = [pc EXCEPT ![p] = x]
        BY <2>1
        DEF HealStep, StartHeal, Start, Select, ReadDenominator, ReadThreshold,
            CountDoomed, CheckHeal, HealRow, FinishHeal, Goto, db
      <4>2. \A q \in Regraders : q \in Passes /\ q # p
        BY <3>0 DEF Passes
      <4> QED
        BY <2>0, <4>1, <4>2
    <3>2. CASE HealRow(p)
      BY <2>0, <3>1, <3>2 DEF HealRow, Grounded
    <3>3. CASE ~HealRow(p)
      BY <2>1, <3>1, <3>3
      DEF HealStep, StartHeal, Start, Select, ReadDenominator, ReadThreshold,
          CountDoomed, CheckHeal, FinishHeal, db
    <3> QED
      BY <3>2, <3>3
  <2>2. ASSUME NEW p \in Regraders, RegradeStep(p) PROVE FlagsSettle'
    <3>0. p \in Passes
      BY <2>2 DEF Passes
    <3>1. CASE Classify(p)
      <4>1. StillFlagged \subseteq flagged /\ (Doomed = {} => StillFlagged = {})
        BY <2>0 DEF StillFlagged, Doomed, Live
      <4> QED
        BY <2>0, <3>0, <3>1, <4>1 DEF Classify, Goto
    <3>2. CASE Purge(p)
      <4>1. StillFlagged \subseteq flagged /\ StillFlagged \ Doomed = {}
        BY <2>0 DEF StillFlagged, Doomed, Live
      <4>2. \A q \in Regraders : q \in Passes
        BY DEF Passes
      <4>3. CASE pc' = [pc EXCEPT ![p] = "cleanup"] /\ state' = state
        <5>1. flagged' \subseteq flagged /\ past20' = past20 /\ masked' = masked
          BY <3>2, <4>1 DEF Purge
        <5> QED
          BY <2>0, <3>0, <4>2, <4>3, <5>1
      <4>4. CASE flagged' = StillFlagged \ doomed[p] /\ Doomed = doomed[p]
        <5>1. flagged' = {}
          BY <4>1, <4>4
        <5> QED
          BY <5>1
      <4> QED
        BY <3>2, <4>3, <4>4 DEF Purge, Goto
    <3>3. CASE Stamp(p)
      BY <2>0, <3>0, <3>3 DEF Stamp, Goto
    <3>5. CASE ClimbOn(p)
      <4>1. \/ past20' = past20
            \/ past20' = TRUE /\ masked' = (masked \/ ~past20)
        BY <3>5 DEF ClimbOn
      <4>2. past20' => flagged = {}
        BY <4>1
      <4>3. UNCHANGED <<state, flagged>> /\ pc' = [pc EXCEPT ![p] = "idle"]
        BY <3>5 DEF ClimbOn, Goto
      <4>4. \A q \in Regraders : pc'[q] = "settled" => pc[q] = "settled"
        BY <2>0, <4>3 DEF Passes
      <4> QED
        BY <4>2, <4>3, <4>4
    <3>4. CASE \/ \E allow, open \in BOOLEAN : StartRegrade(p, allow, open)
               \/ Export(p) \/ Gate(p) \/ Cleanup(p)
      <4>1. /\ UNCHANGED <<state, flagged, past20, masked>>
            /\ \E x \in RegradeSteps \ {"settled"} : pc' = [pc EXCEPT ![p] = x]
        BY <3>4 DEF StartRegrade, Start, Export, Gate, Cleanup, Skip, Goto, db, RegradeSteps
      <4>2. \A q \in Regraders : q \in Passes
        BY DEF Passes
      <4> QED
        BY <2>0, <3>0, <4>1, <4>2
    <3> QED
      BY <2>2, <3>1, <3>2, <3>3, <3>4, <3>5 DEF RegradeStep
  <2>3. ASSUME NEW p \in Passes, Die(p) PROVE FlagsSettle'
    BY <2>0, <2>3 DEF Die, Goto, db
  <2>4. CASE Reset \/ Tick \/ UNCHANGED vars \/ \E r \in Rows : Reindex(r)
    BY <2>4 DEF Reset, Tick, Reindex, vars, db
  <2> QED
    BY <2>1, <2>2, <2>3, <2>4 DEF Next
<1>3. FlagsSettle => FlaggedReachesExport
  BY DEF FlagsSettle, FlaggedReachesExport
<1> QED
  BY <1>1, <1>2, <1>3, TypeCorrect, PTL DEF Spec

\* Two passes of different processes never count one deletion twice: what the
\* shared counter says was deleted is really gone.
THEOREM SpentIsReallyDeleted == Spec => []SpentIsDeleted
<1> DEFINE Alive == Live(Rows)
<1>1. Init => SpentIsDeleted
  <2> SUFFICES ASSUME Init PROVE SpentIsDeleted
    OBVIOUS
  <2>1. Alive = Rows /\ meta.spent = 0 /\ Cardinality(Rows) \in Nat
    BY RowsAssumption, FS_CardinalityType DEF Init, FreshMeta, Live
  <2> QED
    BY <2>1 DEF SpentIsDeleted
<1>2. TypeOK /\ SpentIsDeleted /\ [Next]_vars => SpentIsDeleted'
  <2> SUFFICES ASSUME TypeOK, SpentIsDeleted, [Next]_vars PROVE SpentIsDeleted'
    OBVIOUS
  <2>0. /\ meta \in Meta /\ meta.spent \in Nat /\ now \in Nat
        /\ state \in [Rows -> {"live", "soft", "gone"}]
        /\ Alive \subseteq Rows /\ IsFiniteSet(Alive) /\ Cardinality(Alive) \in Nat
        /\ Cardinality(Rows) \in Nat
        /\ meta.spent <= Cardinality(Rows) - Cardinality(Alive)
    BY LiveCount, RowsAssumption, FS_CardinalityType
    DEF TypeOK, SpentIsDeleted, Meta, Live
  <2>1. CASE state' = state /\ meta' = meta
    BY <2>1 DEF SpentIsDeleted, Live
  <2>2. CASE Reset
    <3>1. state' = state /\ meta'.spent = 0
      BY <2>2 DEF Reset, FreshMeta
    <3>2. Cardinality(Alive) <= Cardinality(Rows)
      BY <2>0, RowsAssumption, FS_Subset
    <3> QED
      BY <2>0, <3>1, <3>2 DEF SpentIsDeleted, Live
  <2>3. ASSUME NEW p \in Healers \cup Buttons, CheckHeal(p) PROVE SpentIsDeleted'
    <3>1. /\ Cardinality(doomed[p]) \in Nat /\ l[p] \in Nat /\ threshold[p] \in Nat
          /\ "heal" \in Writers
      BY RowsAssumption, FS_Subset, FS_CardinalityType DEF TypeOK, Passes, Writers
    <3> DEFINE c == Checked(meta, "heal", Cardinality(doomed[p]), l[p], threshold[p])
    <3>2. c.meta.spent <= meta.spent /\ c.meta.spent \in Nat
      BY <2>0, <3>1, CheckedSpends, CheckedType DEF Meta
    <3>3. meta' = c.meta /\ state' = state
      BY <2>3 DEF CheckHeal
    <3> HIDE DEF c
    <3> QED
      BY <2>0, <3>2, <3>3 DEF SpentIsDeleted, Live
  <2>4. ASSUME NEW p \in Healers \cup Buttons, HealRow(p), state' # state
        PROVE  SpentIsDeleted'
    <3>1. PICK r \in sel[p] : /\ state[r] = "live"
                              /\ state' = [state EXCEPT ![r] = "soft"]
                              /\ meta' = Spent(meta, 1)
      BY <2>4 DEF HealRow
    <3>2. r \in Alive
      BY <3>1, RowsAssumption DEF TypeOK, Passes, Live
    <3>3. Live(Rows)' = Alive \ {r}
      BY <2>0, <3>1, <3>2 DEF Live
    <3>4. Cardinality(Alive \ {r}) = Cardinality(Alive) - 1
      BY <2>0, <3>2, FS_RemoveElement
    <3>5. meta'.spent = meta.spent + 1
      BY <2>0, <3>1 DEF Spent, Meta
    <3> QED
      BY <2>0, <3>3, <3>4, <3>5 DEF SpentIsDeleted
  <2>5. ASSUME NEW p \in Regraders, Purge(p) PROVE SpentIsDeleted'
    <3> DEFINE n == Cardinality(doomed[p])
               c == RegradeCheck(p)
    <3>1. n \in Nat /\ c.meta \in Meta /\ c.meta.spent <= meta.spent
      BY <2>0, RowsAssumption, FS_Subset, FS_CardinalityType, RegradeCheckType,
         RegradeCheckSpends
      DEF TypeOK, Passes
    <3>2. CASE state' = state /\ meta' = c.meta
      <4> HIDE DEF c
      <4> QED
        BY <2>0, <3>1, <3>2 DEF SpentIsDeleted, Live, Meta
    <3>3. CASE /\ doomed[p] = Doomed /\ meta' = Spent(c.meta, n)
               /\ state' = [r \in Rows |-> IF r \in doomed[p] THEN "gone" ELSE state[r]]
      <4>1. doomed[p] \subseteq Alive
        BY <3>3, RowsAssumption DEF Doomed, Live, TypeOK
      <4>2. Live(Rows)' = Alive \ doomed[p]
        BY <2>0, <3>3 DEF Live
      <4>3. Cardinality(Alive \ doomed[p]) = Cardinality(Alive) - n
        <5>1. IsFiniteSet(doomed[p]) /\ Alive \cap doomed[p] = doomed[p]
          BY <2>0, <4>1, FS_Subset
        <5> QED
          BY <2>0, <5>1, FS_Difference
      <4>4. meta'.spent = c.meta.spent + n
        <5> HIDE DEF c, n
        <5> QED
          BY <3>1, <3>3 DEF Spent, Meta
      <4>5. c.meta.spent \in Nat
        BY <3>1 DEF Meta
      <4> HIDE DEF c, n
      <4> QED
        BY <2>0, <3>1, <4>2, <4>3, <4>4, <4>5 DEF SpentIsDeleted
    <3> QED
      BY <2>5, <3>2, <3>3 DEF Purge
  <2>6. ASSUME NEW p \in Healers \cup Buttons, HealRow(p), state' = state
        PROVE  meta' = meta
    BY <2>6, RowsAssumption DEF HealRow, TypeOK, Passes
  <2> QED
    BY <2>1, <2>2, <2>3, <2>4, <2>5, <2>6, WhoWritesMeta, WhoDeletes
<1> QED
  BY <1>1, <1>2, TypeCorrect, PTL DEF Spec

-----------------------------------------------------------------------------
(* Passes that follow one another: the budget and the population *)

HealPasses == Healers \cup Buttons

\* What the writers may delete together, by the largest population there is.
Budget == ThresholdFor(Cardinality(Rows))

OneAtATime == \A p, q \in Passes : p # q => pc[p] = "idle" \/ pc[q] = "idle"

\* The rows that a loop has still to delete, and how many they are.
Todo(p)  == {r \in sel[p] : state[r] = "live" /\ ~Grounded(r)}
Ahead(p) == IF pc[p] = "heal" THEN Cardinality(Todo(p)) ELSE 0

\* Nothing changes between a read and its use, so that a pass counts at its
\* check what its loop will delete.
ReadIsCurrent(p) ==
    /\ pc[p] \in {"select", "denominator", "threshold", "count", "check"} =>
         took[p] = {}
    /\ pc[p] \in {"count", "check"} => threshold[p] <= Budget
    /\ pc[p] = "check" => doomed[p] = {r \in sel[p] : ~Grounded(r)}

\* The check that let a loop begin covers the loop to its end: its share of the
\* budget, and at least one row of the population.
Affords(p) == ~bulk[p] /\ pc[p] = "heal" => meta.spent + Ahead(p) <= Budget
Spares(p)  == ~bulk[p] /\ l[p] > 0 => Cardinality(took[p]) + Ahead(p) < l[p]

SerialInv ==
    Serial =>
      /\ OneAtATime
      /\ \A p \in HealPasses : ReadIsCurrent(p) /\ Affords(p) /\ Spares(p)
      /\ ~mode.bulk => meta.spent <= Budget /\ \A p \in Passes : ~bulk[p]

\* A larger population has no smaller threshold.
LEMMA ThresholdGrows ==
  ASSUME NEW m \in Nat, NEW n \in Nat, m <= n
  PROVE  ThresholdFor(m) <= ThresholdFor(n)
<1>1. m * Percent \in Nat /\ n * Percent \in Nat /\ m * Percent <= n * Percent
  <2>1. PICK k \in Nat : n = m + k
    <3>1. n - m \in Nat /\ n = m + (n - m)
      OBVIOUS
    <3> QED  BY <3>1
  <2>2. n * Percent = m * Percent + k * Percent
    BY <2>1, BreakerAssumption
  <2>3. m * Percent \in Nat /\ k * Percent \in Nat
    BY <2>1, BreakerAssumption
  <2> QED  BY <2>2, <2>3
<1> DEFINE a == m * Percent
           b == n * Percent
<1> HIDE DEF a, b
<1>2. a \in Nat /\ b \in Nat /\ a <= b
  BY <1>1 DEF a, b
<1>3. (a + 99) \div 100 <= (b + 99) \div 100
      /\ (a + 99) \div 100 \in Nat /\ (b + 99) \div 100 \in Nat
  BY <1>2
<1>4. /\ ThresholdFor(m) = IF (a + 99) \div 100 > Floor THEN (a + 99) \div 100 ELSE Floor
      /\ ThresholdFor(n) = IF (b + 99) \div 100 > Floor THEN (b + 99) \div 100 ELSE Floor
  BY DEF ThresholdFor, a, b
<1> QED
  BY <1>3, <1>4, BreakerAssumption

\* No count of live rows has a threshold above the budget.
LEMMA CountWithinBudget ==
  ASSUME NEW S \in SUBSET Rows
  PROVE  /\ Cardinality(Live(S)) \in Nat
         /\ ThresholdFor(Cardinality(Live(S))) \in Nat
         /\ ThresholdFor(Cardinality(Live(S))) <= Budget
<1>1. Live(S) \subseteq Rows
  BY DEF Live
<1>2. /\ Cardinality(Live(S)) \in Nat /\ Cardinality(Rows) \in Nat
      /\ Cardinality(Live(S)) <= Cardinality(Rows)
  BY <1>1, RowsAssumption, FS_Subset, FS_CardinalityType
<1> QED
  BY <1>2, ThresholdGrows, ThresholdType DEF Budget

LEMMA BudgetType == Budget \in Nat
BY ThresholdType, RowsAssumption, FS_CardinalityType DEF Budget

\* What an allowed check promises: room in the budget, and a survivor.
LEMMA CheckedAllows ==
  ASSUME NEW m \in Meta, now \in Nat,
         NEW w \in Writers, NEW n \in Nat, NEW own \in Nat, NEW th \in Nat,
         Checked(m, w, n, own, th).allow
  PROVE  /\ Checked(m, w, n, own, th).meta.spent + n <= th
         /\ own > 0 => n < own
<1> DEFINE b == Snapshot(Booked(m, th), w, own)
<1>1. b \in Meta
  BY BookedType DEF Snapshot, Meta
<1>2. Checked(m, w, n, own, th)
        = IF Refuses(b, n, own, th)
          THEN [allow |-> FALSE, meta |-> [b EXCEPT !.tripped = TRUE]]
          ELSE [allow |-> TRUE,  meta |-> b]
  BY DEF Checked
<1> HIDE DEF b
<1>3. ~Refuses(b, n, own, th)
  BY <1>2
<1>4. Checked(m, w, n, own, th).meta = b
  BY <1>2, <1>3
<1>5. b.spent \in Nat
  BY <1>1 DEF Meta
<1> QED
  BY <1>3, <1>4, <1>5 DEF Refuses

\* What is to do is a finite set of rows, and so is what was done.
LEMMA TodoIsFinite ==
  ASSUME TypeOK, NEW p \in Passes
  PROVE  /\ IsFiniteSet(Todo(p)) /\ Cardinality(Todo(p)) \in Nat
         /\ IsFiniteSet(took[p]) /\ Cardinality(took[p]) \in Nat
         /\ IsFiniteSet(doomed[p]) /\ Cardinality(doomed[p]) \in Nat
<1>1. Todo(p) \subseteq Rows /\ took[p] \subseteq Rows /\ doomed[p] \subseteq Rows
  BY RowsAssumption DEF TypeOK, Todo
<1> QED
  BY <1>1, RowsAssumption, FS_Subset, FS_CardinalityType

\* While one pass runs all others are idle.
LEMMA RunsAlone ==
  ASSUME TypeOK, OneAtATime, NEW p \in Passes, pc[p] # "idle",
         pc' = pc \/ \E x : pc' = [pc EXCEPT ![p] = x]
  PROVE  /\ OneAtATime'
         /\ \A q \in Passes \ {p} : pc[q] = "idle" /\ pc'[q] = "idle"
<1>1. pc \in [Passes -> HealSteps \cup RegradeSteps]
  BY DEF TypeOK
<1>2. \A q \in Passes \ {p} : pc[q] = "idle" /\ pc'[q] = "idle"
  BY <1>1 DEF OneAtATime
<1> QED
  BY <1>2 DEF OneAtATime

\* An idle heal is not disturbed by what others do.
LEMMA IdleKeeps ==
  ASSUME NEW q \in HealPasses, pc[q] = "idle", pc'[q] = "idle",
         bulk'[q] = bulk[q], l'[q] = l[q], took'[q] = took[q], Spares(q)
  PROVE  (ReadIsCurrent(q) /\ Affords(q) /\ Spares(q))'
BY DEF ReadIsCurrent, Affords, Spares, Ahead

\* A step of one running pass keeps SerialInv if it keeps its own part of it.
LEMMA OwnStep ==
  ASSUME TypeOK, SerialInv, Serial, mode' = mode,
         NEW p \in Passes, pc[p] # "idle",
         pc' = pc \/ \E x : pc' = [pc EXCEPT ![p] = x],
         bulk' = bulk,
         \A q \in Passes \ {p} : l'[q] = l[q] /\ took'[q] = took[q],
         p \in HealPasses => (ReadIsCurrent(p) /\ Affords(p) /\ Spares(p))',
         ~mode.bulk => meta'.spent <= Budget
  PROVE  SerialInv'
<1>1. OneAtATime' /\ \A q \in Passes \ {p} : pc[q] = "idle" /\ pc'[q] = "idle"
  BY RunsAlone DEF SerialInv
<1>2. ASSUME NEW q \in HealPasses, q # p
      PROVE  (ReadIsCurrent(q) /\ Affords(q) /\ Spares(q))'
  <2>1. q \in Passes \ {p}
    BY <1>2 DEF HealPasses, Passes
  <2>2. pc[q] = "idle" /\ pc'[q] = "idle" /\ l'[q] = l[q] /\ took'[q] = took[q]
        /\ bulk'[q] = bulk[q] /\ Spares(q)
    BY <1>1, <2>1 DEF SerialInv
  <2> QED  BY <2>2, IdleKeeps
<1> QED
  BY <1>1, <1>2, Zenon DEF SerialInv

\* A pass that starts finds all others idle.
LEMMA StartKeepsSerial ==
  ASSUME TypeOK, SerialInv, Serial, NEW p \in Passes, NEW next, next \notin {"idle",
         "count", "check", "heal"}, Start(p, next),
         NEW allow \in BOOLEAN, allow => mode.bulk, bulk' = [bulk EXCEPT ![p] = allow]
  PROVE  SerialInv'
<1>1. /\ \A q \in Passes : pc[q] = "idle"
      /\ pc' = [pc EXCEPT ![p] = next] /\ took' = [took EXCEPT ![p] = {}]
      /\ l' = l /\ mode' = mode /\ meta' = meta
  BY DEF Start, Goto, Serial, db
<1>2. /\ pc \in [Passes -> HealSteps \cup RegradeSteps]
      /\ took \in [Passes -> SUBSET Rows] /\ bulk \in [Passes -> BOOLEAN]
      /\ l \in [Passes -> Nat]
  BY DEF TypeOK
<1>3. /\ pc'[p] = next /\ took'[p] = {} /\ bulk'[p] = allow /\ l'[p] = l[p]
      /\ \A q \in Passes \ {p} : /\ pc'[q] = "idle" /\ took'[q] = took[q]
                                 /\ bulk'[q] = bulk[q] /\ l'[q] = l[q]
  BY <1>1, <1>2
<1>4. OneAtATime'
  BY <1>3 DEF OneAtATime
<1>5. ASSUME NEW q \in HealPasses, q # p
      PROVE  (ReadIsCurrent(q) /\ Affords(q) /\ Spares(q))'
  <2>1. q \in Passes \ {p}
    BY <1>5 DEF HealPasses, Passes
  <2> QED  BY <1>1, <1>3, <2>1, IdleKeeps DEF SerialInv
<1>6. (ReadIsCurrent(p) /\ Affords(p) /\ Spares(p))'
  <2>1. Cardinality({}) = 0
    BY FS_EmptySet
  <2>2. Spares(p)'
    BY <1>2, <1>3, <2>1 DEF Spares, Ahead
  <2> QED  BY <1>3, <2>2 DEF ReadIsCurrent, Affords
<1>7. ~mode'.bulk => meta'.spent <= Budget /\ \A q \in Passes : ~bulk'[q]
  BY <1>1, <1>3 DEF SerialInv
<1> QED
  BY <1>4, <1>5, <1>6, <1>7, Zenon DEF SerialInv

\* The reads of a heal, up to its check.
LEMMA ReadsKeepSerial ==
  ASSUME TypeOK, SerialInv, Serial, NEW p \in HealPasses,
         Select(p) \/ ReadDenominator(p) \/ ReadThreshold(p) \/ CountDoomed(p)
  PROVE  SerialInv'
<1>1. p \in Passes /\ took[p] = {} /\ Cardinality({}) = 0 /\ pc[p] # "idle"
  <2>1. pc[p] \in {"select", "denominator", "threshold", "count"}
    BY DEF Select, ReadDenominator, ReadThreshold, CountDoomed
  <2>2. took[p] = {}
    BY <2>1 DEF SerialInv, ReadIsCurrent
  <2> QED  BY <2>1, <2>2, FS_EmptySet DEF HealPasses, Passes
<1>2. /\ bulk' = bulk /\ took' = took /\ mode' = mode /\ meta' = meta
      /\ pc' = pc \/ \E x : pc' = [pc EXCEPT ![p] = x]
      /\ \A q \in Passes \ {p} : l'[q] = l[q]
  BY DEF Select, ReadDenominator, ReadThreshold, CountDoomed, Goto, db, world, TypeOK
<1>3. /\ pc \in [Passes -> HealSteps \cup RegradeSteps] /\ l \in [Passes -> Nat]
      /\ threshold \in [Passes -> Nat] /\ doomed \in [Passes -> SUBSET Rows]
      /\ bulk[p] \in BOOLEAN
  BY <1>1 DEF TypeOK
<1>4. Cardinality(took'[p]) = 0 /\ took'[p] = {} /\ bulk'[p] = bulk[p]
  BY <1>1, <1>2
<1>5. ASSUME l'[p] \in Nat, ~bulk[p] => pc'[p] # "heal"
      PROVE  (Affords(p) /\ Spares(p))'
  <2>1. ~bulk'[p] => Ahead(p)' = 0
    BY <1>4, <1>5 DEF Ahead
  <2> QED  BY <1>4, <1>5, <2>1 DEF Affords, Spares
<1>6. CASE Select(p)
  <2>1. pc'[p] \in {"heal", "idle", "denominator"} /\ (pc'[p] = "heal" => bulk[p])
        /\ l' = l
    BY <1>1, <1>3, <1>6 DEF Select, Goto
  <2>2. (ReadIsCurrent(p) /\ Affords(p) /\ Spares(p))'
    BY <1>1, <1>3, <1>4, <1>5, <2>1 DEF ReadIsCurrent
  <2> QED  BY <1>1, <1>2, <2>2, OwnStep DEF SerialInv
<1>7. CASE ReadDenominator(p)
  <2>1. pc'[p] = "threshold" /\ l'[p] \in Nat
    BY <1>1, <1>3, <1>7, CountWithinBudget, RowsAssumption DEF ReadDenominator, Goto
  <2>2. (ReadIsCurrent(p) /\ Affords(p) /\ Spares(p))'
    BY <1>1, <1>3, <1>4, <1>5, <2>1 DEF ReadIsCurrent
  <2> QED  BY <1>1, <1>2, <2>2, OwnStep DEF SerialInv
<1>8. CASE ReadThreshold(p)
  <2>1. pc'[p] = "count" /\ threshold'[p] <= Budget /\ l' = l
    BY <1>1, <1>3, <1>8, CountWithinBudget, RowsAssumption DEF ReadThreshold, Goto
  <2>2. Budget' = Budget
    BY DEF Budget
  <2>3. (ReadIsCurrent(p) /\ Affords(p) /\ Spares(p))'
    BY <1>1, <1>3, <1>4, <1>5, <2>1, <2>2 DEF ReadIsCurrent
  <2> QED  BY <1>1, <1>2, <2>3, OwnStep DEF SerialInv
<1>9. CASE CountDoomed(p)
  <2>1. /\ pc'[p] = "check" /\ threshold' = threshold /\ l' = l /\ pc[p] = "count"
        /\ UNCHANGED <<sel, anchored, flagged, past20>>
        /\ doomed'[p] = {r \in sel[p] : ~Grounded(r)}
    BY <1>1, <1>3, <1>9 DEF CountDoomed, Goto, db
  <2>2. threshold[p] <= Budget
    BY <2>1 DEF SerialInv, ReadIsCurrent
  <2>3. Budget' = Budget /\ \A r : Grounded(r)' = Grounded(r)
    BY <2>1 DEF Budget, Grounded
  <2>4. ReadIsCurrent(p)'
    BY <1>4, <2>1, <2>2, <2>3 DEF ReadIsCurrent
  <2>5. (Affords(p) /\ Spares(p))'
    BY <1>1, <1>3, <1>5, <2>1
  <2> QED  BY <1>1, <1>2, <2>4, <2>5, OwnStep DEF SerialInv
<1> QED
  BY <1>6, <1>7, <1>8, <1>9

\* The check counted what the loop will delete.
LEMMA CheckKeepsSerial ==
  ASSUME TypeOK, SerialInv, Serial, NEW p \in HealPasses, CheckHeal(p)
  PROVE  SerialInv'
<1> DEFINE n == Cardinality(doomed[p])
           c == Checked(meta, "heal", n, l[p], threshold[p])
<1>1. p \in Passes /\ pc[p] = "check"
  BY DEF HealPasses, Passes, CheckHeal
<1>2. took[p] = {} /\ threshold[p] <= Budget /\ doomed[p] = {r \in sel[p] : ~Grounded(r)}
  BY <1>1 DEF SerialInv, ReadIsCurrent
<1>3. /\ meta \in Meta /\ now \in Nat /\ n \in Nat /\ l[p] \in Nat
      /\ threshold[p] \in Nat /\ "heal" \in Writers /\ meta.spent \in Nat
      /\ pc \in [Passes -> HealSteps \cup RegradeSteps]
  BY <1>1, TodoIsFinite DEF TypeOK, Writers, Meta
<1>4. c.meta \in Meta /\ c.meta.spent <= meta.spent /\ c.meta.spent \in Nat
  <2>1. c.meta \in Meta /\ c.meta.spent <= meta.spent
    BY <1>3, CheckedType, CheckedSpends
  <2> QED  BY <2>1 DEF Meta
<1>5. c.allow => c.meta.spent + n <= threshold[p] /\ (l[p] > 0 => n < l[p])
  BY <1>3, CheckedAllows
<1>6. /\ meta' = c.meta /\ pc' = [pc EXCEPT ![p] = IF c.allow THEN "heal" ELSE "idle"]
      /\ UNCHANGED <<state, anchored, flagged, past20, bulk, sel, l, took, mode>>
  BY DEF CheckHeal, Goto, locals, world
<1>7. Cardinality(Todo(p)) <= n /\ Cardinality(Todo(p)) \in Nat
  <2>1. Todo(p) \subseteq doomed[p]
    BY <1>2 DEF Todo
  <2> QED  BY <1>1, <2>1, TodoIsFinite, FS_Subset
<1>8. Todo(p)' = Todo(p) /\ Budget' = Budget /\ Budget \in Nat
  BY <1>6, BudgetType DEF Todo, Grounded, Budget
<1> HIDE DEF c, n
<1>9. Ahead(p)' = IF c.allow THEN Cardinality(Todo(p)) ELSE 0
  BY <1>1, <1>3, <1>6, <1>8 DEF Ahead
<1>10. pc'[p] = "heal" => c.allow
  BY <1>1, <1>3, <1>6
<1>11. ReadIsCurrent(p)'
  BY <1>1, <1>3, <1>6 DEF ReadIsCurrent
<1>12. Affords(p)'
  BY <1>2, <1>3, <1>4, <1>5, <1>6, <1>7, <1>8, <1>9, <1>10 DEF Affords
<1>13. Spares(p)'
  <2>1. Cardinality(took'[p]) = 0 /\ l'[p] = l[p]
    BY <1>2, <1>6, FS_EmptySet
  <2> QED  BY <1>3, <1>5, <1>7, <1>9, <2>1 DEF Spares
<1>14. ~mode.bulk => meta'.spent <= Budget
  BY <1>3, <1>4, <1>6, <1>8 DEF SerialInv
<1> QED
  BY <1>1, <1>6, <1>11, <1>12, <1>13, <1>14, OwnStep

\* Each row the loop deletes is one of those the check counted.
LEMMA HealRowKeepsSerial ==
  ASSUME TypeOK, SerialInv, Serial, NEW p \in HealPasses, HealRow(p)
  PROVE  SerialInv'
<1>1. /\ p \in Passes /\ pc[p] = "heal" /\ pc' = pc
      /\ UNCHANGED <<anchored, flagged, past20, bulk, l, mode>>
      /\ meta.spent \in Nat /\ l[p] \in Nat /\ bulk[p] \in BOOLEAN
  BY DEF HealPasses, Passes, HealRow, world, TypeOK, Meta
<1>2. PICK r \in sel[p] :
        /\ sel' = [sel EXCEPT ![p] = @ \ {r}]
        /\ IF Grounded(r) \/ state[r] # "live"
           THEN UNCHANGED <<state, meta, took>>
           ELSE /\ state' = [state EXCEPT ![r] = "soft"]
                /\ meta'  = Spent(meta, 1)
                /\ took'  = [took EXCEPT ![p] = @ \cup {r}]
  BY DEF HealRow
<1>3. sel'[p] = sel[p] \ {r} /\ \A x : Grounded(x)' = Grounded(x)
  BY <1>1, <1>2 DEF TypeOK, Grounded
<1>4. /\ IsFiniteSet(Todo(p)) /\ Cardinality(Todo(p)) \in Nat
      /\ IsFiniteSet(took[p]) /\ Cardinality(took[p]) \in Nat
  BY <1>1, TodoIsFinite
<1>5. Budget' = Budget /\ Budget \in Nat
  BY BudgetType DEF Budget
<1>6. ReadIsCurrent(p)'
  BY <1>1 DEF ReadIsCurrent
<1>7. Affords(p) /\ Spares(p) /\ Ahead(p) = Cardinality(Todo(p))
      /\ Ahead(p)' = Cardinality(Todo(p)')
  BY <1>1 DEF SerialInv, Ahead
<1>8. CASE Grounded(r) \/ state[r] # "live"
  <2>1. UNCHANGED <<state, meta, took>>
    BY <1>2, <1>8
  <2>2. Todo(p)' = Todo(p)
    BY <1>3, <1>8, <2>1 DEF Todo
  <2>3. Affords(p)' /\ Spares(p)'
    BY <1>1, <1>5, <1>7, <2>1, <2>2 DEF Affords, Spares
  <2> QED  BY <1>1, <1>6, <2>1, <2>3, OwnStep DEF SerialInv
<1>9. CASE ~(Grounded(r) \/ state[r] # "live")
  <2>1. /\ state' = [state EXCEPT ![r] = "soft"] /\ meta' = Spent(meta, 1)
        /\ took' = [took EXCEPT ![p] = @ \cup {r}]
    BY <1>2, <1>9
  <2>2. meta'.spent = meta.spent + 1
    BY <2>1 DEF Spent, TypeOK, Meta
  <2>3. took'[p] = took[p] \cup {r} /\ \A q \in Passes \ {p} : took'[q] = took[q]
    BY <1>1, <2>1 DEF TypeOK
  <2>4. r \in Todo(p) /\ Todo(p)' = Todo(p) \ {r}
    <3>1. sel[p] \subseteq Rows /\ state \in [Rows -> {"live", "soft", "gone"}]
      BY <1>1, RowsAssumption DEF TypeOK
    <3> QED  BY <1>2, <1>3, <1>9, <2>1, <3>1 DEF Todo
  <2>5. Cardinality(Todo(p)') = Cardinality(Todo(p)) - 1
    BY <1>4, <2>4, FS_RemoveElement
  <2>6. Cardinality(took'[p]) <= Cardinality(took[p]) + 1
        /\ Cardinality(took'[p]) \in Nat /\ Cardinality(Todo(p)') \in Nat
    <3>1. IsFiniteSet(took'[p]) /\ IsFiniteSet(Todo(p)')
      <4>1. IsFiniteSet(took[p] \cup {r}) /\ IsFiniteSet(Todo(p) \ {r})
        BY <1>4, FS_AddElement, FS_RemoveElement
      <4> QED  BY <2>3, <2>4, <4>1
    <3>2. Cardinality(took'[p]) \in {Cardinality(took[p]), Cardinality(took[p]) + 1}
      BY <1>4, <2>3, FS_AddElement
    <3> QED  BY <1>4, <3>1, <3>2, FS_CardinalityType
  <2>7. Affords(p)'
    BY <1>1, <1>4, <1>5, <1>7, <2>2, <2>5, <2>6 DEF Affords
  <2>8. Spares(p)'
    BY <1>1, <1>4, <1>7, <2>3, <2>5, <2>6 DEF Spares
  <2>9. ~mode.bulk => meta'.spent <= Budget
    BY <1>1, <1>4, <1>5, <1>7, <2>2, <2>5, <2>6 DEF SerialInv, Affords
  <2> QED  BY <1>1, <1>6, <2>3, <2>7, <2>8, <2>9, OwnStep
<1> QED
  BY <1>8, <1>9

LEMMA HealKeepsSerial ==
  ASSUME TypeOK, SerialInv, Serial, NEW p \in HealPasses, HealStep(p)
  PROVE  SerialInv'
<1>1. p \in Passes
  BY DEF HealPasses, Passes
<1>2. ASSUME NEW allow \in BOOLEAN, StartHeal(p, allow) PROVE SerialInv'
  BY <1>1, <1>2, StartKeepsSerial DEF StartHeal
<1>3. CASE FinishHeal(p)
  <2>1. /\ pc[p] = "heal" /\ pc' = [pc EXCEPT ![p] = "idle"]
        /\ UNCHANGED <<meta, bulk, l, took, mode>>
    BY <1>3 DEF FinishHeal, Goto, db, locals, world
  <2>2. pc'[p] = "idle"
    BY <1>1, <2>1 DEF TypeOK
  <2>3. Spares(p) /\ Ahead(p) \in Nat /\ l[p] \in Nat /\ Cardinality(took[p]) \in Nat
    BY <1>1, TodoIsFinite DEF SerialInv, Ahead, TypeOK
  <2>4. (ReadIsCurrent(p) /\ Affords(p) /\ Spares(p))'
    BY <2>1, <2>2, <2>3 DEF ReadIsCurrent, Affords, Spares, Ahead
  <2> QED  BY <1>1, <2>1, <2>4, OwnStep DEF SerialInv
<1> QED
  BY <1>2, <1>3, ReadsKeepSerial, CheckKeepsSerial, HealRowKeepsSerial DEF HealStep

LEMMA RegradeKeepsSerial ==
  ASSUME TypeOK, SerialInv, Serial, NEW p \in Regraders, RegradeStep(p)
  PROVE  SerialInv'
<1>1. p \in Passes /\ p \notin HealPasses
  BY PassesAssumption DEF HealPasses, Passes
<1>2. ASSUME NEW allow \in BOOLEAN, NEW open \in BOOLEAN, StartRegrade(p, allow, open)
      PROVE  SerialInv'
  BY <1>1, <1>2, StartKeepsSerial DEF StartRegrade
<1>3. CASE \/ Classify(p) \/ Export(p) \/ Gate(p) \/ Cleanup(p) \/ Stamp(p)
          \/ ClimbOn(p)
  <2>1. /\ pc[p] # "idle"
        /\ \E x : pc' = [pc EXCEPT ![p] = x]
        /\ UNCHANGED <<meta, bulk, l, took, mode>>
    BY <1>3 DEF Classify, Export, Gate, Cleanup, Stamp, ClimbOn, Skip, Goto, db, locals, world
  <2>2. /\ \A q \in Passes \ {p} : l'[q] = l[q] /\ took'[q] = took[q]
        /\ ~mode.bulk => meta'.spent <= Budget
    BY <2>1 DEF SerialInv
  <2> QED  BY <1>1, <2>1, <2>2, OwnStep
<1>4. CASE Purge(p)
  <2> DEFINE n   == Cardinality(doomed[p])
             own == Cardinality(Live(EvidenceRows))
             c   == Checked(meta, "regrade", n, own, ThresholdFor(own))
  <2>1. /\ meta \in Meta /\ now \in Nat /\ n \in Nat /\ own \in Nat
        /\ ThresholdFor(own) \in Nat /\ ThresholdFor(own) <= Budget
        /\ "regrade" \in Writers /\ Budget \in Nat /\ meta.spent \in Nat
    BY <1>1, TodoIsFinite, CountWithinBudget, RowsAssumption, BudgetType
    DEF TypeOK, Writers, Meta
  <2>2. /\ pc[p] = "purge" /\ \E x : pc' = [pc EXCEPT ![p] = x]
        /\ UNCHANGED <<bulk, l, mode>>
        /\ \A q \in Passes \ {p} : took'[q] = took[q]
    BY <1>4 DEF Purge, Goto, world, TypeOK
  <2>3. ASSUME ~mode.bulk PROVE meta'.spent <= Budget
    <3>1. meta.spent <= Budget /\ ~bulk[p]
      BY <1>1, <2>3 DEF SerialInv
    <3>2. RegradeCheck(p) = c
      BY <3>1 DEF RegradeCheck
    <3>3. \/ meta' = c.meta
          \/ c.allow /\ meta' = Spent(c.meta, n)
      BY <1>4, <3>2 DEF Purge
    <3> HIDE DEF n, own
    <3>4. c.meta \in Meta /\ c.meta.spent <= meta.spent
          /\ (c.allow => c.meta.spent + n <= ThresholdFor(own))
      BY <2>1, CheckedType, CheckedSpends, CheckedAllows
    <3> HIDE DEF c
    <3>5. c.meta.spent \in Nat /\ Spent(c.meta, n).spent = c.meta.spent + n
      BY <3>4 DEF Meta, Spent
    <3> QED  BY <2>1, <3>1, <3>3, <3>4, <3>5
  <2> QED  BY <1>1, <2>2, <2>3, OwnStep
<1> QED
  BY <1>2, <1>3, <1>4 DEF RegradeStep

\* Serial passes keep to what their checks allowed.
LEMMA SerialIsKept == TypeOK /\ SerialInv /\ [Next]_vars => SerialInv'
<1> SUFFICES ASSUME TypeOK, SerialInv, [Next]_vars, Serial'
             PROVE  SerialInv'
  BY DEF SerialInv
<1>1. mode' = mode /\ Serial
  <2>1. mode' = mode
    BY DEF Next, HealStep, StartHeal, Start, Select, ReadDenominator, ReadThreshold,
           CountDoomed, CheckHeal, HealRow, FinishHeal, RegradeStep, StartRegrade,
           Classify, Export, Gate, Purge, Cleanup, Stamp, ClimbOn, Skip, Die, Reset, Tick, Reindex,
           vars, db, locals, world
  <2> QED  BY <2>1 DEF Serial
<1>2. CASE \E p \in Healers \cup Buttons : HealStep(p)
  BY <1>1, <1>2, HealKeepsSerial DEF HealPasses
<1>3. CASE \E p \in Regraders : RegradeStep(p)
  BY <1>1, <1>3, RegradeKeepsSerial
<1>4. ASSUME NEW p \in Passes, Die(p) PROVE SerialInv'
  <2>1. /\ pc[p] # "idle" /\ pc' = [pc EXCEPT ![p] = "idle"] /\ pc'[p] = "idle"
        /\ UNCHANGED <<meta, bulk, l, took, mode>>
    BY <1>4 DEF Die, Goto, db, locals, world, TypeOK
  <2>2. p \in HealPasses => (ReadIsCurrent(p) /\ Affords(p) /\ Spares(p))'
    <3>1. p \in HealPasses => Spares(p)
      BY <1>1 DEF SerialInv
    <3>2. Ahead(p) \in Nat /\ l[p] \in Nat /\ Cardinality(took[p]) \in Nat
      BY <1>4, TodoIsFinite DEF Ahead, TypeOK
    <3> QED  BY <2>1, <3>1, <3>2 DEF ReadIsCurrent, Affords, Spares, Ahead
  <2> QED  BY <1>1, <1>4, <2>1, <2>2, OwnStep DEF SerialInv
<1>5. CASE Reset \/ \E r \in Rows : Reindex(r)
  <2>1. /\ \A q \in Passes : pc[q] = "idle"
        /\ UNCHANGED <<pc, bulk, l, took>> /\ meta' \in {meta, FreshMeta}
    BY <1>1, <1>5 DEF Reset, Reindex, Serial, locals
  <2>2. \A q \in HealPasses : (ReadIsCurrent(q) /\ Affords(q) /\ Spares(q))'
    BY <1>1, <2>1, IdleKeeps DEF SerialInv, HealPasses, Passes
  <2>3. Budget' = Budget /\ Budget \in Nat /\ FreshMeta.spent = 0
    BY BudgetType DEF Budget, FreshMeta
  <2>4. ~mode.bulk => meta'.spent <= Budget
    BY <1>1, <2>1, <2>3 DEF SerialInv
  <2> QED  BY <1>1, <2>1, <2>2, <2>3, <2>4 DEF SerialInv, OneAtATime
<1>6. CASE Tick \/ UNCHANGED vars
  <2>1. UNCHANGED <<db, pc, locals, mode>>
    BY <1>6 DEF Tick, vars, world
  <2> QED  BY <1>1, <2>1
           DEF SerialInv, OneAtATime, ReadIsCurrent, Affords, Spares, Ahead, Todo,
               Grounded, Budget, db, locals
<1> QED
  BY <1>2, <1>3, <1>4, <1>5, <1>6 DEF Next

LEMMA SerialInvariant == Spec => []SerialInv
<1>1. Init => SerialInv
  <2> SUFFICES ASSUME Init PROVE SerialInv
    OBVIOUS
  <2>1. /\ \A p \in Passes : pc[p] = "idle" /\ ~bulk[p] /\ l[p] = 0 /\ took[p] = {}
        /\ meta.spent = 0 /\ Budget \in Nat
    BY BudgetType DEF Init, FreshMeta
  <2>2. \A p \in HealPasses : ReadIsCurrent(p) /\ Affords(p) /\ Spares(p)
    BY <2>1 DEF HealPasses, Passes, ReadIsCurrent, Affords, Spares
  <2> QED  BY <2>1, <2>2 DEF SerialInv, OneAtATime
<1> QED
  BY <1>1, SerialIsKept, TypeCorrect, PTL DEF Spec

\* Passes that follow one another delete in one epoch no more than the budget of
\* the largest population, all writers together (breaker.rs, rule 3): what a check
\* allows is still all that its pass deletes, though the counter is written row by
\* row, epochs roll over and passes die in their loops.
THEOREM EpochsStayWithinBudget == Spec => []WithinBudget
<1>1. SerialInv => WithinBudget
  BY DEF SerialInv, WithinBudget, Budget
<1> QED
  BY <1>1, SerialInvariant, PTL

\* A checked heal leaves at least one row of the population it counted (rule 2),
\* however its process dies and whatever the passes before it deleted.
THEOREM NoPopulationIsWiped == Spec => []NoWipe
<1>1. TypeOK /\ SerialInv => NoWipe
  <2> SUFFICES ASSUME TypeOK, SerialInv, Serial, NEW p \in Passes \ Regraders,
                      ~bulk[p], l[p] > 0
               PROVE  Cardinality(took[p]) < l[p]
    BY DEF NoWipe
  <2>1. p \in HealPasses /\ Spares(p)
    BY DEF HealPasses, Passes, SerialInv
  <2>2. Ahead(p) \in Nat /\ l[p] \in Nat /\ Cardinality(took[p]) \in Nat
    BY TodoIsFinite DEF Ahead, TypeOK
  <2> QED  BY <2>1, <2>2 DEF Spares
<1> QED
  BY <1>1, SerialInvariant, TypeCorrect, PTL

-----------------------------------------------------------------------------
(* Backups *)

\* The hypothesis of what follows: regrades do not overlap, because there is one
\* or because no passes do.  (Of two that overlap, one removes the other's files.)
RegradesAreSerial ==
    \/ \A p, q \in Regraders : p = q
    \/ \A m \in Modes : "passes" \notin m.races

\* From its classification to its end a regrade works on rows that are still
\* there, and it purges only with all their files written.
BackupInv ==
    /\ PurgedIsBackedUp
    /\ \A p, q \in Regraders : p # q => pc[p] = "idle" \/ pc[q] = "idle"
    /\ \A p \in Regraders :
         /\ pc[p] \in {"export", "gate", "purge", "cleanup"} =>
              \A r \in doomed[p] : state[r] # "gone"
         /\ pc[p] = "purge" => doomed[p] \subseteq exports

\* Only a purge removes rows for good, and only a cleanup removes files.
LEMMA WhoPurges ==
  ASSUME TypeOK, [Next]_vars
  PROVE  /\ \/ \A r \in Rows : state'[r] = "gone" => state[r] = "gone"
            \/ \E p \in Regraders : Purge(p)
         /\ exports \subseteq exports' \/ \E p \in Regraders : Cleanup(p)
<1>1. ASSUME NEW p \in Healers \cup Buttons, HealStep(p)
      PROVE  /\ \A r \in Rows : state'[r] = "gone" => state[r] = "gone"
             /\ exports' = exports
  BY <1>1 DEF HealStep, StartHeal, Start, Select, ReadDenominator, ReadThreshold,
              CountDoomed, CheckHeal, HealRow, FinishHeal, db, TypeOK
<1>2. ASSUME NEW p \in Regraders, RegradeStep(p)
      PROVE  /\ state' = state \/ Purge(p)
             /\ exports \subseteq exports' \/ Cleanup(p)
  BY <1>2 DEF RegradeStep, StartRegrade, Start, Classify, Export, Gate, Purge,
              Stamp, ClimbOn, Skip, Cleanup, db
<1>3. ASSUME \/ \E p \in Passes : Die(p)
             \/ Reset \/ Tick \/ UNCHANGED vars
             \/ \E r \in Rows : Reindex(r)
      PROVE  state' = state /\ exports' = exports
  BY <1>3 DEF Die, Reset, Tick, Reindex, vars, db
<1> QED
  BY <1>1, <1>2, <1>3 DEF Next

\* What a step of another process leaves of a regrade.
LEMMA OtherRegrades ==
  ASSUME [Next]_vars, TypeOK, NEW q \in Regraders,
         ~RegradeStep(q)
  PROVE  /\ doomed'[q] = doomed[q]
         /\ pc'[q] \in {pc[q], "idle"}
<1>0. /\ pc \in [Passes -> HealSteps \cup RegradeSteps]
      /\ doomed \in [Passes -> SUBSET Rows] /\ q \in Passes
  BY DEF TypeOK, Passes
<1>1. ASSUME NEW p \in Passes, p # q, pc' = pc \/ \E x : pc' = [pc EXCEPT ![p] = x],
             doomed' = doomed \/ \E x : doomed' = [doomed EXCEPT ![p] = x]
      PROVE  doomed'[q] = doomed[q] /\ pc'[q] = pc[q]
  BY <1>0, <1>1
<1>2. ASSUME NEW p \in Healers \cup Buttons, HealStep(p)
      PROVE  doomed'[q] = doomed[q] /\ pc'[q] = pc[q]
  <2>1. p \in Passes /\ p # q
    BY PassesAssumption DEF Passes
  <2>2. /\ pc' = pc \/ \E x : pc' = [pc EXCEPT ![p] = x]
        /\ doomed' = doomed \/ \E x : doomed' = [doomed EXCEPT ![p] = x]
    BY <1>2 DEF HealStep, StartHeal, Start, Select, ReadDenominator, ReadThreshold,
                CountDoomed, CheckHeal, HealRow, FinishHeal, Goto, locals
  <2> QED  BY <1>1, <2>1, <2>2
<1>3. ASSUME NEW p \in Regraders, RegradeStep(p)
      PROVE  doomed'[q] = doomed[q] /\ pc'[q] = pc[q]
  <2>1. p \in Passes /\ p # q
    BY <1>3 DEF Passes
  <2>2. /\ pc' = pc \/ \E x : pc' = [pc EXCEPT ![p] = x]
        /\ doomed' = doomed \/ \E x : doomed' = [doomed EXCEPT ![p] = x]
    BY <1>3 DEF RegradeStep, StartRegrade, Start, Classify, Export, Gate, Purge,
                Cleanup, Stamp, ClimbOn, Skip, Goto, locals
  <2> QED  BY <1>1, <2>1, <2>2
<1>4. ASSUME NEW p \in Passes, Die(p)
      PROVE  doomed'[q] = doomed[q] /\ pc'[q] \in {pc[q], "idle"}
  BY <1>0, <1>4 DEF Die, Goto, locals
<1>5. ASSUME Reset \/ Tick \/ UNCHANGED vars \/ \E r \in Rows : Reindex(r)
      PROVE  doomed' = doomed /\ pc' = pc
  BY <1>5 DEF Reset, Tick, Reindex, vars, locals
<1> QED
  BY <1>2, <1>3, <1>4, <1>5 DEF Next

LEMMA BackupsKept ==
  ASSUME RegradesAreSerial, TypeOK, BackupInv, [Next]_vars
  PROVE  BackupInv'
<1>0. /\ pc \in [Passes -> HealSteps \cup RegradeSteps] /\ Regraders \subseteq Passes
      /\ doomed \in [Passes -> SUBSET Rows] /\ state \in [Rows -> {"live", "soft", "gone"}]
      /\ mode \in Modes
  BY DEF TypeOK, Passes
<1>1. ASSUME NEW p \in Regraders, NEW q \in Regraders, p # q, RegradeStep(p)
      PROVE  pc[q] = "idle" /\ ~RegradeStep(q)
  <2>1. pc[q] = "idle"
    <3>1. CASE pc[p] = "idle"
      <4>1. \E allow, open \in BOOLEAN : StartRegrade(p, allow, open)
        BY <1>1, <3>1 DEF RegradeStep, Classify, Export, Gate, Purge, Cleanup, Stamp, ClimbOn
      <4>2. "passes" \notin mode.races
        BY <1>0, <1>1 DEF RegradesAreSerial
      <4> QED  BY <1>0, <4>1, <4>2 DEF StartRegrade, Start
    <3> QED  BY <1>1, <3>1 DEF BackupInv
  <2>2. pc'[q] = "idle"
    <3>1. pc' = pc \/ \E x : pc' = [pc EXCEPT ![p] = x]
      BY <1>1 DEF RegradeStep, StartRegrade, Start, Classify, Export, Gate, Purge,
                  Cleanup, Stamp, ClimbOn, Skip, Goto
    <3> QED  BY <1>0, <1>1, <2>1, <3>1
  <2>3. RegradeStep(q) => pc'[q] # "idle"
    <3>1. ASSUME NEW allow, NEW open, StartRegrade(q, allow, open) PROVE pc'[q] # "idle"
      BY <1>0, <3>1 DEF StartRegrade, Start, Goto
    <3> QED  BY <2>1, <3>1
             DEF RegradeStep, Classify, Export, Gate, Purge, Cleanup, Stamp, ClimbOn
  <2> QED  BY <2>1, <2>2, <2>3
<1>2. \A p, q \in Regraders : p # q => pc'[p] = "idle" \/ pc'[q] = "idle"
  <2> SUFFICES ASSUME NEW p \in Regraders, NEW q \in Regraders, p # q
               PROVE  pc'[p] = "idle" \/ pc'[q] = "idle"
    OBVIOUS
  <2>1. CASE RegradeStep(p)
    BY <1>1, <2>1, OtherRegrades
  <2>2. CASE RegradeStep(q)
    BY <1>1, <2>2, OtherRegrades
  <2> QED  BY <2>1, <2>2, OtherRegrades DEF BackupInv
<1>3. PurgedIsBackedUp'
  <2> SUFFICES ASSUME NEW r \in Rows, state'[r] = "gone" PROVE r \in exports'
    BY DEF PurgedIsBackedUp
  <2>1. CASE state[r] # "gone"
    <3>1. PICK p \in Regraders : Purge(p)
      BY <2>1, WhoPurges
    <3>2. r \in doomed[p] /\ exports' = exports /\ pc[p] = "purge"
      BY <2>1, <3>1 DEF Purge
    <3> QED  BY <3>2 DEF BackupInv
  <2>2. CASE state[r] = "gone"
    <3>1. r \in exports
      BY <2>2 DEF BackupInv, PurgedIsBackedUp
    <3>2. ASSUME NEW p \in Regraders, Cleanup(p) PROVE r \in exports'
      <4>1. r \notin doomed[p]
        BY <2>2, <3>2 DEF BackupInv, Cleanup
      <4> QED  BY <3>1, <3>2, <4>1 DEF Cleanup
    <3> QED  BY <3>1, <3>2, WhoPurges
  <2> QED  BY <2>1, <2>2
<1>4. ASSUME NEW q \in Regraders
      PROVE  /\ pc'[q] \in {"export", "gate", "purge", "cleanup"} =>
                  \A r \in doomed'[q] : state'[r] # "gone"
             /\ pc'[q] = "purge" => doomed'[q] \subseteq exports'
  <2>0. q \in Passes /\ doomed[q] \subseteq Rows
    BY <1>0
  <2>1. CASE RegradeStep(q)
    <3>1. CASE Classify(q)
      <4>1. doomed'[q] = Doomed /\ state' = state
            /\ pc'[q] \in {"settled", "export"}
        BY <1>0, <2>0, <3>1 DEF Classify, Goto
      <4> QED  BY <4>1 DEF Doomed, Live
    <3>2. CASE Export(q) \/ Gate(q)
      <4>1. /\ doomed' = doomed /\ state' = state
            /\ pc[q] \in {"export", "gate"}
            /\ pc'[q] = "purge" => doomed[q] \subseteq exports'
        BY <1>0, <2>0, <3>2 DEF Export, Gate, Skip, Goto, locals, db
      <4> QED  BY <4>1 DEF BackupInv
    <3>3. CASE Purge(q)
      <4>1. /\ doomed' = doomed
            /\ pc'[q] \in {"cleanup", "settled"}
            /\ pc'[q] = "cleanup" => state' = state
            /\ pc[q] = "purge"
        BY <1>0, <2>0, <3>3 DEF Purge, Goto
      <4> QED  BY <4>1 DEF BackupInv
    <3>4. CASE \/ \E allow, open \in BOOLEAN : StartRegrade(q, allow, open)
               \/ Cleanup(q) \/ Stamp(q) \/ ClimbOn(q)
      BY <1>0, <2>0, <3>4 DEF StartRegrade, Start, Cleanup, Stamp, ClimbOn, Skip, Goto
    <3> QED  BY <2>1, <3>1, <3>2, <3>3, <3>4 DEF RegradeStep
  <2>2. CASE ~RegradeStep(q)
    <3>1. doomed'[q] = doomed[q] /\ pc'[q] \in {pc[q], "idle"}
      BY <2>2, OtherRegrades
    <3>2. CASE \E p \in Regraders : RegradeStep(p)
      BY <1>1, <2>2, <3>1, <3>2
    <3>3. CASE ~\E p \in Regraders : RegradeStep(p)
      <4>1. exports \subseteq exports' /\ \A r \in Rows : state'[r] = "gone" => state[r] = "gone"
        BY <3>3, WhoPurges DEF RegradeStep
      <4> QED  BY <2>0, <3>1, <4>1 DEF BackupInv
    <3> QED  BY <3>2, <3>3
  <2> QED  BY <2>1, <2>2
<1> QED
  BY <1>2, <1>3, <1>4 DEF BackupInv

\* Whatever regrades, heals and deaths came before, a row that is gone has its
\* export file (evidence_regrade.rs, "export before purge"), if regrades do not
\* overlap.
THEOREM PurgesAreBackedUp ==
  ASSUME RegradesAreSerial
  PROVE  Spec => []PurgedIsBackedUp
<1>1. Init => BackupInv
  BY DEF Init, BackupInv, PurgedIsBackedUp, Passes
<1>2. TypeOK /\ BackupInv /\ [Next]_vars => BackupInv'
  BY BackupsKept
<1>3. BackupInv => PurgedIsBackedUp
  BY DEF BackupInv
<1> QED
  BY <1>1, <1>2, <1>3, TypeCorrect, PTL DEF Spec

\* Both halves of what a trip promises (breaker.rs, check_bulk_deletion and the
\* epoch roll): it is final, and it is shared by every writer.
THEOREM TripsHold == Spec => TripHolds
BY TripIsFinal, TripIsShared DEF TripHolds

\* Both halves of what deleting row by row promises (heal.rs, the re-check in
\* the row's transaction): no double count, no deletion of an anchored row.
THEOREM DeletesSound == Spec => DeletesAreSound
BY SpentIsReallyDeleted, DeletesOnlyStale DEF DeletesAreSound
=============================================================================
