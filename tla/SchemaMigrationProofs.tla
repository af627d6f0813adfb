----------------------- MODULE SchemaMigrationProofs -----------------------
(***************************************************************************)
(* What no history of opens, deaths and postponements can do to the stamps *)
(* of the schema, for any number of processes that open the brain, any     *)
(* version it is found at and any number of deaths.                        *)
(***************************************************************************)
EXTENDS SchemaMigration, TLAPS

USE OpenersAssumption, LevelsAssumption, BoundsAssumption

LEMMA LadderLength == Len(Ladder) = 26 /\ 1..(Len(Ladder) + 1) = 1..27
<1>1. Len(Ladder) = 26  BY DEF Ladder
<1> QED  BY <1>1

LEMMA LadderSteps == Steps \subseteq 0..28 /\ \A i \in 1..26 : Ladder[i] \in Steps
<1>1. \A i \in 1..26 : Ladder[i] \in 0..28  BY DEF Ladder, Rekey
<1> QED  BY <1>1, LadderLength DEF Steps

(* The version an open works on is one of the ladder.                      *)
LEMMA AtStep ==
  ASSUME TypeOK, NEW p \in Openers, NEW pc, NEW V, AtVersion(p, pc, V)
  PROVE  /\ op[p].pc = pc /\ Version(p) \in V
         /\ op[p].at \in 1..26 /\ op[p].at + 1 \in 1..27
         /\ Version(p) \in Steps /\ Version(p) \in 0..28
<1>1. op[p] \in Opens  BY DEF TypeOK
<1>2. op[p].at \in 1..26  BY <1>1, LadderLength DEF Opens, AtVersion
<1>3. Version(p) \in Steps  BY <1>2, LadderSteps DEF Version
<1>4. Version(p) \in V /\ op[p].pc = pc  BY DEF AtVersion, Version
<1>5. Version(p) \in 0..28  BY <1>3, LadderSteps, Zenon
<1>6. op[p].at + 1 \in 1..27  BY <1>2
<1> QED  BY <1>2, <1>3, <1>4, <1>5, <1>6, Zenon

(* Between a body and its stamp the body is in the database, but for those *)
(* outside a transaction; a gate that was read open stays open.            *)
StampInv ==
  \A p \in Openers :
    /\ op[p].gate = TRUE => 22 \in applied
    /\ op[p].pc = "stamp" =>
         /\ Version(p) \in Bare \cup Altered \cup Split \cup {20, 22, 23, 25, 26, 27, 28}
         /\ Version(p) \notin Bare \cup {28} => Version(p) \in applied
         /\ Version(p) = 20 => flagged # "doomed"
         /\ Version(p) = 25 => op[p].gate = TRUE

IInv == TypeOK /\ StampMeansApplied /\ DeferredIsNotMasked /\ StampInv

LEMMA IInit == Init => IInv
<1> SUFFICES ASSUME Init PROVE IInv  OBVIOUS
<1>1. TypeOK
  <2>1. Closed \in Opens  BY LadderLength DEF Closed, Opens, Stages
  <2>2. op \in [Openers -> Opens]  BY <2>1 DEF Init
  <2>3. \A p \in Openers : op[p].pc = "closed"  BY DEF Init, Closed
  <2>4. stamps \subseteq Versions /\ applied \subseteq Steps /\ torn \subseteq {4, 15}
    BY DEF Init
  <2>5. level \in 0..21 /\ crashes \in 0..MaxCrashes  BY DEF Init
  <2> QED  BY <2>2, <2>3, <2>4, <2>5 DEF Init, TypeOK
<1>2. StampMeansApplied
  BY DEF Init, StampMeansApplied, Versions, Gate, Rekey
<1>3. DeferredIsNotMasked
  <2>1. level \in 0..21  BY DEF Init
  <2>2. ~AtLeast(22)  BY <2>1 DEF Init, AtLeast, Versions
  <2>3. AtLeast(20) => level \in 20..21  BY <2>1 DEF Init, AtLeast, Versions
  <2>4. AtLeast(20) => flagged # "doomed"  BY <2>3 DEF Init
  <2> QED  BY <2>2, <2>4 DEF DeferredIsNotMasked
<1>4. StampInv  BY DEF Init, StampInv, Closed
<1> QED  BY <1>1, <1>2, <1>3, <1>4 DEF IInv

-----------------------------------------------------------------------------
(* A step that changes no stamp and takes back no body, and lets no row    *)
(* become doomed, preserves all but the type of op and StampInv.           *)
LEMMA StampsKept ==
  ASSUME IInv, stamps' = stamps, applied \subseteq applied',
         flagged' = "doomed" => flagged = "doomed"
  PROVE  StampMeansApplied' /\ DeferredIsNotMasked'
BY DEF IInv, StampMeansApplied, DeferredIsNotMasked, AtLeast

(* StampInv of the processes that a step leaves alone.                     *)
LEMMA OthersKept ==
  ASSUME IInv, NEW p \in Openers, NEW q \in Openers,
         op'[q].pc = op[q].pc, op'[q].at = op[q].at, op'[q].gate = op[q].gate,
         applied \ {28} \subseteq applied',
         flagged' = "doomed" => flagged = "doomed"
  PROVE  /\ op'[q].gate = TRUE => 22 \in applied'
         /\ op'[q].pc = "stamp" =>
              /\ Version(q)' \in Bare \cup Altered \cup Split \cup {20, 22, 23, 25, 26, 27, 28}
              /\ Version(q)' \notin Bare \cup {28} => Version(q)' \in applied'
              /\ Version(q)' = 20 => flagged' # "doomed"
              /\ Version(q)' = 25 => op'[q].gate = TRUE
BY DEF IInv, StampInv, Version

(* Advancing leaves no process between a body and its stamp anew.          *)
LEMMA AdvanceStep ==
  ASSUME IInv, NEW p \in Openers, NEW pc, NEW V, AtVersion(p, pc, V), Advance(p),
         applied \ {28} \subseteq applied',
         flagged' = "doomed" => flagged = "doomed"
  PROVE  op' \in [Openers -> Opens] /\ StampInv'
         /\ \A q \in Openers : op'[q].pc = "stamp" => op'[q].at <= Len(Ladder)
<1>1. op \in [Openers -> Opens]  BY DEF IInv, TypeOK
<1>2. op[p].at + 1 \in 1..27  BY AtStep DEF IInv
<1>3. op'[p] = [op[p] EXCEPT !.at = @ + 1, !.pc = "body"]
      /\ \A q \in Openers \ {p} : op'[q] = op[q]
  BY <1>1 DEF Advance
<1>4. op'[p] \in Opens
  <2>1. op[p].at + 1 \in 1..(Len(Ladder) + 1)  BY <1>2, LadderLength
  <2>2. op[p] \in Opens /\ "body" \in Stages  BY <1>1 DEF Stages
  <2> QED  BY <1>3, <2>1, <2>2 DEF Opens
<1>5. op' \in [Openers -> Opens]  BY <1>1, <1>4 DEF Advance
<1>6. op'[p].pc = "body" /\ op'[p].gate = op[p].gate  BY <1>1, <1>3 DEF Opens
<1>7. op'[p].gate = TRUE => 22 \in applied'  BY <1>6 DEF IInv, StampInv
<1>8. StampInv'  BY <1>3, <1>6, <1>7, OthersKept DEF StampInv
<1>9. \A q \in Openers : op'[q].pc = "stamp" => op'[q].at <= Len(Ladder)
  BY <1>3, <1>6 DEF IInv, TypeOK
<1> QED  BY <1>5, <1>8, <1>9

(* So does a step from the body of a version to its stamp, which has run.  *)
LEMMA ToStampStep ==
  ASSUME IInv, NEW p \in Openers,
         NEW V \in SUBSET (Bare \cup Altered \cup Split \cup {20, 22, 23, 26, 27, 28}),
         NEW pc, AtVersion(p, pc, V), ToStamp(p),
         Version(p) \notin Bare => Version(p) \in applied',
         Version(p) = 20 => flagged' # "doomed",
         applied \ {28} \subseteq applied',
         flagged' = "doomed" => flagged = "doomed"
  PROVE  op' \in [Openers -> Opens] /\ StampInv'
         /\ \A q \in Openers : op'[q].pc = "stamp" => op'[q].at <= Len(Ladder)
<1>1. op \in [Openers -> Opens]  BY DEF IInv, TypeOK
<1>2. op[p].at \in 1..26 /\ Version(p) \in V  BY AtStep DEF IInv
<1>3. op'[p] = [op[p] EXCEPT !.pc = "stamp"]
      /\ \A q \in Openers \ {p} : op'[q] = op[q]
  BY <1>1 DEF ToStamp
<1>4. op'[p] \in Opens  BY <1>1, <1>3 DEF Opens, Stages
<1>5. op' \in [Openers -> Opens]  BY <1>1, <1>4 DEF ToStamp
<1>6. op'[p].at = op[p].at /\ op'[p].gate = op[p].gate /\ Version(p)' = Version(p)
  BY <1>1, <1>3 DEF Opens, Version
<1>7. op'[p].gate = TRUE => 22 \in applied'  BY <1>6 DEF IInv, StampInv
<1>8. Version(p) # 25  BY <1>2 DEF Bare, Altered, Split
<1>9. StampInv'
  <2>1. Version(p)' \in Bare \cup Altered \cup Split \cup {20, 22, 23, 25, 26, 27, 28}  BY <1>2, <1>6
  <2>2. Version(p)' \notin Bare => Version(p)' \in applied'  BY <1>6, Zenon
  <2>3. Version(p)' = 20 => flagged' # "doomed"  BY <1>6, Zenon
  <2>4. Version(p)' # 25  BY <1>6, <1>8, Zenon
  <2>5. \A q \in Openers \ {p} : op'[q].pc = op[q].pc /\ op'[q].at = op[q].at
                                   /\ op'[q].gate = op[q].gate
    BY <1>3
  <2> QED  BY <1>7, <2>1, <2>2, <2>3, <2>4, <2>5, OthersKept DEF StampInv
<1>10. ASSUME NEW q \in Openers, op'[q].pc = "stamp"
       PROVE  op'[q].at <= Len(Ladder)
  <2>1. CASE q = p  BY <1>2, <1>6, <2>1, LadderLength
  <2>2. CASE q # p  BY <1>3, <1>10, <2>2 DEF IInv, TypeOK
  <2> QED  BY <2>1, <2>2
<1> QED  BY <1>5, <1>9, <1>10

(* A version below 20 may be stamped when it has run, and so may one that  *)
(* waited for what it could hide.                                          *)
LEMMA StampOne ==
  ASSUME IInv, NEW v \in Versions, stamps' = stamps \cup {v},
         applied \ {28} \subseteq applied', v \in applied' \cup {28},
         flagged' = flagged,
         v < 20 \/ 22 \in applied' \/ (v = 20 /\ flagged # "doomed")
           \/ (v = 21 /\ AtLeast(20))
  PROVE  StampMeansApplied' /\ DeferredIsNotMasked'
<1>1. StampMeansApplied'  BY DEF IInv, StampMeansApplied
<1>2. AtLeast(22)' => AtLeast(22) \/ v >= 22  BY DEF AtLeast
<1>3. AtLeast(20)' => AtLeast(20) \/ v >= 20  BY DEF AtLeast
<1>4. v \in Int  BY DEF Versions
<1>5. 22 \in applied => 22 \in applied'  OBVIOUS
<1> QED  BY <1>1, <1>2, <1>3, <1>4, <1>5 DEF IInv, DeferredIsNotMasked

-----------------------------------------------------------------------------
LEMMA TypeRest ==
  ASSUME IInv, op' \in [Openers -> Opens],
         \A q \in Openers : op'[q].pc = "stamp" => op'[q].at <= Len(Ladder),
         stamps' \subseteq Versions, applied' \subseteq Steps, torn' \subseteq {4, 15},
         flagged' \in {flagged, "exported", "healed"},
         exportable' \in BOOLEAN, configured' \in BOOLEAN,
         level' = level, crashes' \in 0..MaxCrashes
  PROVE  TypeOK'
BY DEF IInv, TypeOK

LEMMA AdvanceOnly ==
  ASSUME IInv, NEW p \in Openers, NEW pc, NEW V, AtVersion(p, pc, V), Advance(p),
         stamps' = stamps, applied' = applied, torn' = torn, UNCHANGED world
  PROVE  IInv'
<1>1. op' \in [Openers -> Opens] /\ StampInv'
      /\ \A q \in Openers : op'[q].pc = "stamp" => op'[q].at <= Len(Ladder)
  BY AdvanceStep DEF world
<1>2. TypeOK'  BY <1>1, TypeRest DEF IInv, TypeOK, world
<1> QED  BY <1>1, <1>2, StampsKept DEF IInv, world

(* The steps that only move the control of one process, out of the climb   *)
(* or along it.                                                            *)
LEMMA MoveStep ==
  ASSUME IInv, NEW p \in Openers, op' \in [Openers -> Opens],
         \A q \in Openers \ {p} : op'[q].pc = op[q].pc /\ op'[q].at = op[q].at
                                  /\ op'[q].gate = op[q].gate,
         op'[p].pc # "stamp", op'[p].gate = TRUE => op[p].gate = TRUE,
         applied' = applied, torn' = torn, stamps' \subseteq Versions,
         stamps \subseteq stamps', stamps' \ stamps \subseteq {1, 2, 3},
         flagged' \in {flagged, "exported", "healed"},
         exportable' \in BOOLEAN, configured' \in BOOLEAN,
         level' = level, crashes' \in 0..MaxCrashes
  PROVE  IInv'
<1>1. TypeOK'  BY TypeRest DEF IInv, TypeOK
<1>2. flagged' = "doomed" => flagged = "doomed"  OBVIOUS
<1>3. StampMeansApplied'
  <2>1. 1 \notin Steps /\ 2 \notin Steps /\ 3 \notin Steps
    BY LadderLength DEF Steps, Ladder, Rekey
  <2> QED  BY <2>1 DEF IInv, StampMeansApplied
<1>4. DeferredIsNotMasked'
  BY <1>2 DEF IInv, DeferredIsNotMasked, AtLeast
<1>5. StampInv'
  <2>1. op'[p].gate = TRUE => 22 \in applied'  BY DEF IInv, StampInv
  <2> QED  BY <1>2, <2>1, OthersKept DEF StampInv
<1> QED  BY <1>1, <1>3, <1>4, <1>5 DEF IInv

LEMMA StartKeeps == ASSUME IInv, NEW p \in Openers, Start(p) PROVE IInv'
<1> DEFINE new == [Closed EXCEPT !.pc = "read", !.rooted = (p \in Rooted /\ configured),
                     !.alone = ({q \in Openers \ {p} : Climbing(q)} = {}),
                     !.settled = (flagged # "doomed")]
<1>1. op \in [Openers -> Opens] /\ configured \in BOOLEAN  BY DEF IInv, TypeOK
<1>2. new \in Opens
  <2>1. Closed \in Opens  BY LadderLength DEF Closed, Opens, Stages
  <2>2. (p \in Rooted /\ configured) \in BOOLEAN
        /\ ({q \in Openers \ {p} : Climbing(q)} = {}) \in BOOLEAN
        /\ (flagged # "doomed") \in BOOLEAN
    OBVIOUS
  <2> QED  BY <2>1, <2>2 DEF Opens, Stages
<1>3. new.pc = "read" /\ new.gate = FALSE  BY DEF Closed
<1>4. op' = [q \in Openers |-> IF q = p THEN new
              ELSE IF q \in {r \in Openers \ {p} : Climbing(r)}
                   THEN [op[q] EXCEPT !.alone = FALSE] ELSE op[q]]
  BY DEF Start
<1>5. op' \in [Openers -> Opens]
  <2>1. \A q \in Openers : [op[q] EXCEPT !.alone = FALSE] \in Opens  BY <1>1 DEF Opens
  <2> HIDE DEF new
  <2> QED  BY <1>1, <1>2, <1>4, <2>1
<1>6. op'[p] = new  BY <1>4
<1>7. ASSUME NEW q \in Openers \ {p}
      PROVE  op'[q].pc = op[q].pc /\ op'[q].at = op[q].at /\ op'[q].gate = op[q].gate
  <2>1. op'[q] = [op[q] EXCEPT !.alone = FALSE] \/ op'[q] = op[q]
    <3> HIDE DEF new
    <3> QED  BY <1>4
  <2>2. op[q] \in Opens  BY <1>1
  <2> QED  BY <2>1, <2>2 DEF Opens
<1>8. stamps' \subseteq Versions /\ stamps \subseteq stamps' /\ stamps' \ stamps \subseteq {1, 2, 3}
  <2>1. stamps' = stamps \cup {1, 2, 3}  BY Zenon DEF Start
  <2>2. stamps \subseteq Versions  BY DEF IInv, TypeOK
  <2> QED  BY <2>1, <2>2 DEF Versions
<1>9. op'[p].pc # "stamp" /\ op'[p].gate # TRUE  BY <1>3, <1>6
<1>10. UNCHANGED <<applied, torn>> /\ UNCHANGED world  BY DEF Start
<1>11. /\ flagged' = flagged /\ level' = level /\ crashes' \in 0..MaxCrashes
       /\ exportable' \in BOOLEAN /\ configured' \in BOOLEAN
  BY <1>10 DEF IInv, TypeOK, world
<1>12. applied' = applied /\ torn' = torn  BY <1>10
<1> HIDE DEF new
<1> QED  BY <1>5, <1>7, <1>8, <1>9, <1>11, <1>12, MoveStep, Zenon

(* A step of one process that sets fields of its own open, but not into    *)
(* the stamp of a version.                                                 *)
LEMMA MoveOwn ==
  ASSUME IInv, NEW p \in Openers, NEW new \in Opens, op' = [op EXCEPT ![p] = new],
         new.pc # "stamp", new.gate = TRUE => op[p].gate = TRUE,
         UNCHANGED brain,
         flagged' \in {flagged, "exported", "healed"},
         exportable' \in BOOLEAN, configured' \in BOOLEAN,
         level' = level, crashes' \in 0..MaxCrashes
  PROVE  IInv'
<1>1. op \in [Openers -> Opens]  BY DEF IInv, TypeOK
<1>2. op' \in [Openers -> Opens] /\ op'[p] = new
      /\ \A q \in Openers \ {p} : op'[q] = op[q]
  BY <1>1
<1>3. stamps \subseteq Versions  BY DEF IInv, TypeOK
<1> QED  BY <1>2, <1>3, MoveStep DEF brain

LEMMA WorldKept ==
  ASSUME IInv, UNCHANGED world
  PROVE  /\ flagged' = flagged /\ level' = level /\ crashes' \in 0..MaxCrashes
         /\ exportable' \in BOOLEAN /\ configured' \in BOOLEAN
BY DEF IInv, TypeOK, world

LEMMA ReadKeeps == ASSUME IInv, NEW p \in Openers, ReadVersion(p) PROVE IInv'
<1>1. op[p] \in Opens  BY DEF IInv, TypeOK
<1>2. PICK max \in stamps : op' = [op EXCEPT ![p].pc = "body", ![p].ver = max]
  BY DEF ReadVersion
<1>3. max \in 0..28  BY DEF IInv, TypeOK, Versions
<1> DEFINE new == [op[p] EXCEPT !.pc = "body", !.ver = max]
<1>4. new \in Opens  BY <1>1, <1>3 DEF Opens, Stages
<1>5. new.pc = "body" /\ new.gate = op[p].gate  BY <1>1 DEF Opens
<1>6. op' = [op EXCEPT ![p] = new]  BY <1>2
<1>7. UNCHANGED brain /\ UNCHANGED world  BY DEF ReadVersion
<1> HIDE DEF new
<1> QED  BY <1>4, <1>5, <1>6, <1>7, WorldKept, MoveOwn

LEMMA SkipKeeps == ASSUME IInv, NEW p \in Openers, SkipVersions(p) PROVE IInv'
<1>1. op[p] \in Opens  BY DEF IInv, TypeOK
<1>2. PICK next \in (op[p].at + 1)..(Len(Ladder) + 1) : op' = [op EXCEPT ![p].at = next]
  BY DEF SkipVersions
<1>3. next \in 1..(Len(Ladder) + 1)  BY <1>1, <1>2, LadderLength DEF Opens
<1> DEFINE new == [op[p] EXCEPT !.at = next]
<1>4. new \in Opens  BY <1>1, <1>3 DEF Opens
<1>5. new.pc = "body" /\ new.gate = op[p].gate  BY <1>1 DEF Opens, SkipVersions
<1>6. op' = [op EXCEPT ![p] = new]  BY <1>2
<1>7. UNCHANGED brain /\ UNCHANGED world  BY DEF SkipVersions
<1> HIDE DEF new
<1> QED  BY <1>4, <1>5, <1>6, <1>7, WorldKept, MoveOwn

(* Steps that only set the stage.                                          *)
LEMMA StageKeeps ==
  ASSUME IInv, NEW p \in Openers, NEW pc \in Stages \ {"stamp"},
         op' = [op EXCEPT ![p].pc = pc], UNCHANGED brain,
         flagged' = flagged, level' = level, crashes' \in 0..MaxCrashes,
         exportable' \in BOOLEAN, configured' \in BOOLEAN
  PROVE  IInv'
<1>1. op[p] \in Opens  BY DEF IInv, TypeOK
<1> DEFINE new == [op[p] EXCEPT !.pc = pc]
<1>2. new \in Opens  BY <1>1 DEF Opens
<1>3. new.pc = pc /\ new.gate = op[p].gate  BY <1>1 DEF Opens
<1>4. op' = [op EXCEPT ![p] = new]  OBVIOUS
<1> HIDE DEF new
<1> QED  BY <1>2, <1>3, <1>4, MoveOwn

LEMMA ErrorKeeps == ASSUME IInv, NEW p \in Openers, SchemaError(p) PROVE IInv'
<1>1. op' = [op EXCEPT ![p].pc = "error"] /\ UNCHANGED brain /\ UNCHANGED world
  BY DEF SchemaError
<1>2. "error" \in Stages \ {"stamp"}  BY DEF Stages
<1> QED  BY <1>1, <1>2, WorldKept, StageKeeps

LEMMA FinishKeeps == ASSUME IInv, NEW p \in Openers, Finish(p) PROVE IInv'
<1>1. PICK pc \in {"open", "error"} : op' = [op EXCEPT ![p].pc = pc]
  BY DEF Finish
<1>2. UNCHANGED brain /\ UNCHANGED world  BY DEF Finish
<1>3. pc \in Stages \ {"stamp"}  BY <1>1 DEF Stages
<1> QED  BY <1>1, <1>2, <1>3, WorldKept, StageKeeps

LEMMA DieKeeps == ASSUME IInv, NEW p \in Openers, Die(p) PROVE IInv'
<1>1. /\ op' = [op EXCEPT ![p].pc = "killed"] /\ UNCHANGED brain
      /\ UNCHANGED <<flagged, exportable, configured, level>>
  BY DEF Die
<1>2. crashes' \in 0..MaxCrashes  BY DEF Die, IInv, TypeOK
<1>3. "killed" \in Stages \ {"stamp"}  BY DEF Stages
<1>4. exportable' \in BOOLEAN /\ configured' \in BOOLEAN  BY <1>1 DEF IInv, TypeOK
<1> QED  BY <1>1, <1>2, <1>3, <1>4, StageKeeps

LEMMA QuitKeeps == ASSUME IInv, NEW p \in Openers, Quit(p) PROVE IInv'
<1>1. Closed \in Opens  BY LadderLength DEF Closed, Opens, Stages
<1>2. Closed.pc # "stamp" /\ Closed.gate # TRUE  BY DEF Closed
<1>3. op' = [op EXCEPT ![p] = Closed] /\ UNCHANGED brain /\ UNCHANGED world
  BY DEF Quit
<1> QED  BY <1>1, <1>2, <1>3, WorldKept, MoveOwn

-----------------------------------------------------------------------------
(* The steps of the world around the opens.                                *)
LEMMA WorldKeeps ==
  ASSUME IInv, Configure \/ UnblockExport \/ ManualRegrade \/ Heal
  PROVE  IInv'
<1>1. UNCHANGED brain /\ UNCHANGED op /\ UNCHANGED level /\ UNCHANGED crashes
  BY DEF Configure, UnblockExport, ManualRegrade, Heal
<1>2. flagged' \in {flagged, "exported", "healed"}
  BY DEF Configure, UnblockExport, ManualRegrade, Heal
<1>3. exportable' \in BOOLEAN /\ configured' \in BOOLEAN
  BY DEF Configure, UnblockExport, ManualRegrade, Heal, IInv, TypeOK
<1>4. op' = op  BY <1>1 DEF IInv, TypeOK
<1>5. TypeOK'  BY <1>1, <1>2, <1>3, TypeRest DEF IInv, TypeOK, brain
<1>6. flagged' = "doomed" => flagged = "doomed"  BY <1>2
<1>7. StampMeansApplied' /\ DeferredIsNotMasked'  BY <1>1, <1>6, StampsKept DEF brain
<1>8. StampInv'  BY <1>1, <1>4, <1>6, OthersKept DEF StampInv, brain
<1> QED  BY <1>5, <1>7, <1>8 DEF IInv

-----------------------------------------------------------------------------
(* The bodies and the stamps.  What a body and a stamp leave, given where  *)
(* the process goes.                                                       *)
LEMMA ClimbKeeps ==
  ASSUME IInv,
         op' \in [Openers -> Opens] /\ StampInv',
         \A q \in Openers : op'[q].pc = "stamp" => op'[q].at <= Len(Ladder),
         stamps' \subseteq Versions, applied' \subseteq Steps, torn' \subseteq {4, 15},
         UNCHANGED world,
         StampMeansApplied' /\ DeferredIsNotMasked'
  PROVE  IInv'
BY WorldKept, TypeRest DEF IInv

LEMMA TransactionalKeeps == ASSUME IInv, NEW p \in Openers, TransactionalVersion(p) PROVE IInv'
<1>1. AtVersion(p, "body", Transactional) /\ Advance(p) /\ UNCHANGED torn /\ UNCHANGED world
      /\ applied' = applied \cup {Version(p)} /\ stamps' = stamps \cup {Version(p)}
  BY DEF TransactionalVersion
<1>2. Version(p) \in Transactional /\ Version(p) \in Steps
  BY <1>1, AtStep DEF IInv
<1>3. Version(p) \in Versions /\ Version(p) < 20  BY <1>2 DEF Transactional, Versions
<1>4. applied \ {28} \subseteq applied' /\ flagged' = flagged  BY <1>1 DEF world
<1>5. op' \in [Openers -> Opens] /\ StampInv'
      /\ \A q \in Openers : op'[q].pc = "stamp" => op'[q].at <= Len(Ladder)
  BY <1>1, <1>4, AdvanceStep
<1>6. StampMeansApplied' /\ DeferredIsNotMasked'  BY <1>1, <1>3, <1>4, StampOne
<1>7. stamps' \subseteq Versions /\ applied' \subseteq Steps /\ torn' \subseteq {4, 15}
  BY <1>1, <1>2, <1>3 DEF IInv, TypeOK
<1> QED  BY <1>1, <1>5, <1>6, <1>7, ClimbKeeps

LEMMA RekeyKeeps == ASSUME IInv, NEW p \in Openers, RekeyChunks(p) PROVE IInv'
<1>1. AtVersion(p, "body", {Rekey}) /\ Advance(p) /\ UNCHANGED <<stamps, torn>>
      /\ UNCHANGED world /\ applied' = applied \cup {Rekey}
  BY DEF RekeyChunks
<1>2. Rekey \in Steps  BY <1>1, AtStep DEF IInv
<1>3. applied \subseteq applied' /\ flagged' = flagged  BY <1>1 DEF world
<1>4. op' \in [Openers -> Opens] /\ StampInv'
      /\ \A q \in Openers : op'[q].pc = "stamp" => op'[q].at <= Len(Ladder)
  BY <1>1, <1>3, AdvanceStep
<1>5. StampMeansApplied' /\ DeferredIsNotMasked'  BY <1>1, <1>3, StampsKept
<1>6. stamps' \subseteq Versions /\ applied' \subseteq Steps /\ torn' \subseteq {4, 15}
  BY <1>1, <1>2 DEF IInv, TypeOK
<1> QED  BY <1>1, <1>4, <1>5, <1>6, ClimbKeeps

LEMMA BareBeginKeeps == ASSUME IInv, NEW p \in Openers, BareBegin(p) PROVE IInv'
<1>1. AtVersion(p, "body", Bare) /\ ToStamp(p) /\ UNCHANGED <<stamps, applied>>
      /\ UNCHANGED world /\ torn' = torn \cup {Version(p)}
  BY DEF BareBegin
<1>2. Version(p) \in Bare  BY <1>1, AtStep DEF IInv
<1>3. Version(p) # 20  BY <1>2 DEF Bare
<1>4. flagged' = flagged /\ applied \subseteq applied'  BY <1>1 DEF world
<1>5. op' \in [Openers -> Opens] /\ StampInv'
      /\ \A q \in Openers : op'[q].pc = "stamp" => op'[q].at <= Len(Ladder)
  BY <1>1, <1>2, <1>3, <1>4, ToStampStep
<1>6. StampMeansApplied' /\ DeferredIsNotMasked'  BY <1>1, <1>4, StampsKept
<1>7. stamps' \subseteq Versions /\ applied' \subseteq Steps /\ torn' \subseteq {4, 15}
  BY <1>1, <1>2 DEF IInv, TypeOK, Bare
<1> QED  BY <1>1, <1>5, <1>6, <1>7, ClimbKeeps

LEMMA BareEndKeeps == ASSUME IInv, NEW p \in Openers, BareEnd(p) PROVE IInv'
<1>1. AtVersion(p, "stamp", Bare) /\ Advance(p) /\ UNCHANGED world
      /\ torn' = torn \ {Version(p)} /\ stamps' = stamps \cup {Version(p)}
      /\ applied' = (applied \cup {Version(p)}) \ (IF Version(p) = 15 THEN {28} ELSE {})
  BY DEF BareEnd
<1>2. Version(p) \in Bare /\ Version(p) \in Steps  BY <1>1, AtStep DEF IInv
<1>3. Version(p) \in Versions /\ Version(p) < 20  BY <1>2 DEF Bare, Versions
<1>4. applied \ {28} \subseteq applied' /\ Version(p) \in applied'  BY <1>1, <1>3
<1>5. flagged' = flagged  BY <1>1 DEF world
<1>6. op' \in [Openers -> Opens] /\ StampInv'
      /\ \A q \in Openers : op'[q].pc = "stamp" => op'[q].at <= Len(Ladder)
  BY <1>1, <1>4, <1>5, AdvanceStep
<1>7. StampMeansApplied' /\ DeferredIsNotMasked'  BY <1>1, <1>3, <1>4, <1>5, StampOne
<1>8. stamps' \subseteq Versions /\ torn' \subseteq {4, 15}
  BY <1>1, <1>3 DEF IInv, TypeOK
<1>9. applied' \subseteq Steps  BY <1>1, <1>2 DEF IInv, TypeOK
<1> QED  BY <1>1, <1>6, <1>7, <1>8, <1>9, ClimbKeeps

LEMMA LookKeeps == ASSUME IInv, NEW p \in Openers, LookAtColumns(p) PROVE IInv'
<1>1. AtVersion(p, "body", Altered) /\ UNCHANGED brain /\ UNCHANGED world
  BY DEF LookAtColumns
<1>2. Version(p) \in Altered  BY <1>1, AtStep DEF IInv
<1>3. \/ ToStamp(p) /\ Version(p) \in applied
      \/ op' = [op EXCEPT ![p].pc = "alter"]
  BY DEF LookAtColumns, ToStamp
<1>4. CASE op' = [op EXCEPT ![p].pc = "alter"]
  <2>1. "alter" \in Stages \ {"stamp"}  BY DEF Stages
  <2> QED  BY <1>1, <1>4, <2>1, WorldKept, StageKeeps
<1>5. CASE ToStamp(p) /\ Version(p) \in applied
  <2>1. Version(p) # 20 /\ Altered \in SUBSET (Bare \cup Altered \cup Split \cup {20, 22, 23, 26, 27, 28})
    BY <1>2 DEF Altered
  <2>2. /\ flagged' = flagged /\ applied' = applied /\ stamps' = stamps /\ torn' = torn
    BY <1>1 DEF world, brain
  <2>3. op' \in [Openers -> Opens] /\ StampInv'
        /\ \A q \in Openers : op'[q].pc = "stamp" => op'[q].at <= Len(Ladder)
    BY <1>1, <1>5, <2>1, <2>2, ToStampStep
  <2>4. StampMeansApplied' /\ DeferredIsNotMasked'  BY <2>2, StampsKept
  <2>5. stamps' \subseteq Versions /\ applied' \subseteq Steps /\ torn' \subseteq {4, 15}
    BY <2>2 DEF IInv, TypeOK
  <2> QED  BY <1>1, <2>3, <2>4, <2>5, ClimbKeeps
<1> QED  BY <1>3, <1>4, <1>5

LEMMA AddKeeps == ASSUME IInv, NEW p \in Openers, AddColumns(p) PROVE IInv'
<1>1. AtVersion(p, "alter", Altered) /\ ToStamp(p) /\ UNCHANGED <<stamps, torn>>
      /\ UNCHANGED world /\ applied' = applied \cup {Version(p)}
  BY DEF AddColumns
<1>2. Version(p) \in Altered /\ Version(p) \in Steps  BY <1>1, AtStep DEF IInv
<1>3. Version(p) # 20 /\ Altered \in SUBSET (Bare \cup Altered \cup Split \cup {20, 22, 23, 26, 27, 28})
  BY <1>2 DEF Altered
<1>4. flagged' = flagged /\ applied \subseteq applied' /\ Version(p) \in applied'
  BY <1>1 DEF world
<1>5. op' \in [Openers -> Opens] /\ StampInv'
      /\ \A q \in Openers : op'[q].pc = "stamp" => op'[q].at <= Len(Ladder)
  BY <1>1, <1>3, <1>4, ToStampStep
<1>6. StampMeansApplied' /\ DeferredIsNotMasked'  BY <1>1, <1>4, StampsKept
<1>7. stamps' \subseteq Versions /\ applied' \subseteq Steps /\ torn' \subseteq {4, 15}
  BY <1>1, <1>2 DEF IInv, TypeOK
<1> QED  BY <1>1, <1>5, <1>6, <1>7, ClimbKeeps

LEMMA SplitBodyKeeps == ASSUME IInv, NEW p \in Openers, SplitBody(p) PROVE IInv'
<1>1. AtVersion(p, "body", Split) /\ ToStamp(p) /\ UNCHANGED <<stamps, torn>>
      /\ UNCHANGED world /\ applied' = applied \cup {Version(p)}
  BY DEF SplitBody
<1>2. Version(p) \in Split /\ Version(p) \in Steps  BY <1>1, AtStep DEF IInv
<1>3. Version(p) # 20  BY <1>2 DEF Split
<1>4. flagged' = flagged /\ applied \subseteq applied' /\ Version(p) \in applied'
  BY <1>1 DEF world
<1>5. op' \in [Openers -> Opens] /\ StampInv'
      /\ \A q \in Openers : op'[q].pc = "stamp" => op'[q].at <= Len(Ladder)
  BY <1>1, <1>3, <1>4, ToStampStep
<1>6. StampMeansApplied' /\ DeferredIsNotMasked'  BY <1>1, <1>4, StampsKept
<1>7. stamps' \subseteq Versions /\ applied' \subseteq Steps /\ torn' \subseteq {4, 15}
  BY <1>1, <1>2 DEF IInv, TypeOK
<1> QED  BY <1>1, <1>5, <1>6, <1>7, ClimbKeeps

LEMMA SplitStampKeeps == ASSUME IInv, NEW p \in Openers, SplitStamp(p) PROVE IInv'
<1>1. AtVersion(p, "stamp", Altered \cup Split \cup {20, 22}) /\ Advance(p) /\ UNCHANGED <<applied, torn>>
      /\ UNCHANGED world /\ stamps' = stamps \cup {Version(p)}
  BY DEF SplitStamp
<1>2. op[p].pc = "stamp" /\ Version(p) \in Altered \cup Split \cup {20, 22}  BY <1>1, AtStep DEF IInv
<1>3. Version(p) \in Versions /\ Version(p) \notin Bare \cup {28}
      /\ (Version(p) < 20 \/ Version(p) = 20 \/ Version(p) = 22)
  BY <1>2 DEF Altered, Split, Bare, Versions
<1>4. Version(p) \in applied /\ (Version(p) = 20 => flagged # "doomed")
  BY <1>2, <1>3 DEF IInv, StampInv
<1>5. flagged' = flagged /\ applied' = applied  BY <1>1 DEF world
<1>6. op' \in [Openers -> Opens] /\ StampInv'
      /\ \A q \in Openers : op'[q].pc = "stamp" => op'[q].at <= Len(Ladder)
  BY <1>1, <1>5, AdvanceStep
<1>7. StampMeansApplied' /\ DeferredIsNotMasked'  BY <1>1, <1>3, <1>4, <1>5, StampOne
<1>8. stamps' \subseteq Versions /\ applied' \subseteq Steps /\ torn' \subseteq {4, 15}
  BY <1>1, <1>3 DEF IInv, TypeOK
<1> QED  BY <1>1, <1>6, <1>7, <1>8, ClimbKeeps

LEMMA RegradeKeeps == ASSUME IInv, NEW p \in Openers, Regrade(p) PROVE IInv'
<1>1. AtVersion(p, "body", {20})
      /\ UNCHANGED <<stamps, torn, exportable, configured, level, crashes>>
  BY DEF Regrade
<1>2. Version(p) = 20 /\ 20 \in Steps  BY <1>1, AtStep DEF IInv
<1>3. flagged' \in {flagged, "exported"} /\ applied' \in {applied, applied \cup {20}}
  BY DEF Regrade
<1>4. (flagged' = "doomed" => flagged = "doomed") /\ applied \subseteq applied'  BY <1>3
<1>5. op' \in [Openers -> Opens] /\ StampInv'
      /\ \A q \in Openers : op'[q].pc = "stamp" => op'[q].at <= Len(Ladder)
  <2>1. CASE ToStamp(p) /\ 20 \in applied' /\ flagged' # "doomed"
    BY <1>1, <1>2, <1>4, <2>1, ToStampStep
  <2>2. CASE Advance(p)  BY <1>1, <1>4, <2>2, AdvanceStep
  <2>3. \/ ToStamp(p) /\ 20 \in applied' /\ flagged' # "doomed"
        \/ Advance(p)
    BY DEF Regrade
  <2> QED  BY <2>1, <2>2, <2>3
<1>6. StampMeansApplied' /\ DeferredIsNotMasked'  BY <1>1, <1>4, StampsKept
<1>7. stamps' \subseteq Versions /\ applied' \subseteq Steps /\ torn' \subseteq {4, 15}
  BY <1>1, <1>2, <1>3 DEF IInv, TypeOK
<1>8. TypeOK'  BY <1>1, <1>3, <1>5, <1>7, TypeRest DEF IInv, TypeOK
<1> QED  BY <1>5, <1>6, <1>8 DEF IInv

LEMMA ReviewedByKeeps == ASSUME IInv, NEW p \in Openers, ReviewedBy(p) PROVE IInv'
<1>1. AtVersion(p, "body", {21}) /\ Advance(p) /\ UNCHANGED torn /\ UNCHANGED world
  BY DEF ReviewedBy
<1>2. 21 \in Steps  BY <1>1, AtStep DEF IInv
<1>3. \/ AtLeast(20) /\ applied' = applied \cup {21} /\ stamps' = stamps \cup {21}
      \/ applied' = applied /\ stamps' = stamps
  BY DEF ReviewedBy
<1>4. applied \subseteq applied' /\ flagged' = flagged  BY <1>1, <1>3 DEF world
<1>5. op' \in [Openers -> Opens] /\ StampInv'
      /\ \A q \in Openers : op'[q].pc = "stamp" => op'[q].at <= Len(Ladder)
  BY <1>1, <1>4, AdvanceStep
<1>6. 21 \in Versions  BY DEF Versions
<1>7. StampMeansApplied' /\ DeferredIsNotMasked'
  <2>1. CASE stamps' = stamps  BY <2>1, <1>4, StampsKept
  <2>2. CASE AtLeast(20) /\ applied' = applied \cup {21} /\ stamps' = stamps \cup {21}
    BY <2>2, <1>4, <1>6, StampOne
  <2> QED  BY <1>3, <2>1, <2>2
<1>8. stamps' \subseteq Versions /\ applied' \subseteq Steps /\ torn' \subseteq {4, 15}
  BY <1>1, <1>2, <1>3, <1>6 DEF IInv, TypeOK
<1> QED  BY <1>1, <1>5, <1>7, <1>8, ClimbKeeps

LEMMA UnifyKeeps == ASSUME IInv, NEW p \in Openers, UnifyPaths(p) PROVE IInv'
<1>1. AtVersion(p, "body", {22}) /\ UNCHANGED <<stamps, torn>> /\ UNCHANGED world
  BY DEF UnifyPaths
<1>2. Version(p) = 22 /\ 22 \in Steps  BY <1>1, AtStep DEF IInv
<1>3. \/ applied' = applied \cup {22} /\ ToStamp(p)
      \/ Advance(p) /\ applied' = applied
  BY DEF UnifyPaths
<1>4. applied \subseteq applied' /\ flagged' = flagged  BY <1>1, <1>3 DEF world
<1>5. op' \in [Openers -> Opens] /\ StampInv'
      /\ \A q \in Openers : op'[q].pc = "stamp" => op'[q].at <= Len(Ladder)
  <2>1. CASE applied' = applied \cup {22} /\ ToStamp(p)
    <3>1. {22} \in SUBSET (Bare \cup Altered \cup Split \cup {20, 22, 23, 26, 27, 28})
      OBVIOUS
    <3>2. (Version(p) \notin Bare => Version(p) \in applied') /\ Version(p) # 20
      BY <1>2, <2>1
    <3>3. applied \ {28} \subseteq applied' /\ (flagged' = "doomed" => flagged = "doomed")
      BY <1>4
    <3> QED  BY <1>1, <2>1, <3>1, <3>2, <3>3, ToStampStep
  <2>2. CASE Advance(p)  BY <1>1, <1>4, <2>2, AdvanceStep
  <2> QED  BY <1>3, <2>1, <2>2
<1>6. StampMeansApplied' /\ DeferredIsNotMasked'  BY <1>1, <1>4, StampsKept
<1>7. stamps' \subseteq Versions /\ applied' \subseteq Steps /\ torn' \subseteq {4, 15}
  BY <1>1, <1>2, <1>3 DEF IInv, TypeOK
<1> QED  BY <1>1, <1>5, <1>6, <1>7, ClimbKeeps

LEMMA EveryOpenBodyKeeps == ASSUME IInv, NEW p \in Openers, EveryOpenBody(p) PROVE IInv'
<1>1. AtVersion(p, "body", {23, 26, 27, 28}) /\ ToStamp(p) /\ UNCHANGED <<stamps, torn>>
      /\ UNCHANGED world /\ applied' = applied \cup {Version(p)}
  BY DEF EveryOpenBody
<1>2. Version(p) \in {23, 26, 27, 28} /\ Version(p) \in Steps  BY <1>1, AtStep DEF IInv
<1>3. Version(p) # 20  BY <1>2
<1>4. flagged' = flagged /\ applied \subseteq applied' /\ Version(p) \in applied'
  BY <1>1 DEF world
<1>5. op' \in [Openers -> Opens] /\ StampInv'
      /\ \A q \in Openers : op'[q].pc = "stamp" => op'[q].at <= Len(Ladder)
  BY <1>1, <1>3, <1>4, ToStampStep
<1>6. StampMeansApplied' /\ DeferredIsNotMasked'  BY <1>1, <1>4, StampsKept
<1>7. stamps' \subseteq Versions /\ applied' \subseteq Steps /\ torn' \subseteq {4, 15}
  BY <1>1, <1>2 DEF IInv, TypeOK
<1> QED  BY <1>1, <1>5, <1>6, <1>7, ClimbKeeps

(* Steps that set the gate, which is read open only when V22 is stamped.   *)
LEMMA GateStep ==
  ASSUME IInv, NEW p \in Openers, NEW new \in Opens, op' = [op EXCEPT ![p] = new],
         new.gate = TRUE => 22 \in applied,
         new.pc = "body" \/ (new.pc = "stamp" /\ new.at = op[p].at /\ new.at <= Len(Ladder)
                             /\ Version(p) = 25 /\ 25 \in applied' /\ new.gate = TRUE),
         applied \subseteq applied', flagged' = flagged
  PROVE  op' \in [Openers -> Opens] /\ StampInv'
         /\ \A q \in Openers : op'[q].pc = "stamp" => op'[q].at <= Len(Ladder)
<1>1. op \in [Openers -> Opens]  BY DEF IInv, TypeOK
<1>2. op' \in [Openers -> Opens] /\ op'[p] = new
      /\ \A q \in Openers \ {p} : op'[q] = op[q]
  BY <1>1
<1>3. op'[p].pc = "stamp" => Version(p)' = 25
  BY <1>2 DEF Version
<1>4. StampInv'
  <2>1. 25 \notin Bare /\ 25 # 28 /\ 25 # 20  BY DEF Bare
  <2>2. op'[p].pc = "stamp" => 25 \in applied' /\ op'[p].gate = TRUE  BY <1>2
  <2>3. op'[p].gate = TRUE => 22 \in applied'  BY <1>2
  <2>4. \A q \in Openers \ {p} : op'[q].pc = op[q].pc /\ op'[q].at = op[q].at
                                   /\ op'[q].gate = op[q].gate
    BY <1>2
  <2>5. op'[p].pc = "stamp" =>
          /\ Version(p)' \in Bare \cup Altered \cup Split \cup {20, 22, 23, 25, 26, 27, 28}
          /\ Version(p)' \notin Bare \cup {28} => Version(p)' \in applied'
          /\ Version(p)' = 20 => flagged' # "doomed"
          /\ Version(p)' = 25 => op'[p].gate = TRUE
    BY <1>3, <2>1, <2>2
  <2>6. applied \ {28} \subseteq applied' /\ (flagged' = "doomed" => flagged = "doomed")
    OBVIOUS
  <2> QED  BY <2>3, <2>4, <2>5, <2>6, OthersKept DEF StampInv
<1>5. \A q \in Openers : op'[q].pc = "stamp" => op'[q].at <= Len(Ladder)
  BY <1>2 DEF IInv, TypeOK
<1> QED  BY <1>2, <1>4, <1>5

LEMMA OpenGate ==
  ASSUME IInv, NEW p \in Openers
  PROVE  /\ AtLeast(22) => 22 \in applied
         /\ op[p].gate = TRUE => 22 \in applied
         /\ op[p].gate \in BOOLEAN /\ AtLeast(22) \in BOOLEAN
<1>1. op[p] \in Opens  BY DEF IInv, TypeOK
<1>2. op[p].gate \in BOOLEAN  BY <1>1 DEF Opens
<1>3. AtLeast(22) \in BOOLEAN  BY DEF AtLeast
<1>4. AtLeast(22) => 22 \in applied  BY DEF IInv, DeferredIsNotMasked
<1>5. op[p].gate = TRUE => 22 \in applied  BY DEF IInv, StampInv
<1> QED  BY <1>2, <1>3, <1>4, <1>5, Zenon

LEMMA EveryOpenStampKeeps == ASSUME IInv, NEW p \in Openers, EveryOpenStamp(p) PROVE IInv'
<1> DEFINE v == Version(p)
           gate == IF v = 26 THEN op[p].gate ELSE AtLeast(22)
           new == [op[p] EXCEPT !.at = @ + 1, !.pc = "body", !.gate = gate]
<1>1. /\ AtVersion(p, "stamp", {23, 26, 27, 28})
      /\ stamps' = IF gate THEN stamps \cup {v} ELSE stamps
      /\ op' = [op EXCEPT ![p] = new]
      /\ UNCHANGED <<applied, torn>> /\ UNCHANGED world
  BY DEF EveryOpenStamp
<1>2. op[p].pc = "stamp" /\ v \in {23, 26, 27, 28} /\ op[p].at + 1 \in 1..27
  BY <1>1, AtStep DEF IInv
<1>3. gate \in BOOLEAN /\ (gate = TRUE => 22 \in applied)  BY OpenGate
<1>4. op[p] \in Opens  BY DEF IInv, TypeOK
<1> HIDE DEF gate
<1>5. new \in Opens
  <2>1. op[p].at + 1 \in 1..(Len(Ladder) + 1)  BY <1>2, LadderLength
  <2>2. "body" \in Stages  BY DEF Stages
  <2> QED  BY <1>3, <1>4, <2>1, <2>2 DEF Opens
<1>6. new.pc = "body" /\ new.gate = gate  BY <1>4 DEF Opens
<1>7. flagged' = flagged /\ applied' = applied  BY <1>1 DEF world
<1>8. v \in Versions /\ v \in applied' \cup {28}
  <2>1. v \notin Bare  BY <1>2 DEF Bare
  <2>2. v \notin {28} => v \in applied  BY <1>2, <2>1 DEF IInv, StampInv
  <2> QED  BY <1>2, <1>7, <2>2 DEF Versions
<1> HIDE DEF v, new
<1>9. op' \in [Openers -> Opens] /\ StampInv'
      /\ \A q \in Openers : op'[q].pc = "stamp" => op'[q].at <= Len(Ladder)
  BY <1>1, <1>3, <1>5, <1>6, <1>7, GateStep
<1>10. StampMeansApplied' /\ DeferredIsNotMasked'
  <2>1. CASE gate = TRUE  BY <1>1, <1>3, <1>7, <1>8, <2>1, StampOne
  <2>2. CASE gate = FALSE  BY <1>1, <1>7, <2>2, StampsKept
  <2> QED  BY <1>3, <2>1, <2>2
<1>11. stamps' \subseteq Versions /\ applied' \subseteq Steps /\ torn' \subseteq {4, 15}
  <2>1. stamps' \subseteq stamps \cup {v}  BY <1>1
  <2> QED  BY <1>1, <1>8, <2>1 DEF IInv, TypeOK
<1>12. UNCHANGED world  BY <1>1
<1> QED  BY <1>9, <1>10, <1>11, <1>12, ClimbKeeps

LEMMA TemporalKeeps == ASSUME IInv, NEW p \in Openers, TemporalColumns(p) PROVE IInv'
<1>1. /\ AtVersion(p, "body", {24}) /\ Advance(p) /\ UNCHANGED torn /\ UNCHANGED world
      /\ applied' = applied \cup {24}
      /\ stamps' = IF op[p].gate THEN stamps \cup {24} ELSE stamps
  BY DEF TemporalColumns
<1>2. 24 \in Steps /\ 24 \in Versions  BY <1>1, AtStep DEF IInv, Versions
<1>3. applied \subseteq applied' /\ flagged' = flagged /\ 24 \in applied'  BY <1>1 DEF world
<1>4. op' \in [Openers -> Opens] /\ StampInv'
      /\ \A q \in Openers : op'[q].pc = "stamp" => op'[q].at <= Len(Ladder)
  BY <1>1, <1>3, AdvanceStep
<1>5. op[p].gate \in BOOLEAN /\ (op[p].gate = TRUE => 22 \in applied)  BY OpenGate, Zenon
<1>6. StampMeansApplied' /\ DeferredIsNotMasked'
  <2>1. CASE op[p].gate = TRUE
    <3>1. stamps' = stamps \cup {24} /\ 22 \in applied'  BY <1>1, <1>3, <1>5, <2>1
    <3> QED  BY <1>2, <1>3, <3>1, StampOne
  <2>2. CASE op[p].gate = FALSE
    <3>1. stamps' = stamps  BY <1>1, <2>2
    <3> QED  BY <1>3, <3>1, StampsKept
  <2> QED  BY <1>5, <2>1, <2>2
<1>7. stamps' \subseteq Versions /\ applied' \subseteq Steps /\ torn' \subseteq {4, 15}
  <2>1. stamps' \subseteq stamps \cup {24}  BY <1>1
  <2> QED  BY <1>1, <1>2, <2>1 DEF IInv, TypeOK
<1> QED  BY <1>1, <1>4, <1>6, <1>7, ClimbKeeps

LEMMA DepositKeeps == ASSUME IInv, NEW p \in Openers, DepositSeeds(p) PROVE IInv'
<1>1. AtVersion(p, "body", {25}) /\ UNCHANGED <<stamps, torn>> /\ UNCHANGED world
  BY DEF DepositSeeds
<1>2. Version(p) = 25 /\ 25 \in Steps /\ op[p].at \in 1..26 /\ op[p].at + 1 \in 1..27
  BY <1>1, AtStep DEF IInv
<1>3. op[p] \in Opens  BY DEF IInv, TypeOK
<1> DEFINE stamp == [op[p] EXCEPT !.pc = "stamp", !.gate = TRUE]
           skip == [op[p] EXCEPT !.at = @ + 1, !.gate = FALSE]
<1>4. \/ AtLeast(22) /\ applied' = applied \cup {25} /\ op' = [op EXCEPT ![p] = stamp]
      \/ applied' = applied /\ op' = [op EXCEPT ![p] = skip]
  BY DEF DepositSeeds
<1>5. stamp \in Opens /\ stamp.pc = "stamp" /\ stamp.gate = TRUE /\ stamp.at = op[p].at
  BY <1>3 DEF Opens, Stages
<1>6. skip \in Opens /\ skip.pc = "body" /\ skip.gate = FALSE
  <2>1. op[p].at + 1 \in 1..(Len(Ladder) + 1)  BY <1>2, LadderLength
  <2>2. op[p].pc = "body"  BY <1>1 DEF AtVersion
  <2> QED  BY <1>3, <2>1, <2>2 DEF Opens
<1> HIDE DEF stamp, skip
<1>7. applied \subseteq applied' /\ flagged' = flagged  BY <1>1, <1>4 DEF world
<1>8. op' \in [Openers -> Opens] /\ StampInv'
      /\ \A q \in Openers : op'[q].pc = "stamp" => op'[q].at <= Len(Ladder)
  <2>1. CASE AtLeast(22) /\ applied' = applied \cup {25} /\ op' = [op EXCEPT ![p] = stamp]
    <3>1. 22 \in applied /\ 25 \in applied'  BY <2>1, OpenGate
    <3>2. stamp.at <= Len(Ladder)  BY <1>2, <1>5, LadderLength
    <3> QED  BY <1>2, <1>5, <1>7, <2>1, <3>1, <3>2, GateStep
  <2>2. CASE op' = [op EXCEPT ![p] = skip]  BY <1>6, <1>7, <2>2, GateStep
  <2> QED  BY <1>4, <2>1, <2>2
<1>9. StampMeansApplied' /\ DeferredIsNotMasked'  BY <1>1, <1>7, StampsKept
<1>10. stamps' \subseteq Versions /\ applied' \subseteq Steps /\ torn' \subseteq {4, 15}
  BY <1>1, <1>2, <1>4 DEF IInv, TypeOK
<1> QED  BY <1>1, <1>8, <1>9, <1>10, ClimbKeeps

LEMMA DepositStampKeeps == ASSUME IInv, NEW p \in Openers, DepositStamp(p) PROVE IInv'
<1>1. AtVersion(p, "stamp", {25}) /\ Advance(p) /\ UNCHANGED <<applied, torn>>
      /\ UNCHANGED world /\ stamps' = stamps \cup {25}
  BY DEF DepositStamp
<1>2. op[p].pc = "stamp" /\ Version(p) = 25  BY <1>1, AtStep DEF IInv
<1>3. 25 \notin Bare /\ 25 # 28 /\ 25 \in Versions  BY DEF Bare, Versions
<1>4. 25 \in applied /\ op[p].gate = TRUE  BY <1>2, <1>3 DEF IInv, StampInv
<1>5. 22 \in applied  BY <1>4, OpenGate
<1>6. flagged' = flagged /\ applied' = applied  BY <1>1 DEF world
<1>7. op' \in [Openers -> Opens] /\ StampInv'
      /\ \A q \in Openers : op'[q].pc = "stamp" => op'[q].at <= Len(Ladder)
  BY <1>1, <1>6, AdvanceStep
<1>8. StampMeansApplied' /\ DeferredIsNotMasked'
  BY <1>1, <1>3, <1>4, <1>5, <1>6, StampOne
<1>9. stamps' \subseteq Versions /\ applied' \subseteq Steps /\ torn' \subseteq {4, 15}
  BY <1>1, <1>3 DEF IInv, TypeOK
<1> QED  BY <1>1, <1>7, <1>8, <1>9, ClimbKeeps

-----------------------------------------------------------------------------
LEMMA NextKeeps == IInv /\ [Next]_vars => IInv'
<1> SUFFICES ASSUME IInv, [Next]_vars PROVE IInv'  OBVIOUS
<1>1. CASE \E p \in Openers : Start(p)  BY <1>1, StartKeeps
<1>2. CASE \E p \in Openers : Step(p)
  BY <1>2, ReadKeeps, SkipKeeps, ErrorKeeps, TransactionalKeeps, RekeyKeeps,
     BareBeginKeeps, BareEndKeeps, LookKeeps, AddKeeps, SplitBodyKeeps, SplitStampKeeps, RegradeKeeps,
     ReviewedByKeeps, UnifyKeeps, EveryOpenBodyKeeps, EveryOpenStampKeeps,
     TemporalKeeps, DepositKeeps, DepositStampKeeps, FinishKeeps DEF Step
<1>3. CASE \E p \in Openers : Die(p) \/ RegradeFails(p)  BY <1>3, DieKeeps DEF RegradeFails
<1>4. CASE \E p \in Openers : Quit(p)  BY <1>4, QuitKeeps
<1>5. CASE Configure \/ UnblockExport \/ ManualRegrade \/ Heal  BY <1>5, WorldKeeps
<1>6. CASE UNCHANGED vars
  <2>1. UNCHANGED brain /\ UNCHANGED world /\ op' = op  BY <1>6 DEF vars, brain, world
  <2>2. op' \in [Openers -> Opens] /\ stamps' \subseteq Versions /\ applied' \subseteq Steps
        /\ torn' \subseteq {4, 15}
        /\ \A q \in Openers : op'[q].pc = "stamp" => op'[q].at <= Len(Ladder)
    BY <2>1 DEF IInv, TypeOK, brain
  <2>3. TypeOK'  BY <2>1, <2>2, TypeRest, WorldKept
  <2>4. StampMeansApplied' /\ DeferredIsNotMasked'  BY <2>1, StampsKept DEF brain, world
  <2>5. StampInv'  BY <2>1, OthersKept DEF StampInv, brain, world
  <2> QED  BY <2>3, <2>4, <2>5 DEF IInv
<1> QED  BY <1>1, <1>2, <1>3, <1>4, <1>5, <1>6 DEF Next

LEMMA Inductive == Spec => []IInv
BY IInit, NextKeeps, PTL DEF Spec

-----------------------------------------------------------------------------
(* Brains of version 15 or later                                           *)

Modern == level >= 15

\* What such a brain had when it was found, and what an open may still do.
Old  == {4, 5, Rekey, 6, 9, 10, 11, 7, 12, 13, 14, 15, 8}
Late == 16..28

\* What an open may put off.
Optional == {20, 21, 22, 25}

Working(p) == op[p].pc \in {"body", "alter", "stamp"}

\* The open p has left version v of Late behind it.
Past(p, v) == op[p].at > v - 3

\* No stamp hides an older version that is not there.
ModernBrain ==
    /\ torn = {} /\ Old \subseteq applied /\ 1..15 \subseteq stamps
    /\ 16 \in applied => 16 \in stamps
    /\ \A s \in stamps : \A v \in 16..19 : v <= s => v \in applied

\* An open leaves nothing behind undone but what may be put off.
ModernOpens ==
    \A p \in Openers :
      /\ op[p].pc = "read" => op[p].at = 1
      /\ Working(p) =>
           /\ op[p].ver \in stamps /\ op[p].ver >= 15
           /\ \A v \in Late \ Optional : Past(p, v) => v \in applied
      /\ op[p].pc = "alter" => op[p].at = 14
      /\ op[p].pc = "stamp" => op[p].at \in 14..25 /\ op[p].at + 3 \in applied
      /\ op[p].pc = "open" => Late \ Optional \subseteq applied

\* Two opens that overlap know it of each other's absence: neither is alone.  Only
\* V16 cannot be run twice, and an open that is alone has read whether it ran; and
\* only V17 adds what it found missing without a second look.
LoneOpens ==
    /\ \A p, q \in Openers : p # q /\ Climbing(p) /\ Climbing(q) => op[p].alone = FALSE
    /\ \A p \in Openers :
         /\ op[p].pc = "error" => op[p].alone = FALSE
         /\ op[p].pc = "body" /\ op[p].alone = TRUE /\ op[p].ver < 16 /\ ~Past(p, 16) =>
              16 \notin applied
         /\ op[p].pc = "alter" /\ op[p].alone = TRUE => 17 \notin applied

\* An open that knows the vault leaves V22 stamped, and so V25 behind it done.
RootedOpens ==
    \A p \in Openers : op[p].rooted = TRUE =>
      /\ Working(p) /\ Past(p, 22) => AtLeast(22)
      /\ Working(p) /\ Past(p, 25) => 25 \in applied
      /\ op[p].pc = "open" => AtLeast(22) /\ 25 \in applied

LadderInv == Modern => ModernBrain /\ ModernOpens /\ LoneOpens /\ RootedOpens

\* Without doomed rows V20 and V21 are never put off, nor is V22 by an open that
\* knows the vault, and so the stamps leave no gap up to V22.
NothingPutOff ==
    /\ \A s \in stamps : \A v \in 16..22 : v <= s => v \in stamps
    /\ \A p \in Openers :
         /\ op[p].gate = TRUE => 22 \in stamps
         /\ Working(p) =>
              /\ \A v \in 16..21 : Past(p, v) => v \in stamps
              /\ op[p].rooted = TRUE =>
                   /\ \A v \in 22..28 : Past(p, v) => v \in stamps
                   /\ op[p].at + 3 \in {24, 26} => op[p].gate = TRUE
         /\ op[p].pc = "open" => 16..21 \subseteq stamps
         /\ op[p].pc = "open" /\ op[p].rooted = TRUE => Late \subseteq stamps

RootInv == Modern /\ flagged = "none" => NothingPutOff

LEMMA LadderShape ==
  /\ \A i \in 1..12 : Ladder[i] \in Old
  /\ \A i \in 13..25 : Ladder[i] = i + 3
  /\ Ladder[26] = 8 /\ 8 \in Old
  /\ Steps = Old \cup Late
<1>1. \A i \in 1..12 : Ladder[i] \in Old
  BY DEF Ladder, Old, Rekey
<1>2. \A i \in 13..25 : Ladder[i] = i + 3
  BY DEF Ladder, Rekey
<1>3. Ladder[26] = 8 /\ 8 \in Old
  BY DEF Ladder, Old
<1>4. Steps \subseteq Old \cup Late
  <2> SUFFICES ASSUME NEW i \in 1..26 PROVE Ladder[i] \in Old \cup Late
    BY LadderLength DEF Steps
  <2>1. i \in 1..12 \/ i \in 13..25 \/ i = 26
    OBVIOUS
  <2> QED  BY <1>1, <1>2, <1>3, <2>1 DEF Late
<1>5. Old \subseteq Steps
  <2>1. Old = {Ladder[i] : i \in (1..12) \cup {26}}
    BY DEF Old, Ladder, Rekey
  <2> QED  BY <2>1, LadderLength DEF Steps
<1>6. Late \subseteq Steps
  <2> SUFFICES ASSUME NEW v \in Late PROVE v \in Steps
    OBVIOUS
  <2>1. v - 3 \in 13..25 /\ v - 3 \in 1..26 /\ Ladder[v - 3] = v
    BY <1>2 DEF Late
  <2> QED  BY <2>1, LadderLength DEF Steps
<1> QED  BY <1>1, <1>2, <1>3, <1>4, <1>5, <1>6

\* What a modern open works on is of Late: everything older is stamped.
LEMMA LateVersion ==
  ASSUME TypeOK, ModernOpens, NEW p \in Openers, NEW V, AtVersion(p, "body", V),
         Version(p) \in Ungated \/ Due(p)
  PROVE  /\ Version(p) \in Late /\ Version(p) \in V /\ Version(p) = op[p].at + 3
         /\ op[p].at \in 13..25
<1>1. op[p].at \in 1..26 /\ Version(p) \in V /\ op[p].pc = "body" /\ op[p].ver \in 0..28
  BY AtStep DEF TypeOK, Opens
<1>2. op[p].ver >= 15
  BY <1>1 DEF ModernOpens, Working
<1>3. Version(p) \notin Old
  BY <1>1, <1>2 DEF Old, Ungated, Due, Gate, Rekey
<1>4. op[p].at \in 13..25
  BY <1>1, <1>3, LadderShape DEF Version
<1> QED  BY <1>1, <1>4, LadderShape DEF Version, Late

LEMMA LateStamp ==
  ASSUME ModernOpens, NEW p \in Openers, NEW V, AtVersion(p, "stamp", V)
  PROVE  /\ Version(p) \in Late /\ Version(p) \in V /\ Version(p) = op[p].at + 3
         /\ op[p].at \in 14..25 /\ Version(p) \in applied
<1>1. op[p].at \in 14..25 /\ op[p].at + 3 \in applied
  BY DEF AtVersion, ModernOpens
<1>2. Version(p) = op[p].at + 3 /\ op[p].at + 3 \in 16..28
  <2>1. op[p].at \in 13..25
    BY <1>1
  <2> QED  BY <2>1, LadderShape DEF Version
<1>3. Version(p) \in V
  BY DEF AtVersion, Version
<1> QED  BY <1>1, <1>2, <1>3 DEF Late

\* The one column that such an open adds without a lock is V17's.
LEMMA AlterVersion ==
  ASSUME ModernOpens, NEW p \in Openers, NEW V, AtVersion(p, "alter", V)
  PROVE  Version(p) = 17 /\ op[p].at = 14 /\ op[p].pc = "alter" /\ Working(p) /\ Climbing(p)
<1>1. op[p].at = 14 /\ op[p].pc = "alter"
  BY DEF AtVersion, ModernOpens
<1>2. Ladder[14] = 17
  BY LadderShape
<1> QED  BY <1>1, <1>2 DEF Version, Working, Climbing

\* What an open that knows the vault does not put off.
LeftBehind(v) == (v = 22 => 22 \in stamps') /\ (v = 25 => 25 \in applied')

\* One step of the open p on version v: into its stamp, or on to the next.
Works(p, v) ==
    /\ Working(p) /\ v \in Late /\ op[p].at = v - 3
    /\ \E new \in Opens :
         /\ op' = [op EXCEPT ![p] = new]
         /\ new.ver = op[p].ver /\ new.alone = op[p].alone /\ new.rooted = op[p].rooted
         /\ \/ new.pc = "stamp" /\ new.at = v - 3 /\ v # 16 /\ v \in applied'
            \/ /\ new.pc = "body" /\ new.at = v - 2 /\ v \in applied' \cup Optional
               /\ op[p].rooted = TRUE => LeftBehind(v)
    /\ applied' \in {applied, applied \cup {v}}
    /\ \/ stamps' = stamps
       \/ stamps' = stamps \cup {v} /\ v \in applied'
    /\ v = 16 => 16 \in stamps'
    /\ torn' = torn

\* What such a step does is kept by all three invariants of the ladder.
LEMMA WorkKeeps ==
  ASSUME TypeOK, ModernBrain, ModernOpens, LoneOpens,
         NEW p \in Openers, NEW v, Works(p, v)
  PROVE  (ModernBrain /\ ModernOpens /\ LoneOpens)'
<1>1. PICK new \in Opens :
        /\ op' = [op EXCEPT ![p] = new]
        /\ new.ver = op[p].ver /\ new.alone = op[p].alone
        /\ \/ new.pc = "stamp" /\ new.at = v - 3 /\ v # 16 /\ v \in applied'
           \/ new.pc = "body" /\ new.at = v - 2 /\ v \in applied' \cup Optional
  BY DEF Works
<1>2. op \in [Openers -> Opens] /\ v \in 16..28 /\ op[p].at = v - 3 /\ Working(p)
  BY DEF TypeOK, Works, Late
<1>3. op'[p] = new /\ \A q \in Openers \ {p} : op'[q] = op[q]
  BY <1>1, <1>2
<1>4. applied \subseteq applied' /\ stamps \subseteq stamps'
      /\ applied' \in {applied, applied \cup {v}}
      /\ (stamps' = stamps \/ (stamps' = stamps \cup {v} /\ v \in applied'))
      /\ (v = 16 => 16 \in stamps') /\ torn' = torn
  BY DEF Works
<1>5. \A u \in Late \ Optional : u < v => u \in applied
  BY <1>2 DEF ModernOpens, Past, Late
<1>6. ModernBrain'
  <2>1. \A s \in stamps' : \A u \in 16..19 : u <= s => u \in applied'
    <3> SUFFICES ASSUME NEW s \in stamps', NEW u \in 16..19, u <= s
                 PROVE  u \in applied'
      OBVIOUS
    <3>1. CASE s \in stamps
      BY <1>4, <3>1 DEF ModernBrain
    <3>2. CASE s \notin stamps
      <4>1. s = v /\ v \in applied'
        BY <1>4, <3>2
      <4>2. u \in Late \ Optional
        BY DEF Late, Optional
      <4> QED  BY <1>2, <1>4, <1>5, <4>1, <4>2
    <3> QED  BY <3>1, <3>2
  <2>2. 16 \in applied' => 16 \in stamps'
    BY <1>2, <1>4 DEF ModernBrain
  <2> QED  BY <1>4, <2>1, <2>2 DEF ModernBrain
<1>7. ModernOpens'
  <2>1. ASSUME NEW q \in Openers, q # p
        PROVE  /\ op'[q].pc = "read" => op'[q].at = 1
               /\ Working(q)' =>
                    /\ op'[q].ver \in stamps' /\ op'[q].ver >= 15
                    /\ \A u \in Late \ Optional : Past(q, u)' => u \in applied'
               /\ op'[q].pc = "alter" => op'[q].at = 14
               /\ op'[q].pc = "stamp" => op'[q].at \in 14..25 /\ op'[q].at + 3 \in applied'
               /\ op'[q].pc = "open" => Late \ Optional \subseteq applied'
    BY <1>3, <1>4, <2>1 DEF ModernOpens, Working, Past
  <2>2. op'[p].ver \in stamps' /\ op'[p].ver >= 15
    BY <1>1, <1>2, <1>3, <1>4 DEF ModernOpens
  <2>3. \A u \in Late \ Optional : Past(p, u)' => u \in applied'
    <3> SUFFICES ASSUME NEW u \in Late \ Optional, op'[p].at > u - 3
                 PROVE  u \in applied'
      BY DEF Past
    <3>1. u \in 16..28
      BY DEF Late
    <3>2. CASE u < v
      BY <1>4, <1>5, <3>2
    <3>3. CASE ~(u < v)
      <4>1. new.pc = "body" /\ u = v
        BY <1>1, <1>2, <1>3, <3>1, <3>3
      <4> QED  BY <1>1, <4>1
    <3> QED  BY <3>2, <3>3
  <2>4. op'[p].pc = "stamp" => op'[p].at \in 14..25 /\ op'[p].at + 3 \in applied'
    BY <1>1, <1>2, <1>3
  <2>5. op'[p].pc # "open" /\ op'[p].pc # "read" /\ op'[p].pc # "alter"
    BY <1>1, <1>3
  <2> QED  BY <2>1, <2>2, <2>3, <2>4, <2>5 DEF ModernOpens
<1>8. LoneOpens'
  <2>1. Climbing(p) /\ \A q \in Openers : op'[q].alone = op[q].alone
    BY <1>1, <1>2, <1>3 DEF Climbing, Working
  <2>2. \A q \in Openers : Climbing(q)' => Climbing(q)
    BY <1>3, <2>1 DEF Climbing
  <2>3. \A q, r \in Openers : q # r /\ Climbing(q)' /\ Climbing(r)' => op'[q].alone = FALSE
    BY <2>1, <2>2 DEF LoneOpens
  <2>4. ASSUME NEW q \in Openers PROVE op'[q].pc = "error" => op'[q].alone = FALSE
    BY <1>1, <1>3, <2>4 DEF LoneOpens
  <2>5. ASSUME NEW q \in Openers, op'[q].pc = "body", op'[q].alone = TRUE,
               op'[q].ver < 16, ~Past(q, 16)'
        PROVE  16 \notin applied'
    <3>1. CASE q = p
      <4>1. op[p].at = 13 /\ new.at = 13
        BY <1>1, <1>2, <1>3, <2>5, <3>1 DEF Past
      <4> QED  BY <1>1, <1>2, <1>3, <2>5, <3>1, <4>1
    <3>2. CASE q # p
      <4>1. op'[q] = op[q]
        BY <1>3, <3>2
      <4>2. Climbing(q)
        BY <2>5, <4>1 DEF Climbing
      <4>3. op[q].alone = FALSE
        BY <2>1, <3>2, <4>2 DEF LoneOpens
      <4> QED  BY <2>5, <4>1, <4>3
    <3> QED  BY <3>1, <3>2
  <2>6. ASSUME NEW q \in Openers, op'[q].pc = "alter", op'[q].alone = TRUE PROVE FALSE
    <3>1. q # p /\ op'[q] = op[q]
      BY <1>1, <1>3, <2>6
    <3>2. Climbing(q)
      BY <2>6, <3>1 DEF Climbing
    <3> QED  BY <2>1, <2>6, <3>1, <3>2 DEF LoneOpens
  <2> QED  BY <2>3, <2>4, <2>5, <2>6 DEF LoneOpens
<1> QED  BY <1>6, <1>7, <1>8

LEMMA WorkRooted ==
  ASSUME TypeOK, RootedOpens, NEW p \in Openers, NEW v, Works(p, v)
  PROVE  RootedOpens'
<1>1. PICK new \in Opens :
        /\ op' = [op EXCEPT ![p] = new] /\ new.rooted = op[p].rooted
        /\ \/ new.pc = "stamp" /\ new.at = v - 3
           \/ new.pc = "body" /\ new.at = v - 2 /\ (op[p].rooted = TRUE => LeftBehind(v))
  BY DEF Works
<1>2. v \in 16..28 /\ op[p].at = v - 3 /\ Working(p)
  BY DEF Works, Late
<1>3. op'[p] = new /\ \A q \in Openers \ {p} : op'[q] = op[q]
  BY <1>1 DEF TypeOK
<1>4. applied \subseteq applied' /\ stamps \subseteq stamps'
  BY DEF Works
<1>5. AtLeast(22) => AtLeast(22)'
  BY <1>4 DEF AtLeast
<1>6. 22 \in stamps' => AtLeast(22)'
  BY DEF AtLeast
<1>7. ASSUME NEW q \in Openers, op'[q].rooted = TRUE
      PROVE  /\ Working(q)' /\ Past(q, 22)' => AtLeast(22)'
             /\ Working(q)' /\ Past(q, 25)' => 25 \in applied'
             /\ op'[q].pc = "open" => AtLeast(22)' /\ 25 \in applied'
  <2>1. CASE q # p
    BY <1>3, <1>4, <1>5, <1>7, <2>1 DEF RootedOpens, Working, Past
  <2>2. CASE q = p
    <3>1. op[p].rooted = TRUE /\ op'[p].pc # "open" /\ op'[p].at = new.at
      BY <1>1, <1>3, <1>7, <2>2
    <3>2. ASSUME new.at > 19 PROVE AtLeast(22)'
      <4>1. CASE op[p].at > 19
        BY <1>2, <1>5, <3>1, <4>1 DEF RootedOpens, Past
      <4>2. CASE ~(op[p].at > 19)
        BY <1>1, <1>2, <1>6, <3>1, <3>2, <4>2 DEF LeftBehind
      <4> QED  BY <4>1, <4>2
    <3>3. ASSUME new.at > 22 PROVE 25 \in applied'
      <4>1. CASE op[p].at > 22
        BY <1>2, <1>4, <3>1, <4>1 DEF RootedOpens, Past
      <4>2. CASE ~(op[p].at > 22)
        BY <1>1, <1>2, <3>1, <3>3, <4>2 DEF LeftBehind
      <4> QED  BY <4>1, <4>2
    <3> QED  BY <2>2, <3>1, <3>2, <3>3 DEF Past
  <2> QED  BY <2>1, <2>2
<1> QED  BY <1>7 DEF RootedOpens

\* Steps that run a body and leave its stamp to the next.
LEMMA ToStampWorks ==
  ASSUME TypeOK, NEW p \in Openers, Working(p), ToStamp(p),
         Version(p) \in Late, Version(p) = op[p].at + 3, Version(p) # 16,
         applied' = applied \cup {Version(p)}, stamps' = stamps, torn' = torn
  PROVE  Works(p, Version(p))
<1> DEFINE new == [op[p] EXCEPT !.pc = "stamp"]
<1>1. op[p] \in Opens /\ op[p].at \in Int
  BY DEF TypeOK, Opens
<1>2. /\ new \in Opens /\ new.pc = "stamp" /\ new.at = op[p].at /\ new.ver = op[p].ver
      /\ new.alone = op[p].alone /\ new.rooted = op[p].rooted
  BY <1>1 DEF Opens, Stages
<1>3. op' = [op EXCEPT ![p] = new]
  BY DEF ToStamp
<1> HIDE DEF new
<1>4. op[p].at = Version(p) - 3 /\ new.at = Version(p) - 3
  BY <1>1, <1>2
<1> QED  BY <1>2, <1>3, <1>4 DEF Works

LEMMA BodyWorks ==
  ASSUME TypeOK, ModernBrain, ModernOpens, NEW p \in Openers,
         SplitBody(p) \/ EveryOpenBody(p) \/ AddColumns(p)
  PROVE  Works(p, Version(p))
<1>1. CASE SplitBody(p)
  <2>1. AtVersion(p, "body", Split) /\ Due(p) /\ ToStamp(p)
        /\ applied' = applied \cup {Version(p)} /\ stamps' = stamps /\ torn' = torn
    BY <1>1 DEF SplitBody
  <2>2. Version(p) \in Late /\ Version(p) \in Split /\ Version(p) = op[p].at + 3
    BY <2>1, LateVersion
  <2>3. Version(p) # 16 /\ Working(p)
    BY <2>1, <2>2 DEF Split, AtVersion, Working
  <2> QED  BY <2>1, <2>2, <2>3, ToStampWorks
<1>2. CASE EveryOpenBody(p)
  <2>1. AtVersion(p, "body", {23, 26, 27, 28}) /\ ToStamp(p)
        /\ applied' = applied \cup {Version(p)} /\ stamps' = stamps /\ torn' = torn
    BY <1>2 DEF EveryOpenBody
  <2>2. Version(p) \in {23, 26, 27, 28} /\ Working(p)
    BY <2>1 DEF AtVersion, Version, Working
  <2>3. Version(p) \in Late /\ Version(p) = op[p].at + 3
    BY <2>1, <2>2, LateVersion DEF Ungated
  <2>4. Version(p) # 16
    BY <2>2
  <2> QED  BY <2>1, <2>2, <2>3, <2>4, ToStampWorks
<1>3. CASE AddColumns(p)
  <2>1. AtVersion(p, "alter", Altered) /\ ToStamp(p)
        /\ applied' = applied \cup {Version(p)} /\ stamps' = stamps /\ torn' = torn
    BY <1>3 DEF AddColumns
  <2>2. Version(p) = 17 /\ op[p].at = 14 /\ Working(p)
    BY <2>1, AlterVersion
  <2> QED  BY <2>1, <2>2, ToStampWorks DEF Late
<1> QED  BY <1>1, <1>2, <1>3

\* The step to the next version.
LEMMA AdvanceFields ==
  ASSUME TypeOK, NEW p \in Openers, op[p].at \in 13..25, Advance(p)
  PROVE  \E new \in Opens :
           /\ op' = [op EXCEPT ![p] = new]
           /\ new.ver = op[p].ver /\ new.alone = op[p].alone
           /\ new.rooted = op[p].rooted /\ new.gate = op[p].gate
           /\ new.pc = "body" /\ new.at = op[p].at + 1
<1> DEFINE new == [op[p] EXCEPT !.at = @ + 1, !.pc = "body"]
<1>1. op[p] \in Opens /\ op[p].at + 1 \in 1..(Len(Ladder) + 1)
  BY LadderLength DEF TypeOK
<1>2. /\ new \in Opens /\ new.pc = "body" /\ new.at = op[p].at + 1
      /\ new.ver = op[p].ver /\ new.alone = op[p].alone
      /\ new.rooted = op[p].rooted /\ new.gate = op[p].gate
  BY <1>1 DEF Opens, Stages
<1>3. op' = [op EXCEPT ![p] = new]
  BY DEF Advance
<1> HIDE DEF new
<1> QED  BY <1>2, <1>3

\* Steps that advance, having run the version or being free to put it off.
LEMMA AdvanceWorks ==
  ASSUME TypeOK, NEW p \in Openers, Working(p), Advance(p),
         Version(p) \in Late, Version(p) = op[p].at + 3,
         Version(p) \in applied' \cup Optional,
         applied' \in {applied, applied \cup {Version(p)}},
         stamps' = stamps \/ (stamps' = stamps \cup {Version(p)} /\ Version(p) \in applied'),
         Version(p) = 16 => 16 \in stamps', torn' = torn,
         op[p].rooted = TRUE => LeftBehind(Version(p))
  PROVE  Works(p, Version(p))
<1>1. op[p].at \in Int /\ op[p].at \in 13..25
  <2>1. op[p].at \in Int
    BY DEF TypeOK, Opens
  <2> QED  BY <2>1 DEF Late
<1>2. PICK new \in Opens :
        /\ op' = [op EXCEPT ![p] = new]
        /\ new.ver = op[p].ver /\ new.alone = op[p].alone /\ new.rooted = op[p].rooted
        /\ new.pc = "body" /\ new.at = op[p].at + 1
  BY <1>1, AdvanceFields
<1>3. op[p].at = Version(p) - 3 /\ new.at = Version(p) - 2
  BY <1>1, <1>2
<1> QED  BY <1>2, <1>3 DEF Works

LEMMA TransactionalWorks ==
  ASSUME TypeOK, ModernBrain, ModernOpens, NEW p \in Openers, TransactionalVersion(p)
  PROVE  Works(p, Version(p)) /\ Version(p) = 16 /\ 16 \in stamps'
<1>1. AtVersion(p, "body", Transactional) /\ Due(p) /\ Advance(p)
  BY DEF TransactionalVersion
<1>2. Version(p) \in Late /\ Version(p) \in Transactional /\ Version(p) = op[p].at + 3
  BY <1>1, LateVersion
<1>3. Version(p) = 16
  BY <1>2 DEF Late, Transactional
<1>4. /\ applied' = applied \cup {Version(p)} /\ stamps' = stamps \cup {Version(p)}
      /\ torn' = torn /\ Working(p)
  BY <1>1 DEF TransactionalVersion, AtVersion, Working
<1>5. 16 \in stamps' /\ Version(p) \in applied' /\ LeftBehind(Version(p))
  BY <1>3, <1>4 DEF LeftBehind
<1> QED  BY <1>1, <1>2, <1>3, <1>4, <1>5, AdvanceWorks

LEMMA StampWorks ==
  ASSUME TypeOK, ModernBrain, ModernOpens, NEW p \in Openers,
         SplitStamp(p) \/ DepositStamp(p)
  PROVE  /\ Works(p, Version(p)) /\ Version(p) \in {17, 18, 19, 20, 22, 25}
         /\ Advance(p) /\ stamps' = stamps \cup {Version(p)}
         /\ Version(p) = op[p].at + 3 /\ op[p].pc = "stamp"
<1>1. \E V : AtVersion(p, "stamp", V) /\ V \in {Altered \cup Split \cup {20, 22}, {25}}
  BY DEF SplitStamp, DepositStamp
<1>2. /\ Version(p) \in Late /\ Version(p) \in Altered \cup Split \cup {20, 22, 25}
      /\ Version(p) = op[p].at + 3 /\ Version(p) \in applied
  BY <1>1, LateStamp
<1>3. Version(p) \in {17, 18, 19, 20, 22, 25}
  BY <1>2 DEF Altered, Split, Late
<1>4. /\ Advance(p) /\ applied' = applied /\ stamps' = stamps \cup {Version(p)}
      /\ torn' = torn
  <2>1. CASE SplitStamp(p)
    BY <2>1 DEF SplitStamp
  <2>2. CASE DepositStamp(p)
    <3>1. Version(p) = 25
      BY <2>2 DEF DepositStamp, AtVersion, Version
    <3> QED  BY <2>2, <3>1 DEF DepositStamp
  <2> QED  BY <2>1, <2>2
<1>5. op[p].pc = "stamp" /\ Working(p)
  BY <1>1 DEF AtVersion, Working
<1>6. LeftBehind(Version(p))
  BY <1>2, <1>4 DEF LeftBehind
<1> QED  BY <1>2, <1>3, <1>4, <1>5, <1>6, AdvanceWorks

LEMMA RegradeWorks ==
  ASSUME TypeOK, ModernBrain, ModernOpens, NEW p \in Openers, Regrade(p)
  PROVE  Works(p, Version(p)) /\ Version(p) = 20 /\ op[p].at = 17
<1>1. AtVersion(p, "body", {20}) /\ Due(p) /\ stamps' = stamps /\ torn' = torn
  BY DEF Regrade
<1>2. Version(p) = 20 /\ Version(p) \in Late /\ Version(p) = op[p].at + 3 /\ op[p].at = 17
      /\ Working(p) /\ op[p] \in Opens
  <2>1. Version(p) \in Late /\ Version(p) \in {20} /\ Version(p) = op[p].at + 3
        /\ op[p].at \in 13..25
    BY <1>1, LateVersion
  <2> QED  BY <1>1, <2>1 DEF AtVersion, Working, TypeOK
<1>3. \/ applied' = applied \cup {20} /\ ToStamp(p)
      \/ applied' = applied /\ Advance(p)
  BY DEF Regrade
<1>4. CASE applied' = applied \cup {20} /\ ToStamp(p)
  BY <1>1, <1>2, <1>4, ToStampWorks
<1>5. CASE applied' = applied /\ Advance(p)
  <2>1. LeftBehind(Version(p)) /\ Version(p) # 16
    BY <1>2 DEF LeftBehind
  <2>2. Version(p) \in applied' \cup Optional
    BY <1>2 DEF Optional
  <2>3. applied' \in {applied, applied \cup {Version(p)}}
    BY <1>5
  <2> QED  BY <1>1, <1>2, <1>5, <2>1, <2>2, <2>3, AdvanceWorks
<1> QED  BY <1>2, <1>3, <1>4, <1>5

LEMMA ReviewedByWorks ==
  ASSUME TypeOK, ModernBrain, ModernOpens, NEW p \in Openers, ReviewedBy(p)
  PROVE  Works(p, Version(p)) /\ Version(p) = 21 /\ op[p].at = 18
<1>1. AtVersion(p, "body", {21}) /\ Due(p) /\ torn' = torn /\ Advance(p)
  BY DEF ReviewedBy
<1>2. Version(p) = 21 /\ Version(p) \in Late /\ Version(p) = op[p].at + 3 /\ op[p].at = 18
      /\ Working(p)
  <2>1. Version(p) \in Late /\ Version(p) \in {21} /\ Version(p) = op[p].at + 3
        /\ op[p].at \in 13..25
    BY <1>1, LateVersion
  <2> QED  BY <1>1, <2>1 DEF AtVersion, Working
<1>3. \/ applied' = applied \cup {21} /\ stamps' = stamps \cup {21}
      \/ applied' = applied /\ stamps' = stamps
  BY DEF ReviewedBy
<1>4. LeftBehind(Version(p)) /\ Version(p) # 16
  BY <1>2 DEF LeftBehind
<1>5. Version(p) \in applied' \cup Optional
  BY <1>2 DEF Optional
<1>6. /\ applied' \in {applied, applied \cup {Version(p)}}
      /\ stamps' = stamps \/ (stamps' = stamps \cup {Version(p)} /\ Version(p) \in applied')
  BY <1>2, <1>3
<1> QED  BY <1>1, <1>2, <1>4, <1>5, <1>6, AdvanceWorks

LEMMA UnifyWorks ==
  ASSUME TypeOK, ModernBrain, ModernOpens, NEW p \in Openers, UnifyPaths(p)
  PROVE  Works(p, Version(p)) /\ Version(p) = 22 /\ op[p].at = 19
<1>1. AtVersion(p, "body", {22}) /\ Due(p) /\ stamps' = stamps /\ torn' = torn
  BY DEF UnifyPaths
<1>2. Version(p) = 22 /\ Version(p) \in Late /\ Version(p) = op[p].at + 3 /\ op[p].at = 19
      /\ Working(p) /\ op[p] \in Opens
  <2>1. Version(p) \in Late /\ Version(p) \in {22} /\ Version(p) = op[p].at + 3
        /\ op[p].at \in 13..25
    BY <1>1, LateVersion
  <2> QED  BY <1>1, <2>1 DEF AtVersion, Working, TypeOK
<1>3. \/ applied' = applied \cup {22} /\ ToStamp(p)
      \/ applied' = applied /\ Advance(p) /\ op[p].rooted # TRUE
  <2>1. op[p].rooted \in BOOLEAN
    BY <1>2 DEF Opens
  <2> QED  BY <2>1, Zenon DEF UnifyPaths
<1>4. CASE applied' = applied \cup {22} /\ ToStamp(p)
  BY <1>1, <1>2, <1>4, ToStampWorks
<1>5. CASE applied' = applied /\ Advance(p) /\ op[p].rooted # TRUE
  <2>1. op[p].rooted # TRUE
    BY <1>5
  <2>2. Version(p) \in applied' \cup Optional
    BY <1>2 DEF Optional
  <2>3. applied' \in {applied, applied \cup {Version(p)}}
    BY <1>5
  <2>4. Version(p) = 16 => 16 \in stamps'
    BY <1>2
  <2>5. op[p].rooted = TRUE => LeftBehind(Version(p))
    BY <2>1
  <2> QED  BY <1>1, <1>2, <1>5, <2>2, <2>3, <2>4, <2>5, AdvanceWorks
<1> QED  BY <1>2, <1>3, <1>4, <1>5

LEMMA EveryOpenStampWorks ==
  ASSUME TypeOK, ModernBrain, ModernOpens, NEW p \in Openers, EveryOpenStamp(p)
  PROVE  /\ Works(p, Version(p)) /\ Version(p) \in {23, 26, 27, 28}
         /\ Version(p) = op[p].at + 3 /\ op[p].pc = "stamp"
<1> DEFINE v    == Version(p)
           gate == IF v = 26 THEN op[p].gate ELSE AtLeast(22)
           new  == [op[p] EXCEPT !.at = @ + 1, !.pc = "body", !.gate = gate]
<1>1. /\ v \in Late /\ v \in {23, 26, 27, 28} /\ v = op[p].at + 3 /\ v \in applied
      /\ op[p].at \in 14..25 /\ op[p].pc = "stamp"
  BY LateStamp DEF EveryOpenStamp, AtVersion
<1>2. /\ op' = [op EXCEPT ![p] = new] /\ stamps' \in {stamps, stamps \cup {v}}
      /\ applied' = applied /\ torn' = torn
  BY DEF EveryOpenStamp
<1>3. op[p] \in Opens /\ op[p].at + 1 \in 1..(Len(Ladder) + 1) /\ gate \in BOOLEAN
  <2>1. op[p] \in Opens /\ op[p].at + 1 \in 1..(Len(Ladder) + 1)
    BY <1>1, LadderLength DEF TypeOK
  <2>2. op[p].gate \in BOOLEAN
    BY <2>1 DEF Opens
  <2>3. AtLeast(22) \in BOOLEAN
    BY DEF AtLeast
  <2> QED  BY <2>1, <2>2, <2>3
<1> HIDE DEF v, gate
<1>4. /\ new \in Opens /\ new.pc = "body" /\ new.at = op[p].at + 1
      /\ new.ver = op[p].ver /\ new.alone = op[p].alone /\ new.rooted = op[p].rooted
  BY <1>3 DEF Opens, Stages
<1> HIDE DEF new
<1>5. op[p].at = v - 3 /\ new.at = v - 2 /\ v # 16 /\ LeftBehind(v)
  BY <1>1, <1>4 DEF LeftBehind
<1>6. Works(p, v)
  BY <1>1, <1>2, <1>4, <1>5 DEF Works, Working
<1> QED  BY <1>1, <1>6 DEF v

LEMMA TemporalWorks ==
  ASSUME TypeOK, ModernBrain, ModernOpens, NEW p \in Openers, TemporalColumns(p)
  PROVE  Works(p, Version(p)) /\ Version(p) = 24 /\ op[p].at = 21
<1>1. /\ AtVersion(p, "body", {24}) /\ Advance(p) /\ torn' = torn
      /\ applied' = applied \cup {24} /\ stamps' \in {stamps, stamps \cup {24}}
  BY DEF TemporalColumns
<1>2. Version(p) = 24 /\ op[p].pc = "body"
  BY <1>1 DEF AtVersion, Version
<1>3. Version(p) \in Late /\ Version(p) = op[p].at + 3 /\ op[p].at \in 13..25
  BY <1>1, <1>2, LateVersion DEF Ungated
<1>4. LeftBehind(Version(p)) /\ Version(p) # 16 /\ Working(p) /\ op[p].at = 21
  BY <1>2, <1>3 DEF LeftBehind, Working
<1>5. Version(p) \in applied' \cup Optional
  BY <1>1, <1>2
<1>6. /\ applied' \in {applied, applied \cup {Version(p)}}
      /\ stamps' = stamps \/ (stamps' = stamps \cup {Version(p)} /\ Version(p) \in applied')
  BY <1>1, <1>2
<1> QED  BY <1>1, <1>2, <1>3, <1>4, <1>5, <1>6, AdvanceWorks

LEMMA DepositWorks ==
  ASSUME TypeOK, ModernBrain, ModernOpens, RootedOpens, NEW p \in Openers, DepositSeeds(p)
  PROVE  Works(p, Version(p)) /\ Version(p) = 25 /\ op[p].at = 22
<1>1. AtVersion(p, "body", {25}) /\ torn' = torn /\ stamps' = stamps
  BY DEF DepositSeeds
<1>2. Version(p) = 25 /\ op[p].pc = "body"
  BY <1>1 DEF AtVersion, Version
<1>3. Version(p) \in Late /\ Version(p) = op[p].at + 3 /\ op[p].at = 22
  <2>1. Version(p) \in Late /\ Version(p) = op[p].at + 3 /\ op[p].at \in 13..25
    BY <1>1, <1>2, LateVersion DEF Ungated
  <2> QED  BY <1>2, <2>1
<1>4. op[p] \in Opens /\ 23 \in 1..(Len(Ladder) + 1) /\ op[p].at + 1 = 23
  BY <1>3, LadderLength DEF TypeOK
<1> DEFINE stamp == [op[p] EXCEPT !.pc = "stamp", !.gate = TRUE]
           skip  == [op[p] EXCEPT !.at = @ + 1, !.gate = FALSE]
<1>5. \/ applied' = applied \cup {25} /\ op' = [op EXCEPT ![p] = stamp]
      \/ applied' = applied /\ op' = [op EXCEPT ![p] = skip] /\ ~AtLeast(22)
  BY DEF DepositSeeds
<1>6. /\ stamp \in Opens /\ stamp.pc = "stamp" /\ stamp.at = 22
      /\ stamp.ver = op[p].ver /\ stamp.alone = op[p].alone /\ stamp.rooted = op[p].rooted
  BY <1>3, <1>4 DEF Opens, Stages
<1>7. /\ skip \in Opens /\ skip.pc = "body" /\ skip.at = 23
      /\ skip.ver = op[p].ver /\ skip.alone = op[p].alone /\ skip.rooted = op[p].rooted
  BY <1>2, <1>3, <1>4 DEF Opens, Stages
<1> HIDE DEF stamp, skip
<1>8. /\ 25 - 3 = 22 /\ 25 - 2 = 23 /\ 25 # 16 /\ 25 \in Late /\ 25 \in Optional
      /\ Working(p)
  BY <1>2 DEF Late, Optional, Working
<1>9. Works(p, 25)
  <2>1. CASE applied' = applied \cup {25} /\ op' = [op EXCEPT ![p] = stamp]
    BY <1>1, <1>3, <1>6, <1>8, <2>1 DEF Works
  <2>2. CASE applied' = applied /\ op' = [op EXCEPT ![p] = skip] /\ ~AtLeast(22)
    <3>1. Past(p, 22)
      BY <1>3 DEF Past
    <3>2. op[p].rooted # TRUE
      BY <1>8, <2>2, <3>1 DEF RootedOpens
    <3> QED  BY <1>1, <1>3, <1>7, <1>8, <2>2, <3>2 DEF Works
  <2> QED  BY <1>5, <2>1, <2>2
<1> QED  BY <1>2, <1>3, <1>9

-----------------------------------------------------------------------------
\* A step that changes no row and no table: on along the ladder, or off it.
Moves(p, new) ==
    /\ stamps' = stamps /\ applied' = applied /\ torn' = torn
    /\ op' = [op EXCEPT ![p] = new]
    /\ new.pc \notin {"read", "stamp"}
    /\ new.pc = "alter" => new.at = 14 /\ (new.alone = TRUE => 17 \notin applied)
    /\ new.pc \in {"body", "alter"} =>
         /\ Climbing(p) /\ new.alone = op[p].alone
         /\ new.ver \in stamps /\ new.ver >= 15
         /\ \A v \in Late \ Optional : new.at > v - 3 => v \in applied
         /\ new.alone = TRUE /\ new.ver < 16 /\ new.at <= 13 => 16 \notin applied
    /\ new.pc = "error" => new.alone = FALSE
    /\ new.pc = "open" => Late \ Optional \subseteq applied

LEMMA MoveKeeps ==
  ASSUME TypeOK, ModernBrain, ModernOpens, LoneOpens,
         NEW p \in Openers, NEW new \in Opens, Moves(p, new)
  PROVE  (ModernBrain /\ ModernOpens /\ LoneOpens)'
<1>1. op' = [op EXCEPT ![p] = new] /\ stamps' = stamps /\ applied' = applied /\ torn' = torn
  BY DEF Moves
<1>2. op'[p] = new /\ \A q \in Openers \ {p} : op'[q] = op[q]
  BY <1>1 DEF TypeOK
<1>3. ModernBrain'
  BY <1>1 DEF ModernBrain
<1>4. ModernOpens'
  <2>1. ASSUME NEW q \in Openers, q # p
        PROVE  /\ op'[q].pc = "read" => op'[q].at = 1
               /\ Working(q)' =>
                    /\ op'[q].ver \in stamps' /\ op'[q].ver >= 15
                    /\ \A u \in Late \ Optional : Past(q, u)' => u \in applied'
               /\ op'[q].pc = "alter" => op'[q].at = 14
               /\ op'[q].pc = "stamp" => op'[q].at \in 14..25 /\ op'[q].at + 3 \in applied'
               /\ op'[q].pc = "open" => Late \ Optional \subseteq applied'
    BY <1>1, <1>2, <2>1 DEF ModernOpens, Working, Past
  <2>2. /\ op'[p].pc = "read" => op'[p].at = 1
        /\ Working(p)' =>
             /\ op'[p].ver \in stamps' /\ op'[p].ver >= 15
             /\ \A u \in Late \ Optional : Past(p, u)' => u \in applied'
        /\ op'[p].pc = "alter" => op'[p].at = 14
        /\ op'[p].pc = "stamp" => op'[p].at \in 14..25 /\ op'[p].at + 3 \in applied'
        /\ op'[p].pc = "open" => Late \ Optional \subseteq applied'
    BY <1>1, <1>2 DEF Moves, Working, Past
  <2> QED  BY <2>1, <2>2 DEF ModernOpens
<1>5. LoneOpens'
  <2>1. \A q \in Openers : Climbing(q)' => Climbing(q) /\ op'[q].alone = op[q].alone
    BY <1>2 DEF Moves, Climbing
  <2>2. \A q, r \in Openers : q # r /\ Climbing(q)' /\ Climbing(r)' => op'[q].alone = FALSE
    BY <2>1 DEF LoneOpens
  <2>3. \A q \in Openers : op'[q].pc = "error" => op'[q].alone = FALSE
    BY <1>2 DEF Moves, LoneOpens
  <2>4. ASSUME NEW q \in Openers, op'[q].pc = "body", op'[q].alone = TRUE,
               op'[q].ver < 16, ~Past(q, 16)'
        PROVE  16 \notin applied'
    <3>1. CASE q = p
      <4>1. new \in Opens /\ ~(new.at > 16 - 3)
        BY <1>2, <2>4, <3>1 DEF Past
      <4>2. new.at <= 13
        BY <4>1, LadderLength DEF Opens
      <4> QED  BY <1>1, <1>2, <2>4, <3>1, <4>2 DEF Moves
    <3>2. CASE q # p
      BY <1>1, <1>2, <2>4, <3>2 DEF LoneOpens, Past
    <3> QED  BY <3>1, <3>2
  <2>5. \A q \in Openers : op'[q].pc = "alter" /\ op'[q].alone = TRUE => 17 \notin applied'
    BY <1>1, <1>2 DEF Moves, LoneOpens
  <2> QED  BY <2>2, <2>3, <2>4, <2>5 DEF LoneOpens
<1> QED  BY <1>3, <1>4, <1>5

\* Such a step passes V22 and V25 by only if they are stamped and done.
LEMMA MoveRooted ==
  ASSUME TypeOK, RootedOpens, NEW p \in Openers, NEW new \in Opens, Moves(p, new),
         new.rooted = TRUE /\ new.pc \in {"body", "alter", "open"} =>
           /\ new.at > 19 \/ new.pc = "open" => AtLeast(22)
           /\ new.at > 22 \/ new.pc = "open" => 25 \in applied
  PROVE  RootedOpens'
<1>1. op' = [op EXCEPT ![p] = new] /\ stamps' = stamps /\ applied' = applied
  BY DEF Moves
<1>2. op'[p] = new /\ \A q \in Openers \ {p} : op'[q] = op[q]
  BY <1>1 DEF TypeOK
<1>3. AtLeast(22)' <=> AtLeast(22)
  BY <1>1 DEF AtLeast
<1>4. ASSUME NEW q \in Openers, op'[q].rooted = TRUE
      PROVE  /\ Working(q)' /\ Past(q, 22)' => AtLeast(22)'
             /\ Working(q)' /\ Past(q, 25)' => 25 \in applied'
             /\ op'[q].pc = "open" => AtLeast(22)' /\ 25 \in applied'
  <2>1. CASE q # p
    BY <1>1, <1>2, <1>3, <1>4, <2>1 DEF RootedOpens, Working, Past
  <2>2. CASE q = p
    <3>1. op'[p].pc # "stamp" /\ new.at \in Int
      BY <1>2 DEF Moves, Opens
    <3> QED  BY <1>1, <1>2, <1>3, <1>4, <2>2, <3>1 DEF Working, Past
  <2> QED  BY <2>1, <2>2
<1> QED  BY <1>4 DEF RootedOpens

LEMMA ReadMoves ==
  ASSUME TypeOK, ModernBrain, ModernOpens, NEW p \in Openers, ReadVersion(p)
  PROVE  \E new \in Opens : /\ Moves(p, new) /\ new.pc = "body" /\ new.at = 1
                            /\ new.gate = op[p].gate /\ new.rooted = op[p].rooted
<1>1. op[p] \in Opens /\ op[p].at = 1 /\ op[p].pc = "read"
  BY DEF TypeOK, ModernOpens, ReadVersion
<1>2. PICK max \in stamps : /\ \A v \in stamps : v <= max
                            /\ op' = [op EXCEPT ![p].pc = "body", ![p].ver = max]
  BY DEF ReadVersion
<1>3. max \in 0..28 /\ max >= 15
  <2>1. max \in 1..28 /\ 15 \in stamps
    BY DEF TypeOK, Versions, ModernBrain
  <2> QED  BY <1>2, <2>1
<1> DEFINE new == [op[p] EXCEPT !.pc = "body", !.ver = max]
<1>4. /\ new \in Opens /\ new.pc = "body" /\ new.at = 1 /\ new.ver = max
      /\ new.gate = op[p].gate /\ new.rooted = op[p].rooted /\ new.alone = op[p].alone
  BY <1>1, <1>3 DEF Opens, Stages
<1>5. op' = [op EXCEPT ![p] = new]
  BY <1>2
<1> HIDE DEF new
<1>6. \A v \in Late : ~(new.at > v - 3)
  BY <1>4 DEF Late
<1>7. max < 16 => 16 \notin applied
  <2>1. max < 16 => 16 \notin stamps
    BY <1>2, <1>3
  <2> QED  BY <2>1 DEF ModernBrain
<1>8. stamps' = stamps /\ applied' = applied /\ torn' = torn
  BY DEF ReadVersion, brain
<1>9. Climbing(p)
  BY <1>1 DEF Climbing
<1>10. Moves(p, new)
  BY <1>3, <1>4, <1>5, <1>6, <1>7, <1>8, <1>9 DEF Moves
<1> QED  BY <1>4, <1>10

\* What is skipped is stamped: the open's version says so.
LEMMA SkipMoves ==
  ASSUME TypeOK, ModernBrain, ModernOpens, LoneOpens, NEW p \in Openers, SkipVersions(p)
  PROVE  \E new \in Opens :
           /\ Moves(p, new) /\ new.pc = "body"
           /\ new.gate = op[p].gate /\ new.rooted = op[p].rooted
           /\ \A v \in Late : new.at > v - 3 =>
                Past(p, v) \/ (v \in 16..22 /\ v <= op[p].ver)
           /\ new.at + 3 \notin {24, 26, 27, 28}
           /\ Working(p) /\ op[p].ver \in stamps
<1>1. op[p] \in Opens /\ op[p].pc = "body" /\ Working(p) /\ Climbing(p)
  BY DEF TypeOK, SkipVersions, Working, Climbing
<1>2. op[p].at \in 1..27 /\ op[p].ver \in 0..28 /\ op[p].ver \in stamps /\ op[p].ver >= 15
  BY <1>1, LadderLength DEF Opens, ModernOpens
<1>3. PICK next \in (op[p].at + 1)..27 :
        /\ \A i \in op[p].at..(next - 1) : Skipped(p, i)
        /\ op' = [op EXCEPT ![p].at = next]
  <2>1. Len(Ladder) + 1 = 27
    BY LadderLength
  <2>2. \E next \in (op[p].at + 1)..(Len(Ladder) + 1) :
          /\ \A i \in op[p].at..(next - 1) : Skipped(p, i)
          /\ op' = [op EXCEPT ![p].at = next]
    BY DEF SkipVersions
  <2> QED  BY <2>1, <2>2, Zenon
<1>4. next \in 1..27 /\ next > op[p].at
  BY <1>2, <1>3
<1> DEFINE new == [op[p] EXCEPT !.at = next]
<1>5. /\ new \in Opens /\ new.pc = "body" /\ new.at = next /\ new.ver = op[p].ver
      /\ new.gate = op[p].gate /\ new.rooted = op[p].rooted /\ new.alone = op[p].alone
  BY <1>1, <1>4, LadderLength DEF Opens
<1>6. op' = [op EXCEPT ![p] = new]
  BY <1>3
<1> HIDE DEF new
<1>7. ASSUME NEW v \in Late, next > v - 3, ~Past(p, v)
      PROVE  v \in 16..22 /\ v <= op[p].ver
  <2>1. v \in 16..28 /\ v - 3 \in 13..25 /\ v - 3 \in op[p].at..(next - 1)
    BY <1>2, <1>4, <1>7 DEF Late, Past
  <2>2. Ladder[v - 3] = v
    BY <2>1, LadderShape
  <2>3. Skipped(p, v - 3)
    BY <1>3, <2>1
  <2>4. v \notin Ungated /\ Gate(v) <= op[p].ver
    BY <2>2, <2>3 DEF Skipped
  <2> QED  BY <2>1, <2>4 DEF Ungated, Gate, Rekey
<1>8. next \notin {21, 23, 24, 25}
  <2> SUFFICES ASSUME next \in {21, 23, 24, 25} PROVE FALSE
    OBVIOUS
  <2>1. next - 1 \in op[p].at..(next - 1) /\ next - 1 \in 13..25
    BY <1>2, <1>4
  <2>2. Skipped(p, next - 1) /\ Ladder[next - 1] = next - 1 + 3
    BY <1>3, <2>1, LadderShape
  <2>3. next - 1 + 3 \notin Ungated
    BY <2>2 DEF Skipped
  <2> QED  BY <2>3 DEF Ungated
<1>9. \A v \in Late \ Optional : next > v - 3 => v \in applied
  <2> SUFFICES ASSUME NEW v \in Late \ Optional, next > v - 3
               PROVE  v \in applied
    OBVIOUS
  <2>1. CASE Past(p, v)
    BY <1>1, <2>1 DEF ModernOpens
  <2>2. CASE ~Past(p, v)
    <3>1. v \in 16..22 /\ v <= op[p].ver
      BY <1>7, <2>2
    <3>2. v \in 16..19
      BY <3>1 DEF Optional
    <3> QED  BY <1>2, <3>1, <3>2 DEF ModernBrain
  <2> QED  BY <2>1, <2>2
<1>10. next <= 13 => ~Past(p, 16)
  BY <1>2, <1>4 DEF Past
<1>11. op[p].alone = TRUE /\ op[p].ver < 16 /\ next <= 13 => 16 \notin applied
  BY <1>1, <1>10 DEF LoneOpens
<1>12. stamps' = stamps /\ applied' = applied /\ torn' = torn
  BY DEF SkipVersions, brain
<1>13. Moves(p, new)
  BY <1>1, <1>2, <1>5, <1>6, <1>9, <1>11, <1>12 DEF Moves
<1>14. new.at + 3 \notin {24, 26, 27, 28}
  BY <1>4, <1>5, <1>8
<1> QED  BY <1>1, <1>2, <1>5, <1>7, <1>13, <1>14

\* A look that finds V17's columns goes on to the stamp, one that misses them
\* takes the open to adding them.
LEMMA LookWorks ==
  ASSUME TypeOK, ModernBrain, ModernOpens, NEW p \in Openers, LookAtColumns(p)
  PROVE  /\ Version(p) = 17 /\ op[p].at = 14 /\ op[p].pc = "body" /\ Working(p)
         /\ stamps' = stamps /\ applied' = applied /\ torn' = torn
         /\ 17 \in applied => ToStamp(p) /\ Works(p, 17)
         /\ 17 \notin applied => op' = [op EXCEPT ![p].pc = "alter"]
<1>1. AtVersion(p, "body", Altered) /\ Due(p)
  BY DEF LookAtColumns
<1>2. /\ Version(p) \in Late /\ Version(p) \in Altered /\ Version(p) = op[p].at + 3
      /\ op[p].at \in 13..25
  BY <1>1, LateVersion
<1>3. Version(p) = 17 /\ op[p].at = 14 /\ op[p].pc = "body" /\ Working(p)
  BY <1>1, <1>2 DEF Late, Altered, AtVersion, Working
<1>4. stamps' = stamps /\ applied' = applied /\ torn' = torn
  BY DEF LookAtColumns, brain
<1>5. /\ 17 \in applied => ToStamp(p)
      /\ 17 \notin applied => op' = [op EXCEPT ![p].pc = "alter"]
  BY <1>3 DEF LookAtColumns, ToStamp
<1>6. ASSUME 17 \in applied PROVE Works(p, 17)
  <2>1. applied' = applied \cup {Version(p)} /\ ToStamp(p) /\ Version(p) # 16
    BY <1>3, <1>4, <1>5, <1>6
  <2>2. Works(p, Version(p))
    BY <1>2, <1>3, <1>4, <2>1, ToStampWorks
  <2> QED  BY <1>3, <2>2
<1> QED  BY <1>3, <1>4, <1>5, <1>6

LEMMA LookMoves ==
  ASSUME TypeOK, ModernBrain, ModernOpens, NEW p \in Openers, LookAtColumns(p),
         17 \notin applied
  PROVE  \E new \in Opens :
           /\ Moves(p, new) /\ new.pc = "alter" /\ new.at = op[p].at
           /\ new.gate = op[p].gate /\ new.rooted = op[p].rooted
<1>1. /\ op[p].at = 14 /\ op[p].pc = "body" /\ Working(p)
      /\ stamps' = stamps /\ applied' = applied /\ torn' = torn
      /\ op' = [op EXCEPT ![p].pc = "alter"]
  BY LookWorks
<1> DEFINE new == [op[p] EXCEPT !.pc = "alter"]
<1>2. /\ new \in Opens /\ new.pc = "alter" /\ new.at = op[p].at /\ new.ver = op[p].ver
      /\ new.gate = op[p].gate /\ new.rooted = op[p].rooted /\ new.alone = op[p].alone
  BY DEF TypeOK, Opens, Stages
<1>3. op' = [op EXCEPT ![p] = new]
  BY <1>1
<1> HIDE DEF new
<1>4. op[p].ver \in stamps /\ op[p].ver >= 15
  BY <1>1 DEF ModernOpens
<1>5. \A v \in Late \ Optional : new.at > v - 3 => v \in applied
  BY <1>1, <1>2 DEF ModernOpens, Past
<1>6. Climbing(p)
  BY <1>1 DEF Climbing
<1>7. ~(new.at <= 13) /\ new.at = 14
  BY <1>1, <1>2
<1>8. Moves(p, new)
  BY <1>1, <1>2, <1>3, <1>4, <1>5, <1>6, <1>7 DEF Moves
<1> QED  BY <1>2, <1>8

\* Two refusals are left: that of V16's columns, when the other of two
\* overlapping opens has added them, and that of V17's, added between this open's
\* look and its statement; then neither is alone.
LEMMA ErrorMoves ==
  ASSUME TypeOK, ModernBrain, ModernOpens, LoneOpens, NEW p \in Openers, SchemaError(p)
  PROVE  \E new \in Opens : /\ Moves(p, new) /\ new.pc = "error"
                            /\ new.gate = op[p].gate
<1>1. op[p] \in Opens
  BY DEF TypeOK
<1>2. ASSUME AtVersion(p, "body", Versions), Version(p) \in Ungated \/ Due(p),
             ~Fits(Version(p)) \/ Version(p) \in Bare \cap torn
      PROVE  op[p].alone # TRUE
  <2>1. op[p].pc = "body"
    BY <1>2 DEF AtVersion
  <2>2. Version(p) \in Late /\ Version(p) = op[p].at + 3 /\ op[p].at \in 13..25
    BY <1>2, LateVersion
  <2>3. ~Fits(Version(p))
    BY <1>2 DEF ModernBrain
  <2>4. 7 \in applied
    BY DEF ModernBrain, Old
  <2>5. Version(p) = 16 /\ 16 \in applied
    BY <2>2, <2>3, <2>4 DEF Fits, OnceOnly, Late
  <2>6. ~Past(p, 16) /\ op[p].ver < 16
    <3>1. op[p].at = 13
      BY <2>2, <2>5
    <3>2. op[p].ver < 16
      BY <1>2, <2>5 DEF Due, Gate, Ungated, Rekey
    <3> QED  BY <3>1, <3>2 DEF Past
  <2> QED  BY <2>1, <2>5, <2>6 DEF LoneOpens
<1>3. ASSUME AtVersion(p, "alter", Altered), Version(p) \in applied
      PROVE  op[p].alone # TRUE
  <2>1. Version(p) = 17 /\ op[p].pc = "alter"
    BY <1>3, AlterVersion
  <2> QED  BY <1>3, <2>1 DEF LoneOpens
<1>4. op[p].alone = FALSE
  <2>1. op[p].alone \in BOOLEAN
    BY <1>1 DEF Opens
  <2>2. op[p].alone # TRUE
    BY <1>2, <1>3 DEF SchemaError
  <2> QED  BY <2>1, <2>2
<1> DEFINE new == [op[p] EXCEPT !.pc = "error"]
<1>5. new \in Opens /\ new.pc = "error" /\ new.alone = FALSE /\ new.gate = op[p].gate
  BY <1>1, <1>4 DEF Opens, Stages
<1>6. op' = [op EXCEPT ![p] = new] /\ stamps' = stamps /\ applied' = applied /\ torn' = torn
  BY DEF SchemaError, brain
<1> HIDE DEF new
<1> QED  BY <1>5, <1>6 DEF Moves

\* The guard finds its tables: an open that has climbed past V27 has them.
LEMMA FinishMoves ==
  ASSUME TypeOK, ModernBrain, ModernOpens, NEW p \in Openers, Finish(p)
  PROVE  \E new \in Opens :
           /\ Moves(p, new) /\ new.pc = "open"
           /\ new.gate = op[p].gate /\ new.rooted = op[p].rooted
           /\ \A v \in Late : Past(p, v)
           /\ Working(p)
<1>1. op[p] \in Opens /\ op[p].at = 27 /\ Working(p)
  BY LadderLength DEF TypeOK, Finish, Working
<1>2. \A v \in Late : Past(p, v)
  BY <1>1 DEF Late, Past
<1>3. Late \ Optional \subseteq applied
  BY <1>1, <1>2 DEF ModernOpens
<1>4. Guarded \subseteq applied
  BY <1>3 DEF Guarded, Late, Optional, ModernBrain, Old
<1> DEFINE new == [op[p] EXCEPT !.pc = "open"]
<1>5. new \in Opens /\ new.pc = "open" /\ new.gate = op[p].gate /\ new.rooted = op[p].rooted
  BY <1>1 DEF Opens, Stages
<1>6. op' = [op EXCEPT ![p] = new] /\ stamps' = stamps /\ applied' = applied /\ torn' = torn
  BY <1>4 DEF Finish, brain
<1> HIDE DEF new
<1>7. Moves(p, new)
  BY <1>3, <1>5, <1>6 DEF Moves
<1> QED  BY <1>1, <1>2, <1>5, <1>7

\* An open ends: its process dies, or it quits.
LEMMA LeaveMoves ==
  ASSUME TypeOK, NEW p \in Openers, Die(p) \/ Quit(p)
  PROVE  \E new \in Opens : /\ Moves(p, new) /\ new.pc \in {"killed", "closed"}
                            /\ new.gate = TRUE => op[p].gate = TRUE
<1>1. CASE Die(p)
  <2> DEFINE new == [op[p] EXCEPT !.pc = "killed"]
  <2>0. op[p] \in Opens
    BY DEF TypeOK
  <2>1. new \in Opens /\ new.pc = "killed" /\ new.gate = op[p].gate
    BY <2>0 DEF Opens, Stages
  <2>2. op' = [op EXCEPT ![p] = new] /\ stamps' = stamps /\ applied' = applied /\ torn' = torn
    BY <1>1 DEF Die, brain
  <2> HIDE DEF new
  <2> QED  BY <2>1, <2>2 DEF Moves
<1>2. CASE Quit(p)
  <2>1. Closed \in Opens /\ Closed.pc = "closed" /\ Closed.gate = FALSE
    BY LadderLength DEF Closed, Opens, Stages
  <2>2. op' = [op EXCEPT ![p] = Closed] /\ stamps' = stamps /\ applied' = applied /\ torn' = torn
    BY <1>2 DEF Quit, brain
  <2> QED  BY <2>1, <2>2 DEF Moves
<1> QED  BY <1>1, <1>2

LEMMA StartLadder ==
  ASSUME TypeOK, ModernBrain, ModernOpens, LoneOpens, RootedOpens,
         NEW p \in Openers, Start(p)
  PROVE  (ModernBrain /\ ModernOpens /\ LoneOpens /\ RootedOpens)' /\ stamps' = stamps
<1> DEFINE others == {q \in Openers \ {p} : Climbing(q)}
           new == [Closed EXCEPT !.pc = "read", !.rooted = (p \in Rooted /\ configured),
                                 !.alone = (others = {}), !.settled = (flagged # "doomed")]
<1>1. stamps' = stamps
  <2>1. stamps' = stamps \cup {1, 2, 3}
    BY Zenon DEF Start
  <2> QED  BY <2>1 DEF ModernBrain
<1>2. applied' = applied /\ torn' = torn
  BY DEF Start
<1>3. op' = [q \in Openers |-> IF q = p THEN new
              ELSE IF q \in others THEN [op[q] EXCEPT !.alone = FALSE] ELSE op[q]]
  BY DEF Start
<1>4. new.pc = "read" /\ new.at = 1 /\ new.alone = (others = {})
  BY DEF Closed
<1>5. op'[p] = new
  BY <1>3
<1>6. ASSUME NEW q \in Openers \ {p}
      PROVE  /\ op'[q].pc = op[q].pc /\ op'[q].at = op[q].at /\ op'[q].ver = op[q].ver
             /\ op'[q].rooted = op[q].rooted
             /\ Climbing(q) => op'[q].alone = FALSE
             /\ ~Climbing(q) => op'[q] = op[q]
  <2>1. op[q] \in Opens
    BY DEF TypeOK
  <2>2. op'[q] = IF Climbing(q) THEN [op[q] EXCEPT !.alone = FALSE] ELSE op[q]
    <3> HIDE DEF new
    <3> QED  BY <1>3
  <2> QED  BY <2>1, <2>2 DEF Opens
<1> HIDE DEF new
<1>7. ModernBrain'
  BY <1>1, <1>2 DEF ModernBrain
<1>8. ModernOpens'
  <2>1. op'[p].pc = "read" /\ op'[p].at = 1
    BY <1>4, <1>5
  <2>2. ASSUME NEW q \in Openers, q # p
        PROVE  /\ op'[q].pc = "read" => op'[q].at = 1
               /\ Working(q)' =>
                    /\ op'[q].ver \in stamps' /\ op'[q].ver >= 15
                    /\ \A u \in Late \ Optional : Past(q, u)' => u \in applied'
               /\ op'[q].pc = "alter" => op'[q].at = 14
               /\ op'[q].pc = "stamp" => op'[q].at \in 14..25 /\ op'[q].at + 3 \in applied'
               /\ op'[q].pc = "open" => Late \ Optional \subseteq applied'
    BY <1>1, <1>2, <1>6, <2>2 DEF ModernOpens, Working, Past
  <2> QED  BY <2>1, <2>2 DEF ModernOpens, Working
<1>9. LoneOpens'
  <2>1. \A q \in Openers \ {p} : Climbing(q)' => Climbing(q)
    BY <1>6 DEF Climbing
  <2>2. ASSUME NEW q \in Openers, NEW r \in Openers, q # r, Climbing(q)', Climbing(r)'
        PROVE  op'[q].alone = FALSE
    <3>1. CASE q # p
      BY <1>6, <2>1, <2>2, <3>1
    <3>2. CASE q = p
      <4>1. r \in others
        BY <2>1, <2>2, <3>2
      <4> QED  BY <1>4, <1>5, <3>2, <4>1
    <3> QED  BY <3>1, <3>2
  <2>3. ASSUME NEW q \in Openers, op'[q].pc = "error"
        PROVE  op'[q].alone = FALSE
    <3>1. q # p
      BY <1>4, <1>5, <2>3
    <3> QED  BY <1>6, <2>3, <3>1 DEF LoneOpens
  <2>4. ASSUME NEW q \in Openers, op'[q].pc \in {"body", "alter"}, op'[q].alone = TRUE
        PROVE  FALSE
    <3>1. q # p
      BY <1>4, <1>5, <2>4
    <3>2. Climbing(q)
      BY <1>6, <2>4, <3>1 DEF Climbing
    <3> QED  BY <1>6, <2>4, <3>1, <3>2
  <2> QED  BY <2>2, <2>3, <2>4 DEF LoneOpens
<1>10. RootedOpens'
  <2>1. AtLeast(22)' <=> AtLeast(22)
    BY <1>1 DEF AtLeast
  <2>2. op'[p].pc = "read"
    BY <1>4, <1>5
  <2> QED  BY <1>2, <1>6, <2>1, <2>2 DEF RootedOpens, Working, Past
<1> QED  BY <1>1, <1>7, <1>8, <1>9, <1>10

\* What such a brain was found with is not run again.
LEMMA OldStepsOver ==
  ASSUME TypeOK, ModernOpens, NEW p \in Openers
  PROVE  ~RekeyChunks(p) /\ ~BareBegin(p) /\ ~BareEnd(p)
<1>1. ~RekeyChunks(p)
  <2> SUFFICES ASSUME RekeyChunks(p) PROVE FALSE
    OBVIOUS
  <2>1. Version(p) \in Late /\ Version(p) \in {Rekey}
    BY LateVersion DEF RekeyChunks
  <2> QED  BY <2>1 DEF Late, Rekey
<1>2. ~BareBegin(p)
  <2> SUFFICES ASSUME BareBegin(p) PROVE FALSE
    OBVIOUS
  <2>1. Version(p) \in Late /\ Version(p) \in Bare
    BY LateVersion DEF BareBegin
  <2> QED  BY <2>1 DEF Late, Bare
<1>3. ~BareEnd(p)
  <2> SUFFICES ASSUME BareEnd(p) PROVE FALSE
    OBVIOUS
  <2>1. Version(p) \in Late /\ Version(p) \in Bare
    BY LateStamp DEF BareEnd
  <2> QED  BY <2>1 DEF Late, Bare
<1> QED  BY <1>1, <1>2, <1>3

\* The steps along the ladder pass V22 and V25 by as an open that knows the vault
\* may.
LEMMA ControlRooted ==
  ASSUME TypeOK, ModernBrain, ModernOpens, LoneOpens, RootedOpens, NEW p \in Openers,
         \/ ReadVersion(p) \/ SkipVersions(p) \/ SchemaError(p) \/ Finish(p)
         \/ Die(p) \/ Quit(p) \/ (LookAtColumns(p) /\ 17 \notin applied)
  PROVE  \E new \in Opens :
           /\ Moves(p, new)
           /\ new.rooted = TRUE /\ new.pc \in {"body", "alter", "open"} =>
                /\ new.at > 19 \/ new.pc = "open" => AtLeast(22)
                /\ new.at > 22 \/ new.pc = "open" => 25 \in applied
<1>1. CASE ReadVersion(p)
  <2>1. PICK new \in Opens : Moves(p, new) /\ new.pc = "body" /\ new.at = 1
    BY <1>1, ReadMoves
  <2> QED  BY <2>1
<1>2. CASE SkipVersions(p)
  <2>1. PICK new \in Opens :
          /\ Moves(p, new) /\ new.pc = "body" /\ new.rooted = op[p].rooted
          /\ \A v \in Late : new.at > v - 3 =>
               Past(p, v) \/ (v \in 16..22 /\ v <= op[p].ver)
          /\ Working(p) /\ op[p].ver \in stamps
    BY <1>2, SkipMoves
  <2>2. 22 \in Late /\ 25 \in Late /\ 22 - 3 = 19 /\ 25 - 3 = 22
    BY DEF Late
  <2>3. ASSUME new.rooted = TRUE, new.at > 19 PROVE AtLeast(22)
    <3>1. Past(p, 22) \/ 22 <= op[p].ver
      BY <2>1, <2>2, <2>3
    <3> QED  BY <2>1, <2>3, <3>1 DEF RootedOpens, AtLeast
  <2>4. ASSUME new.rooted = TRUE, new.at > 22 PROVE 25 \in applied
    <3>1. Past(p, 25)
      BY <2>1, <2>2, <2>4
    <3> QED  BY <2>1, <2>4, <3>1 DEF RootedOpens
  <2> QED  BY <2>1, <2>3, <2>4
<1>3. CASE SchemaError(p)
  BY <1>3, ErrorMoves
<1>4. CASE Finish(p)
  <2>1. PICK new \in Opens :
          /\ Moves(p, new) /\ new.pc = "open" /\ new.rooted = op[p].rooted
          /\ \A v \in Late : Past(p, v)
          /\ Working(p)
    BY <1>4, FinishMoves
  <2>2. Past(p, 22) /\ Past(p, 25)
    BY <2>1 DEF Late
  <2> QED  BY <2>1, <2>2 DEF RootedOpens
<1>5. CASE Die(p) \/ Quit(p)
  BY <1>5, LeaveMoves
<1>6. CASE LookAtColumns(p) /\ 17 \notin applied
  <2>1. PICK new \in Opens : Moves(p, new) /\ new.pc = "alter" /\ new.at = op[p].at
    BY <1>6, LookMoves
  <2>2. op[p].at = 14
    BY <1>6, LookWorks
  <2> QED  BY <2>1, <2>2
<1> QED  BY <1>1, <1>2, <1>3, <1>4, <1>5, <1>6

LEMMA LadderKept ==
  ASSUME IInv, ModernBrain, ModernOpens, LoneOpens, RootedOpens, [Next]_vars
  PROVE  (ModernBrain /\ ModernOpens /\ LoneOpens /\ RootedOpens)'
<1>0. TypeOK
  BY DEF IInv
<1>1. ASSUME NEW p \in Openers, Start(p)
      PROVE  (ModernBrain /\ ModernOpens /\ LoneOpens /\ RootedOpens)'
  BY <1>0, <1>1, StartLadder
<1>2. ASSUME NEW p \in Openers,
             \/ ReadVersion(p) \/ SkipVersions(p) \/ SchemaError(p) \/ Finish(p)
             \/ Die(p) \/ Quit(p) \/ (LookAtColumns(p) /\ 17 \notin applied)
      PROVE  (ModernBrain /\ ModernOpens /\ LoneOpens /\ RootedOpens)'
  <2>1. PICK new \in Opens :
          /\ Moves(p, new)
          /\ new.rooted = TRUE /\ new.pc \in {"body", "alter", "open"} =>
               /\ new.at > 19 \/ new.pc = "open" => AtLeast(22)
               /\ new.at > 22 \/ new.pc = "open" => 25 \in applied
    BY <1>0, <1>2, ControlRooted
  <2>2. (ModernBrain /\ ModernOpens /\ LoneOpens)'
    BY <1>0, <2>1, MoveKeeps
  <2>3. RootedOpens'
    BY <1>0, <2>1, MoveRooted
  <2> QED  BY <2>2, <2>3
<1>3. ASSUME NEW p \in Openers, NEW v, Works(p, v)
      PROVE  (ModernBrain /\ ModernOpens /\ LoneOpens /\ RootedOpens)'
  <2>1. (ModernBrain /\ ModernOpens /\ LoneOpens)'
    BY <1>0, <1>3, WorkKeeps
  <2>2. RootedOpens'
    BY <1>0, <1>3, WorkRooted
  <2> QED  BY <2>1, <2>2
<1>4. ASSUME NEW p \in Openers, Step(p)
      PROVE  (ModernBrain /\ ModernOpens /\ LoneOpens /\ RootedOpens)'
  <2>1. CASE ReadVersion(p) \/ SkipVersions(p) \/ SchemaError(p) \/ Finish(p)
    BY <1>2, <2>1
  <2>2. CASE RekeyChunks(p) \/ BareBegin(p) \/ BareEnd(p)
    BY <1>0, <2>2, OldStepsOver
  <2>3. CASE \/ TransactionalVersion(p) \/ SplitBody(p) \/ SplitStamp(p) \/ Regrade(p)
             \/ ReviewedBy(p) \/ UnifyPaths(p) \/ EveryOpenBody(p) \/ EveryOpenStamp(p)
             \/ TemporalColumns(p) \/ DepositSeeds(p) \/ DepositStamp(p) \/ AddColumns(p)
    <3>1. Works(p, Version(p))
      BY <1>0, <2>3, TransactionalWorks, BodyWorks, StampWorks, RegradeWorks,
         ReviewedByWorks, UnifyWorks, EveryOpenStampWorks, TemporalWorks, DepositWorks
    <3> QED  BY <1>3, <3>1
  <2>4. CASE LookAtColumns(p)
    <3>1. CASE 17 \in applied
      BY <1>0, <1>3, <2>4, <3>1, LookWorks
    <3>2. CASE 17 \notin applied
      BY <1>2, <2>4, <3>2
    <3> QED  BY <3>1, <3>2
  <2> QED  BY <1>4, <2>1, <2>2, <2>3, <2>4 DEF Step
<1>5. ASSUME NEW p \in Openers, Die(p) \/ RegradeFails(p) \/ Quit(p)
      PROVE  (ModernBrain /\ ModernOpens /\ LoneOpens /\ RootedOpens)'
  BY <1>2, <1>5 DEF RegradeFails
<1>6. ASSUME UNCHANGED brain, op' = op
      PROVE  (ModernBrain /\ ModernOpens /\ LoneOpens /\ RootedOpens)'
  <2>1. ModernBrain'
    BY <1>6 DEF ModernBrain, brain
  <2>2. ModernOpens'
    BY <1>6 DEF ModernOpens, Working, Past, brain
  <2>3. LoneOpens'
    BY <1>6 DEF LoneOpens, Climbing, Past, brain
  <2>4. RootedOpens'
    BY <1>6 DEF RootedOpens, Working, Past, AtLeast, brain
  <2> QED  BY <2>1, <2>2, <2>3, <2>4
<1>7. CASE Configure \/ UnblockExport \/ ManualRegrade \/ Heal \/ UNCHANGED vars
  BY <1>6, <1>7 DEF Configure, UnblockExport, ManualRegrade, Heal, vars, brain
<1> QED  BY <1>1, <1>4, <1>5, <1>7 DEF Next

LEMMA LevelKept == ASSUME [Next]_vars PROVE level' = level
<1>1. ASSUME NEW p \in Openers,
             Start(p) \/ Step(p) \/ Die(p) \/ RegradeFails(p) \/ Quit(p)
      PROVE  level' = level
  <2>1. CASE Start(p) \/ Die(p) \/ RegradeFails(p) \/ Quit(p)
    BY <2>1 DEF Start, Die, RegradeFails, Quit, world
  <2>2. CASE Step(p)
    BY <2>2 DEF Step, ReadVersion, SkipVersions, SchemaError, TransactionalVersion,
       RekeyChunks, BareBegin, BareEnd, LookAtColumns, AddColumns, SplitBody, SplitStamp,
       Regrade, ReviewedBy, UnifyPaths, EveryOpenBody, EveryOpenStamp, TemporalColumns,
       DepositSeeds, DepositStamp, Finish, world
  <2> QED  BY <1>1, <2>1, <2>2
<1>2. CASE Configure \/ UnblockExport \/ ManualRegrade \/ Heal \/ UNCHANGED vars
  BY <1>2 DEF Configure, UnblockExport, ManualRegrade, Heal, vars, world
<1> QED  BY <1>1, <1>2 DEF Next

LEMMA LadderInit == Init => LadderInv
<1> SUFFICES ASSUME Init, Modern
             PROVE  ModernBrain /\ ModernOpens /\ LoneOpens /\ RootedOpens
  BY DEF LadderInv
<1>1. level \in 15..21 /\ stamps = {v \in Versions : v <= level} /\ torn = {}
      /\ applied = {v \in Steps : Gate(v) <= level}
  BY DEF Init, Modern
<1>2. \A p \in Openers : op[p].pc = "closed"
  BY DEF Init, Closed
<1>3. ModernBrain
  <2>1. Old \subseteq applied
    BY <1>1, LadderShape DEF Old, Gate, Rekey
  <2>2. 1..15 \subseteq stamps
    BY <1>1 DEF Versions
  <2>3. 16 \in applied => 16 \in stamps
    BY <1>1 DEF Versions, Gate, Rekey
  <2>4. ASSUME NEW s \in stamps, NEW v \in 16..19, v <= s PROVE v \in applied
    <3>1. v <= level /\ v \in Steps /\ Gate(v) = v
      BY <1>1, <2>4, LadderShape DEF Versions, Gate, Rekey, Late
    <3> QED  BY <1>1, <3>1
  <2> QED  BY <1>1, <2>1, <2>2, <2>3, <2>4 DEF ModernBrain
<1>4. ModernOpens
  BY <1>2 DEF ModernOpens, Working
<1>5. LoneOpens
  BY <1>2 DEF LoneOpens, Climbing
<1>6. RootedOpens
  BY <1>2 DEF RootedOpens, Working
<1> QED  BY <1>3, <1>4, <1>5, <1>6

LEMMA LadderInductive == Spec => [](IInv /\ LadderInv)
<1>1. Init => IInv /\ LadderInv
  BY IInit, LadderInit
<1>2. IInv /\ LadderInv /\ [Next]_vars => (IInv /\ LadderInv)'
  <2> SUFFICES ASSUME IInv, LadderInv, [Next]_vars PROVE (IInv /\ LadderInv)'
    OBVIOUS
  <2>1. IInv'
    BY NextKeeps
  <2>2. LadderInv'
    BY LevelKept, LadderKept DEF LadderInv, Modern
  <2> QED  BY <2>1, <2>2
<1> QED  BY <1>1, <1>2, PTL DEF Spec

-----------------------------------------------------------------------------
(* A brain without doomed rows, opened by the process that knows the vault *)

\* A step of an open on version v, if nothing is put off by who need not: what is
\* left behind is stamped, and nothing is stamped over V22.
Completes(p, v) ==
    /\ Working(p) /\ v \in Late /\ op[p].at = v - 3
    /\ \E new \in Opens :
         /\ op' = [op EXCEPT ![p] = new]
         /\ new.rooted = op[p].rooted /\ new.pc \in {"body", "stamp"}
         /\ new.gate = TRUE => 22 \in stamps'
         /\ op[p].rooted = TRUE /\ new.at + 3 \in {24, 26} => new.gate = TRUE
         /\ \/ new.at = v - 3
            \/ new.at = v - 2 /\ (v <= 21 \/ op[p].rooted = TRUE => v \in stamps')
    /\ \/ stamps' = stamps
       \/ stamps' = stamps \cup {v} /\ (v > 22 => 22 \in stamps)

LEMMA CompleteKeeps ==
  ASSUME TypeOK, NothingPutOff, NEW p \in Openers, NEW v, Completes(p, v)
  PROVE  NothingPutOff'
<1>1. PICK new \in Opens :
         /\ op' = [op EXCEPT ![p] = new]
         /\ new.rooted = op[p].rooted /\ new.pc \in {"body", "stamp"}
         /\ new.gate = TRUE => 22 \in stamps'
         /\ op[p].rooted = TRUE /\ new.at + 3 \in {24, 26} => new.gate = TRUE
         /\ \/ new.at = v - 3
            \/ new.at = v - 2 /\ (v <= 21 \/ op[p].rooted = TRUE => v \in stamps')
  BY DEF Completes
<1>2. v \in 16..28 /\ op[p].at = v - 3 /\ Working(p) /\ op \in [Openers -> Opens]
  BY DEF Completes, Late, TypeOK
<1>3. op'[p] = new /\ \A q \in Openers \ {p} : op'[q] = op[q]
  BY <1>1, <1>2
<1>4. /\ \/ stamps' = stamps
         \/ stamps' = stamps \cup {v} /\ (v > 22 => 22 \in stamps)
      /\ stamps \subseteq stamps' /\ stamps \subseteq 1..28
  <2>1. \/ stamps' = stamps
        \/ stamps' = stamps \cup {v} /\ (v > 22 => 22 \in stamps)
    BY DEF Completes
  <2> QED  BY <2>1 DEF TypeOK, Versions
<1>5. /\ \A u \in 16..21 : u < v => u \in stamps
      /\ op[p].rooted = TRUE => \A u \in 22..28 : u < v => u \in stamps
  BY <1>2 DEF NothingPutOff, Past
<1>6. \A s \in stamps' : \A u \in 16..22 : u <= s => u \in stamps'
  <2> SUFFICES ASSUME NEW s \in stamps', NEW u \in 16..22, u <= s
               PROVE  u \in stamps'
    OBVIOUS
  <2>1. CASE s \in stamps
    BY <1>4, <2>1 DEF NothingPutOff
  <2>2. CASE s \notin stamps /\ v > 22
    BY <1>2, <1>4, <2>2 DEF NothingPutOff
  <2>3. CASE s \notin stamps /\ v <= 22
    <3>1. s = v /\ v \in stamps'
      BY <1>4, <2>3
    <3> QED  BY <1>2, <1>4, <1>5, <2>3, <3>1
  <2> QED  BY <1>2, <2>1, <2>2, <2>3
<1>7. ASSUME NEW q \in Openers, q # p
      PROVE  /\ op'[q].gate = TRUE => 22 \in stamps'
             /\ Working(q)' =>
                  /\ \A u \in 16..21 : Past(q, u)' => u \in stamps'
                  /\ op'[q].rooted = TRUE =>
                       /\ \A u \in 22..28 : Past(q, u)' => u \in stamps'
                       /\ op'[q].at + 3 \in {24, 26} => op'[q].gate = TRUE
             /\ op'[q].pc = "open" => 16..21 \subseteq stamps'
             /\ op'[q].pc = "open" /\ op'[q].rooted = TRUE => Late \subseteq stamps'
  BY <1>3, <1>4, <1>7 DEF NothingPutOff, Working, Past
<1>8. /\ \A u \in 16..21 : Past(p, u)' => u \in stamps'
      /\ op'[p].rooted = TRUE => \A u \in 22..28 : Past(p, u)' => u \in stamps'
  <2>1. ASSUME NEW u \in 16..28, u <= 21 \/ op[p].rooted = TRUE, new.at > u - 3
        PROVE  u \in stamps'
    <3>1. CASE u < v
      BY <1>4, <1>5, <2>1, <3>1
    <3>2. CASE ~(u < v)
      <4>1. u = v /\ new.at = v - 2
        BY <1>1, <1>2, <2>1, <3>2
      <4> QED  BY <1>1, <1>2, <2>1, <4>1
    <3> QED  BY <3>1, <3>2
  <2>2. op'[p].at = new.at /\ op'[p].rooted = op[p].rooted
    BY <1>1, <1>3
  <2>3. \A u \in 16..28 : Past(p, u)' => new.at > u - 3
    BY <2>2 DEF Past
  <2>4. \A u \in 16..21 : u \in 16..28 /\ u <= 21
    OBVIOUS
  <2>5. \A u \in 22..28 : u \in 16..28
    OBVIOUS
  <2> QED  BY <2>1, <2>2, <2>3, <2>4, <2>5
<1>9. /\ op'[p].gate = TRUE => 22 \in stamps'
      /\ op'[p].rooted = TRUE /\ op'[p].at + 3 \in {24, 26} => op'[p].gate = TRUE
      /\ op'[p].pc # "open"
  BY <1>1, <1>3
<1> QED  BY <1>6, <1>7, <1>8, <1>9 DEF NothingPutOff

\* A body runs, and its stamp is next.
LEMMA ToStampCompletes ==
  ASSUME TypeOK, NothingPutOff, NEW p \in Openers, Working(p), ToStamp(p),
         Version(p) \in Late, Version(p) = op[p].at + 3, stamps' = stamps
  PROVE  Completes(p, Version(p))
<1> DEFINE new == [op[p] EXCEPT !.pc = "stamp"]
<1>1. op[p] \in Opens /\ op[p].at \in Int
  BY DEF TypeOK, Opens
<1>2. /\ new \in Opens /\ new.pc = "stamp" /\ new.at = op[p].at
      /\ new.rooted = op[p].rooted /\ new.gate = op[p].gate
  BY <1>1 DEF Opens, Stages
<1>3. op' = [op EXCEPT ![p] = new]
  BY DEF ToStamp
<1> HIDE DEF new
<1>4. op[p].at = Version(p) - 3 /\ new.at = Version(p) - 3
  BY <1>1, <1>2
<1>5. /\ new.gate = TRUE => 22 \in stamps'
      /\ op[p].rooted = TRUE /\ new.at + 3 \in {24, 26} => new.gate = TRUE
  BY <1>2 DEF NothingPutOff
<1> QED  BY <1>2, <1>3, <1>4, <1>5 DEF Completes

\* A version is left behind stamped, or put off by an open that may.
LEMMA AdvanceCompletes ==
  ASSUME TypeOK, NothingPutOff, NEW p \in Openers, Working(p), Advance(p),
         Version(p) \in Late \ {23}, Version(p) = op[p].at + 3,
         Version(p) = 25 => op[p].gate = TRUE,
         stamps' = stamps \/ (stamps' = stamps \cup {Version(p)}
                              /\ (Version(p) > 22 => 22 \in stamps)),
         Version(p) <= 21 \/ op[p].rooted = TRUE => Version(p) \in stamps'
  PROVE  Completes(p, Version(p))
<1>1. op[p].at \in Int /\ op[p].at \in 13..25
  <2>1. op[p].at \in Int
    BY DEF TypeOK, Opens
  <2> QED  BY <2>1 DEF Late
<1>2. PICK new \in Opens :
        /\ op' = [op EXCEPT ![p] = new]
        /\ new.rooted = op[p].rooted /\ new.gate = op[p].gate
        /\ new.pc = "body" /\ new.at = op[p].at + 1
  BY <1>1, AdvanceFields
<1>3. op[p].at = Version(p) - 3 /\ new.at = Version(p) - 2
  BY <1>1, <1>2
<1>4. stamps \subseteq stamps'
  OBVIOUS
<1>5. new.gate = TRUE => 22 \in stamps'
  BY <1>2, <1>4 DEF NothingPutOff
<1>6. op[p].rooted = TRUE /\ new.at + 3 \in {24, 26} => new.gate = TRUE
  BY <1>1, <1>2, <1>3
<1> QED  BY <1>2, <1>3, <1>5, <1>6 DEF Completes

\* Where the transactions of V23, V25, V27 and V28 look, V22 is the question.
LEMMA GateMeansPaths ==
  ASSUME TypeOK, NothingPutOff
  PROVE  AtLeast(22) <=> 22 \in stamps
<1>1. AtLeast(22) => 22 \in stamps
  BY DEF AtLeast, NothingPutOff
<1>2. 22 \in stamps => AtLeast(22)
  BY DEF AtLeast
<1> QED  BY <1>1, <1>2

LEMMA StepCompletes ==
  ASSUME IInv, ModernBrain, ModernOpens, NothingPutOff, flagged = "none",
         NEW p \in Openers,
         \/ TransactionalVersion(p) \/ SplitBody(p) \/ SplitStamp(p) \/ Regrade(p)
         \/ ReviewedBy(p) \/ UnifyPaths(p) \/ EveryOpenBody(p) \/ TemporalColumns(p)
         \/ DepositStamp(p) \/ AddColumns(p) \/ (LookAtColumns(p) /\ 17 \in applied)
  PROVE  Completes(p, Version(p))
<1>0. TypeOK /\ op[p] \in Opens
  BY DEF IInv, TypeOK
<1>1. CASE TransactionalVersion(p)
  <2>1. Works(p, Version(p)) /\ Version(p) = 16 /\ 16 \in stamps'
    BY <1>0, <1>1, TransactionalWorks
  <2>2. Advance(p) /\ stamps' = stamps \cup {Version(p)}
    BY <1>1 DEF TransactionalVersion
  <2>3. Working(p) /\ Version(p) \in Late \ {23} /\ Version(p) = op[p].at + 3
    BY <1>0, <2>1 DEF Works, Opens
  <2>4. ~(Version(p) > 22) /\ Version(p) # 25 /\ Version(p) \in stamps'
    BY <2>1, <2>2
  <2> QED  BY <1>0, <2>2, <2>3, <2>4, AdvanceCompletes
<1>2. CASE SplitBody(p) \/ EveryOpenBody(p) \/ AddColumns(p)
  <2>1. Works(p, Version(p))
    BY <1>0, <1>2, BodyWorks
  <2>2. ToStamp(p) /\ stamps' = stamps
    BY <1>2 DEF SplitBody, EveryOpenBody, AddColumns
  <2>3. Working(p) /\ Version(p) \in Late /\ Version(p) = op[p].at + 3
    BY <1>0, <2>1 DEF Works, Opens, Late
  <2> QED  BY <1>0, <2>2, <2>3, ToStampCompletes
<1>3. CASE SplitStamp(p) \/ DepositStamp(p)
  <2>1. /\ Works(p, Version(p)) /\ Version(p) \in {17, 18, 19, 20, 22, 25}
        /\ Advance(p) /\ stamps' = stamps \cup {Version(p)}
        /\ Version(p) = op[p].at + 3 /\ op[p].pc = "stamp"
    BY <1>0, <1>3, StampWorks
  <2>2. Version(p) = 25 => op[p].gate = TRUE /\ 22 \in stamps
    BY <2>1 DEF IInv, StampInv, NothingPutOff
  <2>3. Working(p) /\ Version(p) \in Late \ {23} /\ (Version(p) > 22 => Version(p) = 25)
    BY <2>1 DEF Works
  <2> QED  BY <1>0, <2>1, <2>2, <2>3, AdvanceCompletes
<1>4. CASE Regrade(p)
  <2>1. Works(p, Version(p)) /\ Version(p) = 20 /\ op[p].at = 17
    BY <1>0, <1>4, RegradeWorks
  <2>2. ToStamp(p) /\ stamps' = stamps
    BY <1>4 DEF Regrade
  <2> QED  BY <1>0, <2>1, <2>2, ToStampCompletes DEF Works
<1>5. CASE ReviewedBy(p)
  <2>1. Works(p, Version(p)) /\ Version(p) = 21 /\ op[p].at = 18
    BY <1>0, <1>5, ReviewedByWorks
  <2>2. 20 \in stamps
    BY <2>1 DEF NothingPutOff, Past, Works
  <2>3. AtLeast(20)
    BY <2>2 DEF AtLeast
  <2>4. Advance(p) /\ stamps' = stamps \cup {Version(p)}
    BY <1>5, <2>1, <2>3 DEF ReviewedBy
  <2>5. Working(p) /\ Version(p) \in Late \ {23} /\ Version(p) = op[p].at + 3
    BY <2>1 DEF Works
  <2>6. ~(Version(p) > 22) /\ Version(p) # 25 /\ Version(p) \in stamps'
    BY <2>1, <2>4
  <2> QED  BY <1>0, <2>4, <2>5, <2>6, AdvanceCompletes
<1>6. CASE UnifyPaths(p)
  <2>1. Works(p, Version(p)) /\ Version(p) = 22 /\ op[p].at = 19
    BY <1>0, <1>6, UnifyWorks
  <2>2. stamps' = stamps /\ op[p].rooted \in BOOLEAN
    BY <1>0, <1>6 DEF UnifyPaths, Opens
  <2>3. CASE op[p].rooted = TRUE
    <3>1. ToStamp(p)
      BY <1>6, <2>3 DEF UnifyPaths
    <3> QED  BY <1>0, <2>1, <2>2, <3>1, ToStampCompletes DEF Works
  <2>4. CASE op[p].rooted = FALSE
    <3>1. Advance(p)
      BY <1>6, <2>4 DEF UnifyPaths
    <3>2. Working(p) /\ Version(p) \in Late \ {23} /\ Version(p) = op[p].at + 3
      BY <2>1 DEF Works
    <3>3. Version(p) # 25 /\ ~(Version(p) <= 21)
      BY <2>1
    <3>4. op[p].rooted # TRUE
      BY <2>4
    <3> QED  BY <1>0, <2>2, <3>1, <3>2, <3>3, <3>4, AdvanceCompletes
  <2> QED  BY <2>2, <2>3, <2>4
<1>7. CASE TemporalColumns(p)
  <2>0. Works(p, Version(p)) /\ Version(p) = 24 /\ op[p].at = 21
    BY <1>0, <1>7, TemporalWorks
  <2>1. /\ Works(p, Version(p)) /\ Version(p) = 24 /\ op[p].at = 21 /\ Working(p)
        /\ op[p].at + 3 = 24
    <3>1. Working(p)
      BY <2>0 DEF Works
    <3>2. op[p].at + 3 = 24
      BY <2>0
    <3> QED  BY <2>0, <3>1, <3>2
  <2>2. Advance(p) /\ stamps' = IF op[p].gate THEN stamps \cup {24} ELSE stamps
    BY <1>7 DEF TemporalColumns
  <2>3. op[p].gate \in BOOLEAN /\ op[p].rooted \in BOOLEAN
    BY <1>0 DEF Opens
  <2>4. op[p].rooted = TRUE => op[p].gate = TRUE
    BY <2>1 DEF NothingPutOff
  <2>7. /\ Working(p) /\ Version(p) \in Late \ {23} /\ Version(p) = op[p].at + 3
        /\ Version(p) # 25 /\ ~(Version(p) <= 21)
    BY <2>1 DEF Works
  <2>5. CASE op[p].gate = TRUE
    <3>1. stamps' = stamps \cup {24} /\ 22 \in stamps
      BY <2>2, <2>5 DEF NothingPutOff
    <3>2. Version(p) \in stamps' /\ stamps' = stamps \cup {Version(p)}
      BY <2>1, <3>1
    <3> QED  BY <1>0, <2>2, <2>7, <3>1, <3>2, AdvanceCompletes
  <2>6. CASE op[p].gate = FALSE
    <3>1. stamps' = stamps /\ op[p].rooted # TRUE
      BY <2>2, <2>4, <2>6
    <3> QED  BY <1>0, <2>2, <2>7, <3>1, AdvanceCompletes
  <2> QED  BY <2>3, <2>5, <2>6
<1>8. CASE LookAtColumns(p) /\ 17 \in applied
  <2>1. /\ Version(p) = 17 /\ op[p].at = 14 /\ Working(p) /\ stamps' = stamps /\ ToStamp(p)
    BY <1>0, <1>8, LookWorks
  <2>2. Version(p) \in Late /\ Version(p) = op[p].at + 3
    BY <2>1 DEF Late
  <2> QED  BY <1>0, <2>1, <2>2, ToStampCompletes
<1> QED  BY <1>1, <1>2, <1>3, <1>4, <1>5, <1>6, <1>7, <1>8

LEMMA GateCompletes ==
  ASSUME IInv, ModernBrain, ModernOpens, RootedOpens, NothingPutOff, NEW p \in Openers,
         EveryOpenStamp(p) \/ DepositSeeds(p)
  PROVE  Completes(p, Version(p))
<1>0. TypeOK /\ op[p] \in Opens /\ (AtLeast(22) <=> 22 \in stamps)
  BY GateMeansPaths DEF IInv, TypeOK
<1>1. CASE EveryOpenStamp(p)
  <2> DEFINE v    == Version(p)
             gate == IF v = 26 THEN op[p].gate ELSE AtLeast(22)
             new  == [op[p] EXCEPT !.at = @ + 1, !.pc = "body", !.gate = gate]
  <2>0. v \in {23, 26, 27, 28} /\ v = op[p].at + 3 /\ op[p].pc = "stamp"
    BY <1>0, <1>1, EveryOpenStampWorks
  <2>1. /\ v \in {23, 26, 27, 28} /\ v = op[p].at + 3 /\ op[p].pc = "stamp" /\ Working(p)
        /\ op[p].at \in Int
    BY <1>0, <2>0 DEF Working, Opens
  <2>2. op' = [op EXCEPT ![p] = new] /\ stamps' = IF gate THEN stamps \cup {v} ELSE stamps
    BY <1>1 DEF EveryOpenStamp
  <2>3. gate \in BOOLEAN /\ op[p].gate \in BOOLEAN /\ op[p].rooted \in BOOLEAN
    <3>1. op[p].gate \in BOOLEAN /\ op[p].rooted \in BOOLEAN
      BY <1>0 DEF Opens
    <3>2. AtLeast(22) \in BOOLEAN
      BY DEF AtLeast
    <3> QED  BY <3>1, <3>2
  <2>4. gate = TRUE => 22 \in stamps
    BY <1>0 DEF NothingPutOff
  <2>5. op[p].rooted = TRUE => gate = TRUE
    <3>1. op[p].rooted = TRUE => 22 \in stamps
      BY <2>1 DEF NothingPutOff, Past
    <3>2. op[p].rooted = TRUE /\ v = 26 => op[p].gate = TRUE
      BY <2>1 DEF NothingPutOff
    <3> QED  BY <1>0, <3>1, <3>2
  <2> HIDE DEF v, gate
  <2>6. op[p].at + 1 \in 1..(Len(Ladder) + 1)
    BY <2>1, LadderLength
  <2>7. /\ new \in Opens /\ new.pc = "body" /\ new.at = op[p].at + 1
        /\ new.rooted = op[p].rooted /\ new.gate = gate
    BY <1>0, <2>3, <2>6 DEF Opens, Stages
  <2> HIDE DEF new
  <2>8. op[p].at = v - 3 /\ new.at = v - 2 /\ v \in Late /\ v > 21 /\ ~(v <= 21)
    BY <2>1, <2>7 DEF Late
  <2>9. /\ stamps' = stamps \/ (stamps' = stamps \cup {v} /\ (v > 22 => 22 \in stamps))
        /\ op[p].rooted = TRUE => v \in stamps'
        /\ new.gate = TRUE => 22 \in stamps'
    BY <2>2, <2>3, <2>4, <2>5, <2>7
  <2>10. op[p].rooted = TRUE => new.gate = TRUE
    BY <2>5, <2>7
  <2>11. Completes(p, v)
    BY <2>1, <2>2, <2>7, <2>8, <2>9, <2>10 DEF Completes
  <2> QED  BY <2>11 DEF v
<1>2. CASE DepositSeeds(p)
  <2>1. Version(p) = 25 /\ op[p].at = 22 /\ Working(p)
    BY <1>0, <1>2, DepositWorks DEF Works
  <2>2. stamps' = stamps /\ op[p].pc = "body"
    BY <1>2 DEF DepositSeeds, AtVersion
  <2>3. op[p].rooted = TRUE => 22 \in stamps
    BY <2>1 DEF NothingPutOff, Past
  <2> DEFINE stamp == [op[p] EXCEPT !.pc = "stamp", !.gate = TRUE]
             skip  == [op[p] EXCEPT !.at = @ + 1, !.gate = FALSE]
  <2>4. \/ 22 \in stamps /\ op' = [op EXCEPT ![p] = stamp]
        \/ 22 \notin stamps /\ op' = [op EXCEPT ![p] = skip]
    BY <1>0, <1>2 DEF DepositSeeds
  <2>5. 23 \in 1..(Len(Ladder) + 1) /\ op[p].at + 1 = 23
    BY <2>1, LadderLength
  <2>6. /\ stamp \in Opens /\ stamp.pc = "stamp" /\ stamp.at = 22
        /\ stamp.rooted = op[p].rooted /\ stamp.gate = TRUE
    BY <1>0, <2>1 DEF Opens, Stages
  <2>7. /\ skip \in Opens /\ skip.pc = "body" /\ skip.at = 23
        /\ skip.rooted = op[p].rooted /\ skip.gate = FALSE
    BY <1>0, <2>2, <2>5 DEF Opens, Stages
  <2> HIDE DEF stamp, skip
  <2>8. 25 - 3 = 22 /\ 25 - 2 = 23 /\ ~(25 <= 21) /\ 25 \in Late
    BY DEF Late
  <2>9. CASE 22 \in stamps /\ op' = [op EXCEPT ![p] = stamp]
    BY <2>1, <2>2, <2>6, <2>8, <2>9 DEF Completes
  <2>10. CASE 22 \notin stamps /\ op' = [op EXCEPT ![p] = skip]
    BY <2>1, <2>2, <2>3, <2>7, <2>8, <2>10 DEF Completes
  <2> QED  BY <2>4, <2>9, <2>10
<1> QED  BY <1>1, <1>2

\* Steps that touch no row: what the open has left behind stays stamped.
LEMMA MoveCompletes ==
  ASSUME TypeOK, NothingPutOff, NEW p \in Openers, NEW new \in Opens,
         op' = [op EXCEPT ![p] = new], stamps' = stamps, new.pc # "stamp",
         new.gate = TRUE => op[p].gate = TRUE,
         new.pc \in {"body", "alter"} =>
           /\ \A v \in 16..21 : new.at > v - 3 => v \in stamps
           /\ new.rooted = TRUE =>
                /\ \A v \in 22..28 : new.at > v - 3 => v \in stamps
                /\ new.at + 3 \in {24, 26} => new.gate = TRUE,
         new.pc = "open" => 16..21 \subseteq stamps,
         new.pc = "open" /\ new.rooted = TRUE => Late \subseteq stamps
  PROVE  NothingPutOff'
<1>1. op'[p] = new /\ \A q \in Openers \ {p} : op'[q] = op[q]
  BY DEF TypeOK
<1>2. \A s \in stamps' : \A v \in 16..22 : v <= s => v \in stamps'
  BY DEF NothingPutOff
<1>3. ASSUME NEW q \in Openers, q # p
      PROVE  /\ op'[q].gate = TRUE => 22 \in stamps'
             /\ Working(q)' =>
                  /\ \A u \in 16..21 : Past(q, u)' => u \in stamps'
                  /\ op'[q].rooted = TRUE =>
                       /\ \A u \in 22..28 : Past(q, u)' => u \in stamps'
                       /\ op'[q].at + 3 \in {24, 26} => op'[q].gate = TRUE
             /\ op'[q].pc = "open" => 16..21 \subseteq stamps'
             /\ op'[q].pc = "open" /\ op'[q].rooted = TRUE => Late \subseteq stamps'
  BY <1>1, <1>3 DEF NothingPutOff, Working, Past
<1>4. /\ op'[p].gate = TRUE => 22 \in stamps'
      /\ Working(p)' =>
           /\ \A u \in 16..21 : Past(p, u)' => u \in stamps'
           /\ op'[p].rooted = TRUE =>
                /\ \A u \in 22..28 : Past(p, u)' => u \in stamps'
                /\ op'[p].at + 3 \in {24, 26} => op'[p].gate = TRUE
      /\ op'[p].pc = "open" => 16..21 \subseteq stamps'
      /\ op'[p].pc = "open" /\ op'[p].rooted = TRUE => Late \subseteq stamps'
  <2>1. op[p].gate = TRUE => 22 \in stamps'
    BY DEF NothingPutOff
  <2> QED  BY <1>1, <2>1 DEF Working, Past
<1> QED  BY <1>2, <1>3, <1>4 DEF NothingPutOff

LEMMA ControlCompletes ==
  ASSUME TypeOK, ModernBrain, ModernOpens, LoneOpens, NothingPutOff, NEW p \in Openers,
         \/ ReadVersion(p) \/ SkipVersions(p) \/ SchemaError(p) \/ Finish(p)
         \/ Die(p) \/ Quit(p) \/ (LookAtColumns(p) /\ 17 \notin applied)
  PROVE  NothingPutOff'
<1>1. CASE ReadVersion(p)
  <2>1. PICK new \in Opens : /\ Moves(p, new) /\ new.pc = "body" /\ new.at = 1
                             /\ new.gate = op[p].gate /\ new.rooted = op[p].rooted
    BY <1>1, ReadMoves
  <2>2. /\ \A v \in 16..21 : ~(new.at > v - 3)
        /\ \A v \in 22..28 : ~(new.at > v - 3)
        /\ new.at + 3 \notin {24, 26}
    BY <2>1
  <2>3. /\ op' = [op EXCEPT ![p] = new] /\ stamps' = stamps
        /\ new.pc = "body" /\ new.gate = op[p].gate
    BY <2>1 DEF Moves
  <2> QED  BY <2>2, <2>3, MoveCompletes
<1>2. CASE SkipVersions(p)
  <2>1. PICK new \in Opens :
           /\ Moves(p, new) /\ new.pc = "body"
           /\ new.gate = op[p].gate /\ new.rooted = op[p].rooted
           /\ \A v \in Late : new.at > v - 3 =>
                Past(p, v) \/ (v \in 16..22 /\ v <= op[p].ver)
           /\ new.at + 3 \notin {24, 26, 27, 28}
    BY <1>2, SkipMoves
  <2>2. Working(p)
    BY <1>2 DEF SkipVersions, Working
  <2>3. op[p].ver \in stamps
    BY <2>2 DEF ModernOpens
  <2>4. ASSUME NEW v \in Late, new.at > v - 3, v <= 21 \/ op[p].rooted = TRUE
        PROVE  v \in stamps
    <3>1. CASE Past(p, v)
      <4>1. v \in 16..21 \/ (v \in 22..28 /\ op[p].rooted = TRUE)
        BY <2>4 DEF Late
      <4> QED  BY <2>2, <3>1, <4>1 DEF NothingPutOff
    <3>2. CASE v \in 16..22 /\ v <= op[p].ver
      BY <2>3, <3>2 DEF NothingPutOff
    <3> QED  BY <2>1, <2>4, <3>1, <3>2
  <2>5. \A v \in 16..21 : new.at > v - 3 => v \in stamps
    BY <2>4 DEF Late
  <2>6. new.rooted = TRUE => \A v \in 22..28 : new.at > v - 3 => v \in stamps
    <3> SUFFICES ASSUME new.rooted = TRUE, NEW v \in 22..28, new.at > v - 3
                 PROVE  v \in stamps
      OBVIOUS
    <3>1. v \in Late /\ op[p].rooted = TRUE
      BY <2>1 DEF Late
    <3> QED  BY <2>4, <3>1
  <2> QED  BY <2>1, <2>5, <2>6, MoveCompletes DEF Moves
<1>3. CASE SchemaError(p)
  <2>1. PICK new \in Opens : Moves(p, new) /\ new.pc = "error" /\ new.gate = op[p].gate
    BY <1>3, ErrorMoves
  <2> QED  BY <2>1, MoveCompletes DEF Moves
<1>4. CASE Finish(p)
  <2>1. PICK new \in Opens :
           /\ Moves(p, new) /\ new.pc = "open"
           /\ new.gate = op[p].gate /\ new.rooted = op[p].rooted
           /\ \A v \in Late : Past(p, v)
           /\ Working(p)
    BY <1>4, FinishMoves
  <2>2. new.rooted = TRUE => Late \subseteq stamps
    <3> SUFFICES ASSUME op[p].rooted = TRUE, NEW v \in Late PROVE v \in stamps
      BY <2>1
    <3>1. v \in 16..21 \/ v \in 22..28
      BY DEF Late
    <3> QED  BY <2>1, <3>1 DEF NothingPutOff
  <2>3. 16..21 \subseteq stamps
    <3> SUFFICES ASSUME NEW v \in 16..21 PROVE v \in stamps
      OBVIOUS
    <3>1. Past(p, v)
      BY <2>1 DEF Late
    <3> QED  BY <2>1, <3>1 DEF NothingPutOff
  <2> QED  BY <2>1, <2>2, <2>3, MoveCompletes DEF Moves
<1>5. CASE Die(p) \/ Quit(p)
  <2>1. PICK new \in Opens : /\ Moves(p, new) /\ new.pc \in {"killed", "closed"}
                             /\ new.gate = TRUE => op[p].gate = TRUE
    BY <1>5, LeaveMoves
  <2> QED  BY <2>1, MoveCompletes DEF Moves
<1>6. CASE LookAtColumns(p) /\ 17 \notin applied
  <2>1. PICK new \in Opens :
           /\ Moves(p, new) /\ new.pc = "alter" /\ new.at = op[p].at
           /\ new.gate = op[p].gate /\ new.rooted = op[p].rooted
    BY <1>6, LookMoves
  <2>2. op[p].at = 14 /\ Working(p)
    BY <1>6, LookWorks
  <2>3. \A v \in 16..21 : new.at > v - 3 => v \in stamps
    BY <2>1, <2>2 DEF NothingPutOff, Past
  <2>4. \A v \in 22..28 : ~(new.at > v - 3)
    BY <2>1, <2>2
  <2>5. new.at + 3 \notin {24, 26}
    BY <2>1, <2>2
  <2>6. /\ op' = [op EXCEPT ![p] = new] /\ stamps' = stamps
    BY <2>1 DEF Moves
  <2> QED  BY <2>1, <2>3, <2>4, <2>5, <2>6, MoveCompletes
<1> QED  BY <1>1, <1>2, <1>3, <1>4, <1>5, <1>6

LEMMA StartCompletes ==
  ASSUME TypeOK, ModernBrain, ModernOpens, LoneOpens, RootedOpens, NothingPutOff,
         NEW p \in Openers, Start(p)
  PROVE  NothingPutOff'
<1> DEFINE others == {q \in Openers \ {p} : Climbing(q)}
           new == [Closed EXCEPT !.pc = "read", !.rooted = (p \in Rooted /\ configured),
                                 !.alone = (others = {}), !.settled = (flagged # "doomed")]
<1>1. stamps' = stamps
  BY StartLadder
<1>2. op' = [q \in Openers |-> IF q = p THEN new
              ELSE IF q \in others THEN [op[q] EXCEPT !.alone = FALSE] ELSE op[q]]
  BY DEF Start
<1>3. new.pc = "read" /\ new.gate = FALSE
  BY DEF Closed
<1>4. op'[p] = new
  BY <1>2
<1> HIDE DEF new
<1>5. ASSUME NEW q \in Openers \ {p}
      PROVE  /\ op'[q].pc = op[q].pc /\ op'[q].at = op[q].at
             /\ op'[q].rooted = op[q].rooted /\ op'[q].gate = op[q].gate
  <2>1. op'[q] = [op[q] EXCEPT !.alone = FALSE] \/ op'[q] = op[q]
    BY <1>2
  <2>2. op[q] \in Opens
    BY DEF TypeOK
  <2> QED  BY <2>1, <2>2 DEF Opens
<1>6. \A s \in stamps' : \A v \in 16..22 : v <= s => v \in stamps'
  BY <1>1 DEF NothingPutOff
<1>7. ASSUME NEW q \in Openers, q # p
      PROVE  /\ op'[q].gate = TRUE => 22 \in stamps'
             /\ Working(q)' =>
                  /\ \A u \in 16..21 : Past(q, u)' => u \in stamps'
                  /\ op'[q].rooted = TRUE =>
                       /\ \A u \in 22..28 : Past(q, u)' => u \in stamps'
                       /\ op'[q].at + 3 \in {24, 26} => op'[q].gate = TRUE
             /\ op'[q].pc = "open" => 16..21 \subseteq stamps'
             /\ op'[q].pc = "open" /\ op'[q].rooted = TRUE => Late \subseteq stamps'
  BY <1>1, <1>5, <1>7 DEF NothingPutOff, Working, Past
<1>8. op'[p].pc = "read" /\ op'[p].gate = FALSE
  BY <1>3, <1>4
<1> QED  BY <1>6, <1>7, <1>8 DEF NothingPutOff, Working

LEMMA FlagsOnlyFall == ASSUME [Next]_vars, flagged' = "none", TypeOK PROVE flagged = "none"
<1>1. ASSUME NEW p \in Openers,
             Start(p) \/ Step(p) \/ Die(p) \/ RegradeFails(p) \/ Quit(p)
      PROVE  flagged = "none"
  <2>1. CASE Start(p) \/ Die(p) \/ RegradeFails(p) \/ Quit(p)
    BY <2>1 DEF Start, Die, RegradeFails, Quit, world
  <2>2. CASE Step(p)
    BY <2>2 DEF Step, ReadVersion, SkipVersions, SchemaError, TransactionalVersion,
       RekeyChunks, BareBegin, BareEnd, LookAtColumns, AddColumns, SplitBody, SplitStamp,
       Regrade, ReviewedBy, UnifyPaths, EveryOpenBody, EveryOpenStamp, TemporalColumns,
       DepositSeeds, DepositStamp, Finish, world
  <2> QED  BY <1>1, <2>1, <2>2
<1>2. CASE Configure \/ UnblockExport \/ ManualRegrade \/ Heal \/ UNCHANGED vars
  BY <1>2 DEF Configure, UnblockExport, ManualRegrade, Heal, vars, world
<1> QED  BY <1>1, <1>2 DEF Next

LEMMA RootKept ==
  ASSUME IInv, ModernBrain, ModernOpens, LoneOpens, RootedOpens, NothingPutOff,
         flagged = "none", [Next]_vars
  PROVE  NothingPutOff'
<1>0. TypeOK
  BY DEF IInv
<1>1. ASSUME NEW p \in Openers, Start(p)
      PROVE  NothingPutOff'
  BY <1>0, <1>1, StartCompletes
<1>2. ASSUME NEW p \in Openers, Step(p)
      PROVE  NothingPutOff'
  <2>1. CASE ReadVersion(p) \/ SkipVersions(p) \/ SchemaError(p) \/ Finish(p)
    BY <1>0, <2>1, ControlCompletes
  <2>2. CASE RekeyChunks(p) \/ BareBegin(p) \/ BareEnd(p)
    BY <1>0, <2>2, OldStepsOver
  <2>3. CASE \/ TransactionalVersion(p) \/ SplitBody(p) \/ SplitStamp(p) \/ Regrade(p)
             \/ ReviewedBy(p) \/ UnifyPaths(p) \/ EveryOpenBody(p) \/ TemporalColumns(p)
             \/ DepositStamp(p) \/ AddColumns(p)
    BY <1>0, <2>3, StepCompletes, CompleteKeeps
  <2>4. CASE EveryOpenStamp(p) \/ DepositSeeds(p)
    BY <1>0, <2>4, GateCompletes, CompleteKeeps
  <2>5. CASE LookAtColumns(p)
    <3>1. CASE 17 \in applied
      BY <1>0, <2>5, <3>1, StepCompletes, CompleteKeeps
    <3>2. CASE 17 \notin applied
      BY <1>0, <2>5, <3>2, ControlCompletes
    <3> QED  BY <3>1, <3>2
  <2> QED  BY <1>2, <2>1, <2>2, <2>3, <2>4, <2>5 DEF Step
<1>3. ASSUME NEW p \in Openers, Die(p) \/ RegradeFails(p) \/ Quit(p)
      PROVE  NothingPutOff'
  BY <1>0, <1>3, ControlCompletes DEF RegradeFails
<1>4. CASE Configure \/ UnblockExport \/ ManualRegrade \/ Heal \/ UNCHANGED vars
  <2>1. stamps' = stamps /\ op' = op
    BY <1>4 DEF Configure, UnblockExport, ManualRegrade, Heal, vars, brain
  <2> QED  BY <2>1 DEF NothingPutOff, Working, Past
<1> QED  BY <1>1, <1>2, <1>3, <1>4 DEF Next

LEMMA RootInit == Init => RootInv
<1> SUFFICES ASSUME Init PROVE NothingPutOff
  BY DEF RootInv
<1>1. level \in 0..21 /\ stamps = {v \in Versions : v <= level}
  BY DEF Init
<1>2. \A p \in Openers : op[p].pc = "closed" /\ op[p].gate = FALSE
  BY DEF Init, Closed
<1>3. \A s \in stamps : \A v \in 16..22 : v <= s => v \in stamps
  BY <1>1 DEF Versions
<1> QED  BY <1>2, <1>3 DEF NothingPutOff, Working

LEMMA RootInductive == Spec => [](IInv /\ LadderInv /\ RootInv)
<1>1. Init => RootInv
  BY RootInit
<1>2. /\ IInv /\ LadderInv /\ RootInv /\ [Next]_vars
      => RootInv'
  <2> SUFFICES ASSUME IInv, LadderInv, RootInv, [Next]_vars, Modern', flagged' = "none"
               PROVE  NothingPutOff'
    BY DEF RootInv
  <2>1. Modern /\ flagged = "none"
    BY LevelKept, FlagsOnlyFall DEF Modern, IInv
  <2> QED  BY <2>1, RootKept DEF LadderInv, RootInv
<1> QED  BY <1>1, <1>2, LadderInductive, PTL DEF Spec
(* The variables keep their types (db/connection.rs:220-960).              *)
THEOREM TypeCorrect == Spec => []TypeOK
BY Inductive, PTL DEF IInv

(* A version that is stamped has run, but for V28, whatever opens overlap  *)
(* and wherever they die (db/connection.rs:220-960).                       *)
THEOREM StampsAreTrue == Spec => []StampMeansApplied
BY Inductive, PTL DEF IInv

(* No stamp hides the paths V22 has put off, and none but V22's the rows   *)
(* V20 still has to export and the column V21 adds after them              *)
(* (db/connection.rs:497-720).                                             *)
THEOREM NothingIsMasked == Spec => []DeferredIsNotMasked
BY Inductive, PTL DEF IInv

-----------------------------------------------------------------------------
(* An open that has reached its end serves a brain in which everything has *)
(* run but what that open was let to leave undone, if the brain was found  *)
(* at version 15 or later: V22, and V25 after it, without the vault; V20,  *)
(* and V21 after it, over doomed rows (db/connection.rs:220-1101).         *)
THEOREM WhatServesIsWhole == Spec => []OpenedIsUsable
<1>1. IInv /\ LadderInv /\ RootInv => OpenedIsUsable
  <2> SUFFICES ASSUME IInv, LadderInv, RootInv, Modern,
                      NEW p \in Openers, op[p].pc = "open",
                      NEW v \in Steps \ MayLack(p)
               PROVE  v \in applied
    BY DEF Modern, OpenedIsUsable
  <2>1. /\ StampMeansApplied /\ DeferredIsNotMasked /\ ModernBrain /\ ModernOpens
        /\ RootedOpens /\ op[p].rooted \in BOOLEAN
    BY DEF IInv, LadderInv, TypeOK, Opens
  <2>2. Late \ Optional \subseteq applied /\ Old \subseteq applied
    BY <2>1 DEF ModernOpens, ModernBrain
  <2>3. CASE v \in {22, 25}
    <3>1. op[p].rooted = TRUE
      BY <2>1, <2>3 DEF MayLack
    <3>2. AtLeast(22) /\ 25 \in applied
      BY <2>1, <3>1 DEF RootedOpens
    <3> QED  BY <2>1, <2>3, <3>2 DEF DeferredIsNotMasked
  <2>4. CASE v \in {20, 21}
    <3>1. flagged = "none"
      BY <2>4 DEF MayLack
    <3>2. v \in stamps
      BY <2>4, <3>1 DEF RootInv, NothingPutOff
    <3> QED  BY <2>1, <2>4, <3>2 DEF StampMeansApplied
  <2> QED  BY <2>2, <2>3, <2>4, LadderShape DEF Optional
<1> QED  BY <1>1, RootInductive, PTL

(* Nothing that opens have done or left undone makes an undisturbed open   *)
(* fail: a refused statement is one of two opens at a time                 *)
(* (db/connection.rs:574).                                                 *)
THEOREM NoOpenFailsAlone == Spec => []NoBootLoop
<1>1. LadderInv => NoBootLoop
  BY DEF LadderInv, Modern, LoneOpens, NoBootLoop
<1> QED  BY <1>1, LadderInductive, PTL

(* An open that knows the vault, of a brain without doomed rows, runs and  *)
(* stamps all of the ladder, whatever was put off or lost before           *)
(* (db/connection.rs:676-960).                                             *)
THEOREM RootedOpensComplete == Spec => []RootedOpenCompletes
<1>1. IInv /\ LadderInv /\ RootInv => RootedOpenCompletes
  <2> SUFFICES ASSUME IInv, LadderInv, RootInv, NEW p \in Openers, op[p].pc = "open",
                      op[p].rooted, Modern, flagged = "none"
               PROVE  Steps \subseteq applied /\ Steps \ {Rekey} \subseteq stamps
    BY DEF Modern, RootedOpenCompletes
  <2>0. StampMeansApplied /\ ModernBrain /\ ModernOpens /\ NothingPutOff /\ op[p].rooted = TRUE
    <3>1. op[p].rooted \in BOOLEAN
      BY DEF IInv, TypeOK, Opens
    <3> QED  BY <3>1 DEF IInv, LadderInv, RootInv
  <2>1. Late \subseteq stamps /\ Late \ Optional \subseteq applied
    BY <2>0 DEF NothingPutOff, ModernOpens
  <2>2. Old \subseteq applied /\ Old \ {Rekey} \subseteq stamps
    BY <2>0 DEF ModernBrain, Old, Rekey
  <2>3. Optional \subseteq applied
    BY <2>0, <2>1, LadderShape DEF StampMeansApplied, Optional, Late
  <2> QED  BY <2>1, <2>2, <2>3, LadderShape DEF Rekey
<1> QED  BY <1>1, RootInductive, PTL
=============================================================================
