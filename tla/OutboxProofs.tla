---------------------------- MODULE OutboxProofs ----------------------------
(***************************************************************************)
(* The Postgres outbox.  First its rows: what the runs of Outbox check for *)
(* two workers and three events, proved for any number of both, any batch  *)
(* and chunk size and any number of failures.  Then the ownership of the   *)
(* desktop's worker (OutboxLifecycle), for any number of start commands,   *)
(* tasks and configurations.  The two specifications share no variable.    *)
(***************************************************************************)
EXTENDS Outbox, OutboxLifecycle, TLAPS

(* A batch is part of the table it was read from, and comes before the     *)
(* rest of it.                                                             *)
LEMMA HeadsInside ==
  ASSUME NEW S, NEW n, NEW B \in Heads(S, n)
  PROVE  /\ B \subseteq S
         /\ \A e \in B, f \in S \ B : Before(e, f)
BY DEF Heads

(* Inserting an event lands that event, keeps what has landed, and keeps   *)
(* the remote table a sequence of event numbers.                           *)
LEMMA InsertLands ==
  ASSUME remote \in Seq(Nat), NEW e \in Nat, Insert(e)
  PROVE  /\ remote' \in Seq(Nat)
         /\ Landed' = Landed \cup {e}
<1>1. CASE e \in Landed
  BY <1>1 DEF Insert, Landed
<1>2. CASE e \notin Landed
  <2>1. remote' = Append(remote, e)  BY <1>2 DEF Insert
  <2>2. /\ remote' \in Seq(Nat) /\ DOMAIN remote' = 1..(Len(remote) + 1)
        /\ DOMAIN remote = 1..Len(remote) /\ Len(remote) \in Nat
        /\ \A i \in 1..Len(remote) : remote'[i] = remote[i]
        /\ remote'[Len(remote) + 1] = e
    BY <2>1
  <2>3. Landed' = Landed \cup {e}  BY <2>2 DEF Landed
  <2> QED  BY <2>2, <2>3
<1> QED  BY <1>1, <1>2

(* A new event gets the next number; what is committed keeps its stamp.    *)
LEMMA PushGrows ==
  ASSUME TypeOK, Push
  PROVE  /\ stamp' \in Seq(0..MaxStamp)
         /\ Len(stamp') = Len(stamp) + 1
         /\ Len(stamp') <= MaxEvents
         /\ \A e \in Committed : stamp'[e] = stamp[e]
         /\ stamp'[Len(stamp) + 1] \in Stamps
         /\ Committed' = Committed \cup {Len(stamp) + 1}
<1> USE OutboxAssumption
<1>1. PICK s \in Stamps : stamp' = Append(stamp, s)  BY DEF Push
<1>2. Stamps \subseteq 0..MaxStamp
  <2>1. CASE setup.backdated \/ stamp = <<>>  BY <2>1 DEF Stamps
  <2>2. CASE ~(setup.backdated \/ stamp = <<>>)
    <3>1. stamp[Len(stamp)] \in 0..MaxStamp  BY <2>2 DEF TypeOK
    <3> QED  BY <2>2, <3>1 DEF Stamps
  <2> QED  BY <2>1, <2>2
<1>3. s \in 0..MaxStamp  BY <1>1, <1>2
<1>4. stamp \in Seq(0..MaxStamp) /\ Len(stamp) \in Nat  BY DEF TypeOK
<1>5. Len(stamp) < MaxEvents  BY DEF Push, TypeOK
<1> QED  BY <1>1, <1>3, <1>4, <1>5 DEF Committed

LEMMA Frame ==
  /\ UNCHANGED stamp => Committed' = Committed
  /\ UNCHANGED remote => Landed' = Landed
BY DEF Committed, Landed

-----------------------------------------------------------------------------
LEMMA TypeInit == Init => TypeOK
BY OutboxAssumption DEF Init, TypeOK, Committed, Landed

LEMMA TypePush ==
  ASSUME TypeOK, Push
  PROVE  TypeOK'
<1>1. UNCHANGED <<remote, late, skipped, pc, todo, done, call, cancelled, faults,
                  setup>>
      /\ rows' = rows \cup {Len(stamp) + 1}
  BY DEF Push, worker
<1>2. Landed' = Landed  BY <1>1 DEF Landed
<1>3. Committed \subseteq Committed' /\ Len(stamp) + 1 \in Committed'
  BY PushGrows
<1>4. \A f \in [Workers -> SUBSET Committed] : f \in [Workers -> SUBSET Committed']
  BY <1>3
<1> QED
  BY <1>1, <1>2, <1>3, <1>4, PushGrows DEF TypeOK

LEMMA TypeLandLate ==
  ASSUME TypeOK, LandLate
  PROVE  TypeOK'
<1>1. PICK e \in late : Insert(e) /\ late' = late \ {e}  BY DEF LandLate
<1>2. e \in Nat /\ e \in Committed  BY <1>1 DEF TypeOK, Committed
<1>3. remote' \in Seq(Nat) /\ Landed' = Landed \cup {e}
  BY <1>1, <1>2, InsertLands DEF TypeOK
<1>4. UNCHANGED <<stamp, rows, skipped, pc, todo, done, call, cancelled, faults,
               setup>>
  BY DEF LandLate, worker
<1> QED  BY <1>1, <1>2, <1>3, <1>4 DEF TypeOK, Committed

LEMMA TypeWorker ==
  ASSUME TypeOK, NEW w \in Workers, Advance(w) \/ Disturb(w)
  PROVE  TypeOK'
<1> USE OutboxAssumption, Frame
<1>1. CASE Start(w) \/ Exit(w) \/ Send(w) \/ Stop(w)
  <2>1. CASE Start(w)  BY <2>1 DEF TypeOK, Start
  <2>2. CASE Exit(w)  BY <2>2 DEF TypeOK, Exit
  <2>3. CASE Send(w)  BY <2>3 DEF TypeOK, Send
  <2>4. CASE Stop(w)  BY <2>4 DEF TypeOK, Stop
  <2> QED  BY <1>1, <2>1, <2>2, <2>3, <2>4
<1>2. CASE Poll(w)
  <2>1. PICK B \in Heads(Visible, BatchSize) : todo' = [todo EXCEPT ![w] = B]
    BY <1>2 DEF Poll
  <2>2. B \subseteq Committed  BY <2>1, HeadsInside DEF Visible, TypeOK
  <2> QED  BY <1>2, <2>1, <2>2 DEF Poll, TypeOK
<1>3. CASE PollEmpty(w)
  BY <1>3 DEF PollEmpty, vars, worker, TypeOK
<1>4. CASE Land(w)
  <2>1. PICK e \in todo[w] : Insert(e)  BY <1>4 DEF Land
  <2>2. e \in Nat /\ e \in Committed  BY <2>1 DEF TypeOK, Committed
  <2>3. remote' \in Seq(Nat) /\ Landed' = Landed \cup {e}
    BY <2>1, <2>2, InsertLands DEF TypeOK
  <2> QED  BY <1>4, <2>2, <2>3 DEF Land, TypeOK, Committed
<1>5. CASE Answer(w)
  BY <1>5 DEF Answer, TypeOK
<1>6. CASE FailHalt(w)
  <2>1. PICK e \in todo[w] : Abandon(w, e)  BY <1>6 DEF FailHalt
  <2>2. late' \subseteq Committed  BY <2>1 DEF Abandon, TypeOK
  <2> QED  BY <1>6, <2>2 DEF FailHalt, TypeOK
<1>7. CASE FailSkip(w)
  <2>1. PICK e \in todo[w] : /\ Abandon(w, e)
                             /\ todo' = [todo EXCEPT ![w] = @ \ {e}]
                             /\ done' = [done EXCEPT ![w] = @ \cup {e}]
                             /\ skipped' = skipped \cup {e}
    BY <1>7 DEF FailSkip
  <2>2. late' \subseteq Committed /\ e \in Committed  BY <2>1 DEF Abandon, TypeOK
  <2> QED  BY <1>7, <2>1, <2>2 DEF FailSkip, TypeOK
<1>8. CASE EndBatch(w)
  BY <1>8 DEF EndBatch, TypeOK
<1>9. CASE Ack(w)
  <2>1. PICK B \in Heads(done[w], Chunk) :
          /\ rows' = rows \ B
          /\ done' = [done EXCEPT ![w] = @ \ B]
          /\ pc' = IF B = done[w] THEN [pc EXCEPT ![w] = "idle"] ELSE pc
    BY <1>9 DEF Ack
  <2> QED  BY <1>9, <2>1 DEF Ack, TypeOK
<1>10. CASE AckFails(w)
  BY <1>10 DEF AckFails, TypeOK
<1>11. CASE Kill(w)
  <2>1. late' \subseteq Committed
    BY <1>11 DEF Kill, Abandon, TypeOK
  <2> QED  BY <1>11, <2>1 DEF Kill, TypeOK
<1> QED
  BY <1>1, <1>2, <1>3, <1>4, <1>5, <1>6, <1>7, <1>8, <1>9, <1>10, <1>11
     DEF Advance, Disturb

LEMMA TypeStutter == TypeOK /\ UNCHANGED vars => TypeOK'
BY Frame DEF TypeOK, vars, worker

(* Every operation of any number of workers, failing or not, keeps the     *)
(* state well-formed; in particular only committed events are ever sent.   *)
THEOREM TypeCorrect == Spec => []TypeOK
<1>1. Init => TypeOK  BY TypeInit
<1>2. TypeOK /\ [Next]_vars => TypeOK'
  BY TypePush, TypeLandLate, TypeWorker, TypeStutter DEF Next
<1> QED  BY <1>1, <1>2, PTL DEF Spec

-----------------------------------------------------------------------------
(* A worker only counts as processed what has arrived or was skipped, and  *)
(* an insert that has executed has landed the oldest event of the batch.   *)
DoneSettled == \A w \in Workers : done[w] \subseteq Landed \cup skipped
CallLanded ==
  \A w \in Workers : call[w] = "landed" =>
    \A e \in todo[w] : IsOldest(e, todo[w]) => e \in Landed

CallInBatch == \A w \in Workers : call[w] # "none" => pc[w] = "sending"

SafeInv == TypeOK /\ CallInBatch /\ DoneSettled /\ CallLanded /\ NothingLost

(* Stamps of committed events do not change, so the order of a batch does  *)
(* not either.                                                             *)
LEMMA OldestStays ==
  ASSUME TypeOK, NEW S \in SUBSET Committed, NEW e \in S,
         \A f \in Committed : stamp'[f] = stamp[f]
  PROVE  IsOldest(e, S)' <=> IsOldest(e, S)
BY DEF IsOldest, Before, Committed

LEMMA OnlyOneOldest ==
  ASSUME TypeOK, NEW S \in SUBSET Committed, NEW e \in S, NEW f \in S,
         IsOldest(e, S), IsOldest(f, S)
  PROVE  e = f
<1>1. stamp[e] \in Nat /\ stamp[f] \in Nat /\ e \in Nat /\ f \in Nat
  BY OutboxAssumption DEF TypeOK, Committed
<1> QED  BY <1>1 DEF IsOldest, Before

LEMMA CallStaysInBatch ==
  ASSUME TypeOK, CallInBatch, [Next]_vars
  PROVE  CallInBatch'
<1>1. CASE UNCHANGED <<pc, call>>  BY <1>1 DEF CallInBatch
<1>2. ASSUME NEW w \in Workers, Advance(w) \/ Disturb(w)
      PROVE  CallInBatch'
  <2>1. CASE Start(w) \/ Exit(w) \/ Poll(w) \/ Send(w) \/ Land(w) \/ Answer(w)
    BY <2>1 DEF CallInBatch, TypeOK, Start, Exit, Poll, Send, Land, Answer
  <2>2. CASE PollEmpty(w) \/ EndBatch(w) \/ Stop(w)
    BY <2>2 DEF CallInBatch, TypeOK, PollEmpty, EndBatch, Stop, vars, worker
  <2>3. CASE Ack(w)
    <3>1. call' = call /\ pc[w] = "ack" /\ \A v \in Workers \ {w} : pc'[v] = pc[v]
      BY <2>3 DEF Ack, TypeOK
    <3> QED  BY <3>1 DEF CallInBatch
  <2>4. CASE AckFails(w) \/ FailHalt(w) \/ FailSkip(w) \/ Kill(w)
    BY <2>4 DEF CallInBatch, TypeOK, AckFails, FailHalt, FailSkip, Kill
  <2> QED  BY <1>2, <2>1, <2>2, <2>3, <2>4 DEF Advance, Disturb
<1> QED  BY <1>1, <1>2 DEF Next, Push, LandLate, vars, worker

LEMMA SafePush ==
  ASSUME SafeInv, Push
  PROVE  DoneSettled' /\ CallLanded' /\ NothingLost'
<1> USE DEF SafeInv
<1>1. /\ UNCHANGED <<remote, late, skipped, pc, todo, done, call>>
      /\ rows' = rows \cup {Len(stamp) + 1}
  BY DEF Push, worker
<1>2. Landed' = Landed  BY <1>1, Frame
<1>3. DoneSettled'  BY <1>1, <1>2 DEF DoneSettled
<1>4. CallLanded'
  <2> SUFFICES ASSUME NEW w \in Workers, call[w] = "landed",
                      NEW e \in todo[w], IsOldest(e, todo[w])'
               PROVE  e \in Landed
    BY <1>1, <1>2 DEF CallLanded
  <2>1. todo[w] \in SUBSET Committed  BY DEF TypeOK
  <2>2. IsOldest(e, todo[w])  BY <1>1, <2>1, OldestStays, PushGrows
  <2> QED  BY <2>2 DEF CallLanded
<1>5. NothingLost'  BY <1>1, <1>2, PushGrows DEF NothingLost
<1> QED  BY <1>3, <1>4, <1>5

LEMMA SafeLandLate ==
  ASSUME SafeInv, LandLate
  PROVE  DoneSettled' /\ CallLanded' /\ NothingLost'
<1> USE DEF SafeInv
<1>1. PICK e \in late : Insert(e)  BY DEF LandLate
<1>2. Landed' = Landed \cup {e}
  BY <1>1, InsertLands DEF TypeOK, Committed
<1>3. UNCHANGED <<stamp, rows, skipped, pc, todo, done, call>>
  BY DEF LandLate, worker
<1>4. CallLanded'  BY <1>2, <1>3, Frame DEF CallLanded, IsOldest, Before
<1> QED  BY <1>2, <1>3, <1>4, Frame DEF DoneSettled, NothingLost

LEMMA SafeWorker ==
  ASSUME SafeInv, NEW w \in Workers, Advance(w) \/ Disturb(w)
  PROVE  DoneSettled' /\ CallLanded' /\ NothingLost'
<1> USE Frame DEF SafeInv
<1>1. CASE Start(w) \/ Exit(w) \/ Stop(w) \/ PollEmpty(w)
  <2>1. UNCHANGED <<stamp, rows, remote, skipped, todo, done, call>>
    BY <1>1 DEF Start, Exit, Stop, PollEmpty, vars, worker
  <2>2. CallLanded'  BY <2>1 DEF CallLanded, IsOldest, Before
  <2> QED  BY <2>1, <2>2 DEF DoneSettled, NothingLost
<1>2. CASE Poll(w) \/ Send(w) \/ EndBatch(w)
  <2>1. UNCHANGED <<stamp, rows, remote, skipped, done>>
    BY <1>2 DEF Poll, Send, EndBatch
  <2>2. \A v \in Workers \ {w} : todo'[v] = todo[v] /\ call'[v] = call[v]
    BY <1>2 DEF Poll, Send, EndBatch, TypeOK
  <2>3. call'[w] = "landed" => call[w] = "landed" /\ todo'[w] = {}
    BY <1>2 DEF Poll, Send, EndBatch, TypeOK, CallInBatch
  <2>4. CallLanded'  BY <2>1, <2>2, <2>3 DEF CallLanded, IsOldest, Before
  <2> QED  BY <2>1, <2>4 DEF DoneSettled, NothingLost
<1>3. CASE Land(w)
  <2>1. PICK e \in todo[w] : IsOldest(e, todo[w]) /\ Insert(e)
    BY <1>3 DEF Land
  <2>2. Landed' = Landed \cup {e}
    BY <2>1, InsertLands DEF TypeOK, Committed
  <2>3. UNCHANGED <<stamp, rows, skipped, todo, done>>
        /\ \A v \in Workers \ {w} : call'[v] = call[v]
    BY <1>3 DEF Land, TypeOK
  <2>4. CallLanded'
    <3> SUFFICES ASSUME NEW v \in Workers, call'[v] = "landed",
                        NEW f \in todo[v], IsOldest(f, todo[v])
                 PROVE  f \in Landed'
      BY <2>3 DEF CallLanded, IsOldest, Before
    <3>1. CASE v = w
      <4>1. todo[w] \in SUBSET Committed  BY DEF TypeOK
      <4>2. f = e  BY <2>1, <3>1, <4>1, OnlyOneOldest
      <4> QED  BY <2>2, <4>2
    <3>2. CASE v # w  BY <2>2, <2>3, <3>2 DEF CallLanded
    <3> QED  BY <3>1, <3>2
  <2> QED  BY <2>2, <2>3, <2>4 DEF DoneSettled, NothingLost
<1>4. CASE Answer(w)
  <2>1. PICK e \in todo[w] : /\ IsOldest(e, todo[w])
                             /\ todo' = [todo EXCEPT ![w] = @ \ {e}]
                             /\ done' = [done EXCEPT ![w] = @ \cup {e}]
    BY <1>4 DEF Answer
  <2>2. e \in Landed  BY <1>4, <2>1 DEF Answer, CallLanded
  <2>3. UNCHANGED <<stamp, rows, remote, skipped>>
        /\ call' = [call EXCEPT ![w] = "none"]
    BY <1>4 DEF Answer
  <2>4. DoneSettled'  BY <2>1, <2>2, <2>3 DEF DoneSettled, TypeOK
  <2>5. CallLanded'
    BY <2>1, <2>3 DEF CallLanded, TypeOK, IsOldest, Before
  <2> QED  BY <2>3, <2>4, <2>5 DEF NothingLost
<1>5. CASE FailHalt(w) \/ Kill(w)
  <2>1. /\ UNCHANGED <<stamp, rows, remote, skipped>>
        /\ call' = [call EXCEPT ![w] = "none"]
        /\ todo' = [todo EXCEPT ![w] = {}]
        /\ done' = done \/ done' = [done EXCEPT ![w] = {}]
    BY <1>5 DEF FailHalt, Kill
  <2>2. DoneSettled'  BY <2>1 DEF DoneSettled, TypeOK
  <2>3. CallLanded'  BY <2>1 DEF CallLanded, TypeOK, IsOldest, Before
  <2> QED  BY <2>1, <2>2, <2>3 DEF NothingLost
<1>6. CASE FailSkip(w)
  <2>1. PICK e \in todo[w] : /\ todo' = [todo EXCEPT ![w] = @ \ {e}]
                             /\ done' = [done EXCEPT ![w] = @ \cup {e}]
                             /\ skipped' = skipped \cup {e}
    BY <1>6 DEF FailSkip
  <2>2. UNCHANGED <<stamp, rows, remote>> /\ call' = [call EXCEPT ![w] = "none"]
    BY <1>6 DEF FailSkip
  <2>3. DoneSettled'  BY <2>1, <2>2 DEF DoneSettled, TypeOK
  <2>4. CallLanded'
    BY <2>1, <2>2 DEF CallLanded, TypeOK, IsOldest, Before
  <2> QED  BY <2>1, <2>2, <2>3, <2>4 DEF NothingLost
<1>7. CASE Ack(w) \/ AckFails(w)
  <2>1. UNCHANGED <<stamp, remote, skipped, todo, call>>
    BY <1>7 DEF Ack, AckFails
  <2>2. \E B \in SUBSET done[w] :
          rows' = rows \ B /\ (\A v \in Workers : done'[v] \subseteq done[v])
    <3>1. CASE Ack(w)
      <4>1. PICK B \in Heads(done[w], Chunk) :
              rows' = rows \ B /\ done' = [done EXCEPT ![w] = @ \ B]
        BY <3>1 DEF Ack
      <4> QED  BY <4>1, HeadsInside DEF TypeOK
    <3>2. CASE AckFails(w)
      <4>1. rows' = rows \ {} /\ \A v \in Workers : done'[v] \subseteq done[v]
        BY <3>2 DEF AckFails, TypeOK
      <4> QED  BY <4>1
    <3> QED  BY <1>7, <3>1, <3>2
  <2>3. NothingLost'  BY <2>1, <2>2 DEF NothingLost, DoneSettled
  <2>4. CallLanded'  BY <2>1 DEF CallLanded, IsOldest, Before
  <2> QED  BY <2>1, <2>2, <2>3, <2>4 DEF DoneSettled
<1> QED
  BY <1>1, <1>2, <1>3, <1>4, <1>5, <1>6, <1>7 DEF Advance, Disturb

LEMMA SafeInvariant == Spec => []SafeInv
<1>1. Init => SafeInv
  BY TypeInit DEF Init, SafeInv, CallInBatch, DoneSettled, CallLanded, NothingLost, Committed
<1>2. SafeInv /\ [Next]_vars => SafeInv'
  <2> SUFFICES ASSUME SafeInv, [Next]_vars
               PROVE  SafeInv'
    OBVIOUS
  <2>1. TypeOK'
    BY TypePush, TypeLandLate, TypeWorker, TypeStutter DEF SafeInv, Next
  <2>2. CallInBatch'  BY CallStaysInBatch DEF SafeInv
  <2>3. CASE UNCHANGED vars
    BY <2>1, <2>3, <2>2, Frame
       DEF SafeInv, DoneSettled, CallLanded, NothingLost, IsOldest, Before,
           vars, worker
  <2> QED
    BY <2>1, <2>3, <2>2, SafePush, SafeLandLate, SafeWorker DEF Next, SafeInv
<1> QED  BY <1>1, <1>2, PTL DEF Spec

(* No committed mutation disappears from the outbox before it has arrived, *)
(* whatever fails and however many workers share the table; only Skip      *)
(* gives an event up, and only one whose insert failed.                    *)
THEOREM NoEventIsLost == Spec => []NothingLost
BY SafeInvariant, PTL DEF SafeInv

-----------------------------------------------------------------------------
OnceInv == TypeOK /\ ExactlyOnce

LEMMA InsertOnce ==
  ASSUME OnceInv, NEW e \in Nat, Insert(e)
  PROVE  ExactlyOnce'
<1>1. CASE e \in Landed
  BY <1>1 DEF Insert, OnceInv, ExactlyOnce
<1>2. CASE e \notin Landed
  <2>1. remote' = Append(remote, e)  BY <1>2 DEF Insert
  <2>2. /\ DOMAIN remote' = 1..(Len(remote) + 1)
        /\ DOMAIN remote = 1..Len(remote) /\ Len(remote) \in Nat
        /\ \A i \in 1..Len(remote) : remote'[i] = remote[i]
        /\ remote'[Len(remote) + 1] = e
    BY <2>1 DEF OnceInv, TypeOK
  <2>3. \A i \in 1..Len(remote) : remote[i] # e  BY <1>2, <2>2 DEF Landed
  <2> QED  BY <2>2, <2>3 DEF OnceInv, ExactlyOnce
<1> QED  BY <1>1, <1>2

(* The remote table holds every event at most once, under either policy.   *)
THEOREM DeliveredOnce == Spec => []ExactlyOnce
<1>1. Init => OnceInv
  BY TypeInit DEF Init, OnceInv, ExactlyOnce
<1>2. OnceInv /\ [Next]_vars => OnceInv'
  <2> SUFFICES ASSUME OnceInv, [Next]_vars
               PROVE  ExactlyOnce'
    BY TypePush, TypeLandLate, TypeWorker, TypeStutter DEF OnceInv, Next
  <2>1. CASE UNCHANGED remote  BY <2>1 DEF OnceInv, ExactlyOnce
  <2>2. CASE LandLate
    <3>1. PICK e \in late : Insert(e)  BY <2>2 DEF LandLate
    <3> QED  BY <3>1, InsertOnce DEF OnceInv, TypeOK, Committed
  <2>3. ASSUME NEW w \in Workers, Land(w)
        PROVE  ExactlyOnce'
    <3>1. PICK e \in todo[w] : Insert(e)  BY <2>3 DEF Land
    <3>2. e \in Nat  BY <3>1 DEF OnceInv, TypeOK, Committed
    <3> QED  BY <3>1, <3>2, InsertOnce
  <2>4. [Next]_vars =>
          UNCHANGED remote \/ LandLate \/ \E w \in Workers : Land(w)
    BY DEF Next, Advance, Disturb, Push, Start, Exit, Poll, PollEmpty, Send,
           Answer, EndBatch, Ack, Stop, FailHalt, FailSkip, AckFails, Kill,
           vars, worker
  <2> QED  BY <2>1, <2>2, <2>3, <2>4
<1> QED  BY <1>1, <1>2, PTL DEF Spec, OnceInv

-----------------------------------------------------------------------------
(* Under Halt, and when no row is backdated, the table order is the commit *)
(* order.  Then every worker's batch begins right behind what has arrived: *)
(* an event older than one of the batch is in the batch or remote.         *)
StampsAscend == \A e, f \in Committed : e <= f => stamp[e] <= stamp[f]
RemotePrefix == Len(remote) <= Len(stamp) /\ \A i \in DOMAIN remote : remote[i] = i
LateInLine == \A e \in late : e <= Len(remote) + 1
BatchInLine ==
  \A w \in Workers : \A e \in todo[w], f \in Committed :
    f < e /\ f \notin todo[w] => f <= Len(remote)

LineInv == /\ SafeInv /\ skipped = {} /\ StampsAscend
           /\ RemotePrefix /\ LateInLine /\ BatchInLine

LEMMA LandedIsPrefix ==
  ASSUME LineInv
  PROVE  Landed = 1..Len(remote) /\ Len(remote) \in Nat /\ Len(stamp) \in Nat
BY DEF LineInv, RemotePrefix, Landed, SafeInv, TypeOK

(* The oldest event of a batch is the next one the remote side waits for,  *)
(* or one it already has.                                                  *)
LEMMA OldestInLine ==
  ASSUME LineInv, NEW w \in Workers, NEW e \in todo[w], IsOldest(e, todo[w])
  PROVE  e \in Committed /\ e <= Len(remote) + 1
<1>1. e \in Committed /\ e \in Nat /\ Len(remote) \in Nat /\ Len(stamp) \in Nat
  BY LandedIsPrefix DEF LineInv, SafeInv, TypeOK, Committed
<1>2. CASE e = 1  BY <1>1, <1>2
<1>3. CASE e # 1
  <2>1. e - 1 \in Committed  BY <1>1, <1>3 DEF Committed
  <2>2. stamp[e - 1] \in Nat /\ stamp[e] \in Nat
    BY <1>1, <2>1, OutboxAssumption DEF LineInv, SafeInv, TypeOK, Committed
  <2>3. stamp[e - 1] <= stamp[e]  BY <1>1, <2>1 DEF LineInv, StampsAscend
  <2>4. e - 1 \notin todo[w]  BY <1>1, <2>2, <2>3 DEF IsOldest, Before
  <2>5. e - 1 <= Len(remote)  BY <1>1, <2>1, <2>4 DEF LineInv, BatchInLine
  <2> QED  BY <1>1, <2>5
<1> QED  BY <1>2, <1>3

LEMMA InsertNext ==
  ASSUME LineInv, NEW e \in Committed, e <= Len(remote) + 1, Insert(e),
         UNCHANGED stamp
  PROVE  /\ RemotePrefix' /\ Len(remote') \in Nat /\ Len(remote) <= Len(remote')
         /\ \/ remote' = remote
            \/ /\ Len(remote) < Len(stamp)
               /\ remote' = Append(remote, Len(remote) + 1)
<1>1. Landed = 1..Len(remote) /\ Len(remote) \in Nat /\ Len(stamp) \in Nat
      /\ remote \in Seq(Nat) /\ e \in 1..Len(stamp)
  BY LandedIsPrefix DEF LineInv, SafeInv, TypeOK, Committed
<1>2. CASE e \in Landed  BY <1>1, <1>2 DEF Insert, LineInv, RemotePrefix
<1>3. CASE e \notin Landed
  <2>1. e = Len(remote) + 1 /\ remote' = Append(remote, e)
    BY <1>1, <1>3 DEF Insert
  <2>2. /\ Len(remote') = Len(remote) + 1
        /\ \A i \in 1..Len(remote) : remote'[i] = remote[i]
        /\ remote'[Len(remote) + 1] = e
        /\ DOMAIN remote' = 1..(Len(remote) + 1) /\ DOMAIN remote = 1..Len(remote)
    BY <1>1, <2>1
  <2>3. \A i \in 1..Len(remote) : remote[i] = i
    BY <2>2 DEF LineInv, RemotePrefix
  <2>4. \A i \in DOMAIN remote' : remote'[i] = i
    BY <1>1, <2>1, <2>2, <2>3
  <2>5. Len(remote') <= Len(stamp')  BY <1>1, <2>1, <2>2
  <2>6. RemotePrefix'  BY <2>4, <2>5 DEF RemotePrefix
  <2>7. Len(remote') \in Nat /\ Len(remote) <= Len(remote')  BY <1>1, <2>2
  <2>8. Len(remote) < Len(stamp) /\ remote' = Append(remote, Len(remote) + 1)
    BY <1>1, <2>1
  <2> QED  BY <2>6, <2>7, <2>8
<1> QED  BY <1>2, <1>3

LEMMA LineAfterInsert ==
  ASSUME LineInv, NEW e \in Committed, e <= Len(remote) + 1, Insert(e),
         UNCHANGED <<stamp, skipped, todo>>, late' \subseteq late
  PROVE  skipped' = {} /\ StampsAscend' /\ RemotePrefix' /\ LateInLine' /\ BatchInLine'
<1>1. RemotePrefix' /\ Len(remote') \in Nat /\ Len(remote) <= Len(remote')
  BY InsertNext
<1>2. Len(remote) \in Nat /\ Committed \subseteq Nat /\ late \subseteq Committed
  BY LandedIsPrefix DEF Committed, LineInv, SafeInv, TypeOK
<1>3. LateInLine'  BY <1>1, <1>2 DEF LineInv, LateInLine
<1>4. BatchInLine'
  <2> SUFFICES ASSUME NEW w \in Workers, NEW e1 \in todo[w], NEW f \in Committed,
                      f < e1, f \notin todo[w]
               PROVE  f <= Len(remote')
    BY Frame DEF BatchInLine
  <2>1. f <= Len(remote)  BY DEF LineInv, BatchInLine
  <2> QED  BY <1>1, <1>2, <2>1
<1> QED  BY <1>1, <1>3, <1>4, Frame DEF LineInv, StampsAscend

(* The step of the detailed specification that the abstract one sees.      *)
LEMMA LineStep ==
  ASSUME Plain, LineInv, [Next]_vars
  PROVE  skipped' = {} /\ StampsAscend' /\ RemotePrefix' /\ LateInLine' /\ BatchInLine'
<1>0. /\ Len(remote) \in Nat /\ Len(stamp) \in Nat /\ TypeOK
      /\ Landed = 1..Len(remote)
  BY LandedIsPrefix DEF LineInv, SafeInv
<1>1. CASE Push
  <2>1. UNCHANGED <<remote, late, skipped, todo>>  BY <1>1 DEF Push, worker
  <2>2. StampsAscend'
    <3> SUFFICES ASSUME NEW e \in Committed', NEW f \in Committed', e <= f
                 PROVE  stamp'[e] <= stamp'[f]
      BY DEF StampsAscend
    <3>1. CASE f \in Committed
      <4>1. e \in Committed  BY <1>0, <3>1 DEF Committed
      <4> QED  BY <1>0, <1>1, <3>1, <4>1, PushGrows DEF LineInv, StampsAscend
    <3>2. CASE f = Len(stamp) + 1 /\ e \in Committed
      <4>1. stamp # <<>> /\ Len(stamp) \in Committed  BY <1>0, <3>2 DEF Committed
      <4>2. stamp[Len(stamp)] \in Nat /\ stamp[e] \in Nat
        BY <1>0, <3>2, <4>1, OutboxAssumption DEF TypeOK, Committed
      <4>3. stamp'[f] \in stamp[Len(stamp)]..MaxStamp
        BY <1>0, <1>1, <3>2, <4>1, PushGrows DEF Stamps, Plain
      <4>4. stamp[e] <= stamp[Len(stamp)]
        BY <3>2, <4>1 DEF LineInv, StampsAscend, Committed
      <4>5. stamp'[e] = stamp[e]  BY <1>0, <1>1, <3>2, PushGrows
      <4>6. MaxStamp \in Nat  BY OutboxAssumption
      <4> QED  BY <4>2, <4>3, <4>4, <4>5, <4>6
    <3>3. CASE e = Len(stamp) + 1 /\ f = Len(stamp) + 1
      <4>1. stamp'[e] \in Nat
        BY <1>0, <1>1, <3>3, PushGrows, OutboxAssumption
      <4> QED  BY <3>3, <4>1
    <3> QED  BY <1>0, <1>1, <3>1, <3>2, <3>3, PushGrows DEF Committed
  <2>3. RemotePrefix'
    BY <1>0, <1>1, <2>1, PushGrows DEF LineInv, RemotePrefix
  <2>4. LateInLine'  BY <2>1 DEF LineInv, LateInLine
  <2>5. BatchInLine'
    <3> SUFFICES ASSUME NEW w \in Workers, NEW e \in todo[w], NEW f \in Committed',
                        f < e, f \notin todo[w]
                 PROVE  f <= Len(remote)
      BY <2>1 DEF BatchInLine
    <3>1. e \in Committed  BY <1>0 DEF TypeOK
    <3>2. f \in Committed  BY <1>0, <3>1 DEF Committed
    <3> QED  BY <3>2 DEF LineInv, BatchInLine
  <2> QED  BY <2>1, <2>2, <2>3, <2>4, <2>5 DEF LineInv
<1>2. CASE LandLate
  <2>1. PICK e \in late : Insert(e) /\ late' = late \ {e}  BY <1>2 DEF LandLate
  <2>2. e \in Committed /\ e <= Len(remote) + 1
    BY <1>0, <2>1 DEF TypeOK, LineInv, LateInLine
  <2> QED  BY <1>2, <2>1, <2>2, LineAfterInsert DEF LandLate, worker
<1>3. ASSUME NEW w \in Workers, Land(w)
      PROVE  skipped' = {} /\ StampsAscend' /\ RemotePrefix' /\ LateInLine' /\ BatchInLine'
  <2>1. PICK e \in todo[w] : IsOldest(e, todo[w]) /\ Insert(e)  BY <1>3 DEF Land
  <2> QED  BY <1>3, <2>1, OldestInLine, LineAfterInsert DEF Land
<1>4. ASSUME NEW w \in Workers, Poll(w)
      PROVE  skipped' = {} /\ StampsAscend' /\ RemotePrefix' /\ LateInLine' /\ BatchInLine'
  <2>1. PICK B \in Heads(Visible, BatchSize) : todo' = [todo EXCEPT ![w] = B]
    BY <1>4 DEF Poll
  <2>2. UNCHANGED <<stamp, remote, late, skipped>>  BY <1>4 DEF Poll
  <2>3. ASSUME NEW e \in B, NEW f \in Committed, f < e, f \notin B
        PROVE  f <= Len(remote)
    <3>1. B \subseteq rows /\ (\A g \in rows \ B : Before(e, g))
      BY <2>1, HeadsInside DEF Visible
    <3>2. e \in Committed  BY <1>0, <3>1 DEF TypeOK
    <3>3. stamp[e] \in Nat /\ stamp[f] \in Nat /\ e \in Nat /\ f \in Nat
      BY <1>0, <2>3, <3>2, OutboxAssumption DEF TypeOK, Committed
    <3>4. stamp[f] <= stamp[e]
      BY <2>3, <3>2, <3>3 DEF LineInv, StampsAscend
    <3>5. ~Before(e, f)  BY <2>3, <3>3, <3>4 DEF Before
    <3>6. f \in Landed
      BY <2>3, <3>1, <3>5 DEF LineInv, SafeInv, NothingLost
    <3> QED  BY <1>0, <3>6
  <2>4. BatchInLine'
    BY <1>0, <2>1, <2>2, <2>3, Frame DEF LineInv, BatchInLine, TypeOK
  <2> QED  BY <2>2, <2>4, Frame DEF LineInv, StampsAscend, RemotePrefix, LateInLine
<1>5. ASSUME NEW w \in Workers, Answer(w)
      PROVE  skipped' = {} /\ StampsAscend' /\ RemotePrefix' /\ LateInLine' /\ BatchInLine'
  <2>1. PICK e \in todo[w] : /\ IsOldest(e, todo[w])
                             /\ todo' = [todo EXCEPT ![w] = @ \ {e}]
    BY <1>5 DEF Answer
  <2>2. UNCHANGED <<stamp, remote, late, skipped>>  BY <1>5 DEF Answer
  <2>3. e \in Landed
    BY <1>5, <2>1 DEF Answer, LineInv, SafeInv, CallLanded
  <2>4. BatchInLine'
    <3> SUFFICES ASSUME NEW v \in Workers, NEW g \in todo'[v], NEW f \in Committed,
                        f < g, f \notin todo'[v]
                 PROVE  f <= Len(remote)
      BY <2>2, Frame DEF BatchInLine
    <3>1. g \in todo[v] /\ (f \notin todo[v] \/ f = e)
      BY <1>0, <2>1 DEF TypeOK
    <3>2. CASE f = e  BY <1>0, <2>3, <3>2
    <3>3. CASE f \notin todo[v]  BY <3>1, <3>3 DEF LineInv, BatchInLine
    <3> QED  BY <3>1, <3>2, <3>3
  <2> QED  BY <2>2, <2>4, Frame DEF LineInv, StampsAscend, RemotePrefix, LateInLine
<1>6. ASSUME NEW w \in Workers, FailHalt(w) \/ Kill(w) \/ EndBatch(w)
      PROVE  skipped' = {} /\ StampsAscend' /\ RemotePrefix' /\ LateInLine' /\ BatchInLine'
  <2>1. UNCHANGED <<stamp, remote, skipped>> /\ todo' = [todo EXCEPT ![w] = {}]
    BY <1>6 DEF FailHalt, Kill, EndBatch
  <2>2. \/ late' = late
        \/ \E e \in todo[w] : IsOldest(e, todo[w]) /\ late' \subseteq late \cup {e}
    BY <1>6 DEF FailHalt, Kill, EndBatch, Abandon
  <2>3. LateInLine'  BY <2>1, <2>2, OldestInLine DEF LineInv, LateInLine
  <2>4. BatchInLine'  BY <1>0, <2>1, Frame DEF LineInv, BatchInLine, TypeOK
  <2> QED  BY <2>1, <2>3, <2>4, Frame DEF LineInv, StampsAscend, RemotePrefix
<1>7. CASE UNCHANGED <<stamp, remote, late, skipped, todo>>
  BY <1>7, Frame DEF LineInv, StampsAscend, RemotePrefix, LateInLine, BatchInLine
<1>8. ASSUME NEW w \in Workers,
             \/ Start(w) \/ Exit(w) \/ PollEmpty(w) \/ Send(w) \/ Ack(w)
             \/ Stop(w) \/ AckFails(w)
      PROVE  UNCHANGED <<stamp, remote, late, skipped, todo>>
  BY <1>8 DEF Start, Exit, PollEmpty, Send, Ack, Stop, AckFails, vars, worker
<1>9. ASSUME NEW w \in Workers  PROVE  ~FailSkip(w)
  BY DEF FailSkip, Plain
<1>10. CASE UNCHANGED vars  BY <1>7, <1>10 DEF vars, worker
<1> QED
  BY <1>1, <1>2, <1>3, <1>4, <1>5, <1>6, <1>7, <1>8, <1>9, <1>10
     DEF Next, Advance, Disturb

LEMMA SetupStays == [Next]_vars => UNCHANGED setup
BY DEF Next, Advance, Disturb, Push, LandLate, Start, Exit, Poll, PollEmpty, Send,
       Land, Answer, EndBatch, Ack, Stop, FailHalt, FailSkip, AckFails, Kill, vars

LEMMA LineInvariant == Spec => [](Plain => LineInv)
<1>1. Init => (Plain => LineInv)
  <2> SUFFICES ASSUME Init  PROVE  LineInv
    OBVIOUS
  <2>1. SafeInv
    BY TypeInit DEF Init, SafeInv, CallInBatch, DoneSettled, CallLanded,
                    NothingLost, Committed
  <2> QED
    BY <2>1 DEF Init, LineInv, StampsAscend, RemotePrefix, LateInLine, BatchInLine,
             Committed
<1>2. (Plain => LineInv) /\ SafeInv' /\ [Next]_vars => (Plain => LineInv)'
  BY LineStep, SetupStays DEF LineInv, Plain
<1> QED  BY <1>1, <1>2, SafeInvariant, PTL DEF Spec

-----------------------------------------------------------------------------
(* Replicated in order: "Halt preserves ordering" holds as long as no row  *)
(* is backdated.                                                           *)
THEOREM HaltPreservesOrder == Spec => []RemoteInCommitOrder
<1>1. (Plain => LineInv) => RemoteInCommitOrder
  BY LandedIsPrefix DEF LineInv, RemotePrefix, RemoteInCommitOrder, SafeInv, TypeOK
<1> QED  BY <1>1, LineInvariant, PTL

LEMMA CommittedLog ==
  ASSUME TypeOK
  PROVE  LET log == [i \in Committed |-> i]
         IN  log \in Seq(Nat) /\ Len(log) = Len(stamp)
<1>1. Len(stamp) \in Nat  BY DEF TypeOK
<1> QED  BY <1>1 DEF Committed

LEMMA PushCommits ==
  ASSUME TypeOK, Plain, Plain', Push
  PROVE  Log!Commit
<1> DEFINE log == [i \in Committed |-> i]
           e == Len(stamp) + 1
<1>1. /\ Len(stamp) \in Nat /\ log \in Seq(Nat) /\ Len(log) = Len(stamp)
      /\ DOMAIN log = 1..Len(stamp)
  BY CommittedLog DEF TypeOK, Committed
<1>2. e \in 1..MaxEvents  BY <1>1, OutboxAssumption DEF Push, TypeOK
<1>3. \A i \in DOMAIN log : log[i] # e  BY <1>1 DEF Committed
<1>4. Committed' = 1..(Len(stamp) + 1)  BY <1>1, PushGrows DEF Committed
<1>5. [i \in Committed' |-> i] = Append(log, e)
  <2>1. /\ Append(log, e) \in Seq(Nat) /\ Len(Append(log, e)) = Len(stamp) + 1
        /\ \A i \in 1..Len(stamp) : Append(log, e)[i] = i
        /\ Append(log, e)[Len(stamp) + 1] = e
    BY <1>1 DEF Committed
  <2>2. DOMAIN Append(log, e) = 1..(Len(stamp) + 1)  BY <1>1, <2>1
  <2>3. \A i \in 1..(Len(stamp) + 1) : Append(log, e)[i] = i  BY <1>1, <2>1
  <2>4. Append(log, e) = [i \in DOMAIN Append(log, e) |-> Append(log, e)[i]]
    BY <2>1
  <2> QED  BY <1>4, <2>2, <2>3, <2>4
<1>6. UNCHANGED remote  BY DEF Push
<1> HIDE DEF e
<1> QED  BY <1>2, <1>3, <1>5, <1>6 DEF Log!Commit

(* The worker implements the abstract event log: whatever fails, each step *)
(* is a commit, the arrival of the next event in commit order, or          *)
(* invisible to the remote side.                                           *)
THEOREM OutboxImplementsEventLog == Spec => ImplementsEventLog
<1>1. Init => Log!Init
  <2> SUFFICES ASSUME Init  PROVE  [i \in Committed |-> i] = <<>>
    BY DEF Init, Log!Init, Plain
  <2>1. Committed = {}  BY DEF Init, Committed
  <2> QED  BY <2>1
<1>2. (Plain => LineInv) /\ [Next]_vars => [Log!Next]_(Log!vars)
  <2>0. ASSUME ~Plain, [Next]_vars  PROVE  UNCHANGED Log!vars
    BY <2>0, SetupStays DEF Plain, Log!vars
  <2> SUFFICES ASSUME Plain, Plain', LineInv, [Next]_vars
               PROVE  Log!Next \/ UNCHANGED Log!vars
    BY <2>0, SetupStays DEF Plain
  <2>1. CASE Push  BY <2>1, PushCommits DEF LineInv, SafeInv, Log!Next
  <2>2. CASE UNCHANGED <<stamp, remote>>
    BY <2>2, Frame DEF Log!vars
  <2>3. ASSUME NEW e \in Committed, e <= Len(remote) + 1, Insert(e), UNCHANGED stamp
        PROVE  Log!Next \/ UNCHANGED Log!vars
    <3>1. CASE UNCHANGED remote  BY <2>2, <2>3, <3>1
    <3>2. CASE /\ Len(remote) < Len(stamp)
               /\ remote' = Append(remote, Len(remote) + 1)
      <4>1. TypeOK /\ Len(remote) \in Nat /\ Len(stamp) \in Nat
        BY LandedIsPrefix DEF LineInv, SafeInv
      <4>2. Len([i \in Committed |-> i]) = Len(stamp)  BY <4>1, CommittedLog
      <4>3. [i \in Committed |-> i][Len(remote) + 1] = Len(remote) + 1
        BY <3>2, <4>1 DEF Committed
      <4>4. [i \in Committed |-> i]' = [i \in Committed |-> i]  BY <2>3, Frame
      <4> QED  BY <3>2, <4>2, <4>3, <4>4 DEF Log!Next, Log!Replicate
    <3> QED  BY <2>3, <3>1, <3>2, InsertNext
  <2>4. CASE LandLate
    <3>1. PICK e \in late : Insert(e)  BY <2>4 DEF LandLate
    <3>2. e \in Committed /\ e <= Len(remote) + 1
      BY <3>1 DEF LineInv, SafeInv, TypeOK, LateInLine
    <3> QED  BY <2>3, <2>4, <3>1, <3>2 DEF LandLate
  <2>5. ASSUME NEW w \in Workers, Land(w)
        PROVE  Log!Next \/ UNCHANGED Log!vars
    <3>1. PICK e \in todo[w] : IsOldest(e, todo[w]) /\ Insert(e)  BY <2>5 DEF Land
    <3> QED  BY <2>3, <2>5, <3>1, OldestInLine DEF Land
  <2>6. [Next]_vars => \/ Push \/ LandLate \/ UNCHANGED <<stamp, remote>>
                       \/ \E w \in Workers : Land(w)
    BY DEF Next, Advance, Disturb, Start, Exit, Poll, PollEmpty, Send, Answer,
           EndBatch, Ack, Stop, FailHalt, FailSkip, AckFails, Kill, vars, worker
  <2> QED  BY <2>1, <2>2, <2>4, <2>5, <2>6
<1> QED  BY <1>1, <1>2, LineInvariant, PTL DEF Spec, ImplementsEventLog, Log!Spec

-----------------------------------------------------------------------------
(* OutboxLifecycle: one lemma per group of steps.  The conjunct of its type*)
(* invariant that is more than a type -- a command awaits exactly while it *)
(* holds a handle -- is what lets Await read the task it waits for.  Owned *)
(* says where the one live worker is at every moment between two commands. *)

TaskSet == [st : {"unborn", "connecting", "polling", "gone"}, stop : BOOLEAN,
            cfg : Configs \cup {None}, path : {"brain", "stub"}, file : Nat]

CmdSet == [pc : {"idle", "take", "await", "spawn", "store", "swap", "retake", "respawn"},
           held : Tasks \cup {None}, new : Tasks \cup {None},
           next : {"idle", "spawn", "store", "swap", "respawn"},
           cfg : Configs \cup {None}, path : {"brain", "stub"}]

(* A fresh worker record has the type of a task.                           *)
LEMMA WorkerType ==
  ASSUME NEW st \in {"unborn", "connecting", "polling", "gone"},
         NEW cfg \in Configs \cup {None}, NEW path \in {"brain", "stub"}
  PROVE  Worker(st, cfg, path) \in TaskSet
BY DEF Worker, TaskSet

(* While a task identity is left, Fresh is one.                            *)
LEMMA FreshIsTask == ASSUME MaySpawn PROVE Fresh \in Tasks
BY DEF MaySpawn, Fresh

(* The program starts with the types right.                                *)
LEMMA InitType == LifecycleInit => LifecycleTypeOK
<1> SUFFICES ASSUME LifecycleInit PROVE LifecycleTypeOK
  OBVIOUS
<1>1. slot \in Tasks \cup {None}
  BY LifecycleAssumption DEF LifecycleInit
<1>2. task \in [Tasks -> TaskSet]
  BY LifecycleAssumption, WorkerType DEF LifecycleInit
<1>3. cmd \in [Commands -> CmdSet]
  BY DEF LifecycleInit, CmdSet
<1>4. \A c \in Commands : cmd[c].pc = "await" <=> cmd[c].held # None
  BY DEF LifecycleInit
<1>5. file \in Nat /\ db \in {"brain", "stub"} /\ issued \in 0..MaxCommands
  BY LifecycleAssumption DEF LifecycleInit
<1>6. overlapped \in BOOLEAN
  BY DEF LifecycleInit
<1> QED
  BY <1>1, <1>2, <1>3, <1>4, <1>5, <1>6 DEF LifecycleTypeOK, TaskSet, CmdSet

(* Raising the cancel flag of a registered task keeps its type.            *)
LEMMA StopType ==
  ASSUME task \in [Tasks -> TaskSet], slot \in Tasks \cup {None}
  PROVE  (IF slot = None THEN task ELSE [task EXCEPT ![slot].stop = TRUE])
           \in [Tasks -> TaskSet]
BY DEF TaskSet

(* Replacing one command's record by one that is well typed and paired.    *)
LEMMA CmdType ==
  ASSUME cmd \in [Commands -> CmdSet],
         \A d \in Commands : cmd[d].pc = "await" <=> cmd[d].held # None,
         NEW c \in Commands, NEW r \in CmdSet, r.pc = "await" <=> r.held # None,
         cmd' = [cmd EXCEPT ![c] = r]
  PROVE  /\ cmd' \in [Commands -> CmdSet]
         /\ \A d \in Commands : cmd'[d].pc = "await" <=> cmd'[d].held # None
OBVIOUS

(* Taking the handle and awaiting it, at whatever step it is done.         *)
LEMMA TakeType ==
  ASSUME LifecycleTypeOK, NEW c \in Commands, cmd[c].pc # "await",
         NEW after \in {"idle", "spawn", "store", "swap", "respawn"},
         TakeThen(c, after)
  PROVE  /\ slot' \in Tasks \cup {None} /\ task' \in [Tasks -> TaskSet]
         /\ cmd' \in [Commands -> CmdSet]
         /\ \A d \in Commands : cmd'[d].pc = "await" <=> cmd'[d].held # None
<1>1. slot' \in Tasks \cup {None}
  BY DEF TakeThen
<1>2. task' \in [Tasks -> TaskSet]
  BY StopType DEF TakeThen, LifecycleTypeOK, TaskSet
<1> DEFINE r == [cmd[c] EXCEPT !.held = slot, !.next = after,
                               !.pc = IF slot = None THEN after ELSE "await"]
<1>3. cmd \in [Commands -> CmdSet] /\ slot \in Tasks \cup {None}
      /\ \A d \in Commands : cmd[d].pc = "await" <=> cmd[d].held # None
  BY DEF LifecycleTypeOK, CmdSet
<1>4. r \in CmdSet
  <2>1. cmd[c] \in CmdSet
    BY <1>3
  <2>2. CASE slot = None
    BY <1>3, <2>1, <2>2 DEF CmdSet
  <2>3. CASE slot # None
    BY <1>3, <2>1, <2>3 DEF CmdSet
  <2> QED
    BY <2>2, <2>3
<1>4a. r.pc = "await" <=> r.held # None
  <2>1. cmd[c] \in CmdSet /\ r.held = slot /\ r.pc = IF slot = None THEN after ELSE "await"
    BY <1>3 DEF CmdSet
  <2> QED
    BY <2>1
<1>5. cmd' = [cmd EXCEPT ![c] = r]
  BY DEF TakeThen
<1> QED
  BY <1>1, <1>2, <1>3, <1>4, <1>4a, <1>5, CmdType

(* Every step of a command keeps the types.                                *)
LEMMA CommandType ==
  ASSUME LifecycleTypeOK, NEW c \in Commands, Begin(c) \/ Step(c)
  PROVE  LifecycleTypeOK'
<1> DEFINE
      Rest == file' \in Nat /\ db' \in {"brain", "stub"} /\ issued' \in 0..MaxCommands
              /\ overlapped' \in BOOLEAN
      Paired == \A d \in Commands : cmd'[d].pc = "await" <=> cmd'[d].held # None
<1> SUFFICES /\ slot' \in Tasks \cup {None} /\ task' \in [Tasks -> TaskSet]
             /\ cmd' \in [Commands -> CmdSet] /\ Paired /\ Rest
  BY Zenon DEF LifecycleTypeOK, TaskSet, CmdSet
<1>0. /\ slot \in Tasks \cup {None} /\ task \in [Tasks -> TaskSet]
      /\ cmd \in [Commands -> CmdSet]
      /\ \A d \in Commands : cmd[d].pc = "await" <=> cmd[d].held # None
      /\ file \in Nat /\ db \in {"brain", "stub"} /\ issued \in 0..MaxCommands
      /\ overlapped \in BOOLEAN
  BY Zenon DEF LifecycleTypeOK, TaskSet, CmdSet
<1>1. CASE Begin(c)
  <2> PICK g \in IF c \in Starts THEN Configs ELSE {None} :
         cmd' = [cmd EXCEPT ![c] = [@ EXCEPT !.pc = "take", !.cfg = g, !.path = db,
                                             !.new = None]]
    BY <1>1 DEF Begin
  <2> DEFINE r == [cmd[c] EXCEPT !.pc = "take", !.cfg = g, !.path = db, !.new = None]
  <2>1. g \in Configs \cup {None}
    OBVIOUS
  <2>2a. r \in CmdSet /\ (r.pc = "await" <=> r.held # None)
    BY <1>0, <1>1, <2>1 DEF CmdSet, Begin
  <2>2b. cmd' = [cmd EXCEPT ![c] = r]
    OBVIOUS
  <2>2. cmd' \in [Commands -> CmdSet] /\ Paired
    BY <2>2a, <2>2b, <1>0, CmdType
  <2>3. file' \in Nat /\ db' \in {"brain", "stub"} /\ issued' \in 0..MaxCommands
    <3>1. issued' = issued + 1 /\ issued < MaxCommands /\ file' = file /\ db' = db
      BY <1>1 DEF Begin
    <3>2. issued \in 0..MaxCommands /\ MaxCommands \in Nat
      BY <1>0, LifecycleAssumption
    <3> QED
      BY <1>0, <3>1, <3>2
  <2>4. overlapped' \in BOOLEAN
    <3>1. overlapped' = (overlapped \/ ~Quiet)
      BY <1>1, Zenon DEF Begin
    <3> QED
      BY <3>1, <1>0, Zenon
  <2> QED
    BY <2>2, <2>3, <2>4, <1>0, <1>1 DEF Begin
<1>2. CASE Await(c)
  <2> DEFINE r == [cmd[c] EXCEPT !.pc = cmd[c].next, !.held = None]
  <2>1a. r \in CmdSet /\ (r.pc = "await" <=> r.held # None)
    BY <1>0, <1>2 DEF CmdSet, Await
  <2>1b. cmd' = [cmd EXCEPT ![c] = r]
    BY <1>2 DEF Await
  <2>1. cmd' \in [Commands -> CmdSet] /\ Paired
    BY <2>1a, <2>1b, <1>0, CmdType
  <2> QED
    BY <2>1, <1>0, <1>2 DEF Await
<1>3. CASE StartNoop(c)
  <2> DEFINE r == [cmd[c] EXCEPT !.pc = "idle"]
  <2>1a. r \in CmdSet /\ (r.pc = "await" <=> r.held # None)
    BY <1>0, <1>3 DEF CmdSet, StartNoop
  <2>1b. cmd' = [cmd EXCEPT ![c] = r]
    BY <1>3 DEF StartNoop
  <2>1. cmd' \in [Commands -> CmdSet] /\ Paired
    BY <2>1a, <2>1b, <1>0, CmdType
  <2> QED
    BY <2>1, <1>0, <1>3 DEF StartNoop
<1>4. CASE StartTake(c)
  BY <1>0, <1>4, TakeType DEF StartTake
<1>5. CASE StartSpawn(c)
  <2>1. Fresh \in Tasks
    BY <1>5, FreshIsTask DEF StartSpawn
  <2>2. Worker("connecting", cmd[c].cfg, cmd[c].path) \in TaskSet
    BY <1>0, WorkerType DEF CmdSet
  <2>3. \A t \in Tasks : [task[t] EXCEPT !.stop = TRUE] \in TaskSet
    BY <1>0 DEF TaskSet
  <2>4. task' \in [Tasks -> TaskSet]
    BY <1>0, <1>5, <2>2, <2>3 DEF StartSpawn
  <2> DEFINE r == [cmd[c] EXCEPT !.new = Fresh, !.held = slot, !.next = "store",
                             !.pc = IF slot = None THEN "store" ELSE "await"]
  <2>5a. r \in CmdSet /\ (r.pc = "await" <=> r.held # None)
    BY <1>0, <1>5, <2>1 DEF CmdSet, StartSpawn
  <2>5b. cmd' = [cmd EXCEPT ![c] = r]
    BY <1>5 DEF StartSpawn
  <2>5. cmd' \in [Commands -> CmdSet] /\ Paired
    BY <2>5a, <2>5b, <1>0, CmdType
  <2> QED
    BY <2>4, <2>5, <1>0, <1>5 DEF StartSpawn
<1>6. CASE StartStore(c)
  <2> DEFINE r == [cmd[c] EXCEPT !.pc = "idle", !.new = None]
  <2>1a. r \in CmdSet /\ (r.pc = "await" <=> r.held # None)
    BY <1>0, <1>6 DEF CmdSet, StartStore
  <2>1b. cmd' = [cmd EXCEPT ![c] = r]
    BY <1>6 DEF StartStore
  <2>1. cmd' \in [Commands -> CmdSet] /\ Paired
    BY <2>1a, <2>1b, <1>0, CmdType
  <2>3. slot' \in Tasks \cup {None}
    BY <1>0, <1>6 DEF CmdSet, StartStore
  <2> QED
    BY <2>1, <2>3, <1>0, <1>6 DEF StartStore
<1>7. CASE c = "stop" /\ StopWorker
  BY <1>0, <1>7, TakeType DEF StopWorker
<1>8. CASE c = "switch" /\ SwitchTake
  <2>1. task' \in [Tasks -> TaskSet]
    BY <1>0, <1>8, StopType DEF SwitchTake
  <2>2. (IF slot = None THEN FromEnv ELSE task[slot].cfg) \in Configs \cup {None}
    BY <1>0, LifecycleAssumption DEF TaskSet
  <2> DEFINE r == [cmd[c] EXCEPT !.held = slot, !.next = "swap",
                             !.pc = IF slot = None THEN "swap" ELSE "await",
                             !.cfg = IF slot = None THEN FromEnv ELSE task[slot].cfg]
  <2>3a. r \in CmdSet /\ (r.pc = "await" <=> r.held # None)
    BY <1>0, <1>8, <2>2 DEF CmdSet, SwitchTake
  <2>3b. cmd' = [cmd EXCEPT ![c] = r]
    BY <1>8 DEF SwitchTake
  <2>3. cmd' \in [Commands -> CmdSet] /\ Paired
    BY <2>3a, <2>3b, <1>0, CmdType
  <2> QED
    BY <2>1, <2>3, <1>0, <1>8 DEF SwitchTake
<1>9. CASE c = "switch" /\ SwitchClose
  BY <1>0, <1>9 DEF SwitchClose
<1>10. CASE c = "switch" /\ (SwitchReopen \/ SwitchFails)
  <2>1. cmd' \in [Commands -> CmdSet]
    BY <1>0, <1>10 DEF CmdSet, SwitchReopen, SwitchFails
  <2>2. Paired
    BY <1>0, <1>10 DEF CmdSet, SwitchReopen, SwitchFails
  <2>3. Rest
    BY <1>0, <1>10 DEF SwitchReopen, SwitchFails
  <2> QED
    BY <2>1, <2>2, <2>3, <1>0, <1>10 DEF SwitchReopen, SwitchFails
<1>11. CASE c = "switch" /\ SwitchRetake
  BY <1>0, <1>11, TakeType DEF SwitchRetake
<1>12. CASE c = "switch" /\ SwitchRespawn
  <2> DEFINE r == [cmd[c] EXCEPT !.pc = "idle"]
  <2>1a. r \in CmdSet /\ (r.pc = "await" <=> r.held # None)
    BY <1>0, <1>12 DEF CmdSet, SwitchRespawn
  <2>1b. cmd' = [cmd EXCEPT ![c] = r]
    BY <1>12 DEF SwitchRespawn
  <2>1. cmd' \in [Commands -> CmdSet] /\ Paired
    BY <2>1a, <2>1b, <1>0, CmdType
  <2>3. slot' \in Tasks \cup {None} /\ task' \in [Tasks -> TaskSet]
    <3>1. CASE cmd["switch"].cfg = None
      BY <3>1, <1>0, <1>12 DEF SwitchRespawn
    <3>2. CASE cmd["switch"].cfg # None
      <4>1. Worker("connecting", cmd["switch"].cfg, "brain") \in TaskSet
        BY <1>0, <1>12, WorkerType DEF CmdSet
      <4>2. Fresh \in Tasks
        BY <3>2, <1>12, FreshIsTask DEF SwitchRespawn
      <4> QED
        BY <3>2, <4>1, <4>2, <1>0, <1>12 DEF SwitchRespawn
    <3> QED
      BY <3>1, <3>2
  <2> QED
    BY <2>1, <2>3, <1>0, <1>12 DEF SwitchRespawn
<1> QED
  BY <1>1, <1>2, <1>3, <1>4, <1>5, <1>6, <1>7, <1>8, <1>9, <1>10, <1>11, <1>12 DEF Step

(* Every step of a task keeps the types.                                   *)
LEMMA TaskType ==
  ASSUME LifecycleTypeOK, NEW t \in Tasks, Connect(t) \/ OpenFails(t) \/ TaskExits(t)
  PROVE  LifecycleTypeOK'
<1>0. task \in [Tasks -> TaskSet] /\ file \in Nat
  BY Zenon DEF LifecycleTypeOK, TaskSet
<1>1. task' \in [Tasks -> TaskSet]
  <2>1. CASE Connect(t)
    BY <1>0, <2>1 DEF Connect, TaskSet
  <2>2. CASE OpenFails(t) \/ TaskExits(t)
    <3>1. Worker("gone", None, "brain") \in TaskSet
      BY WorkerType
    <3> QED
      BY <3>1, <1>0, <2>2 DEF OpenFails, TaskExits
  <2> QED
    BY <2>1, <2>2
<1>2. UNCHANGED <<slot, cmd, file, db, issued, overlapped>>
  BY DEF Connect, OpenFails, TaskExits
<1> QED
  BY <1>1, <1>2 DEF LifecycleTypeOK, TaskSet

(* However the commands interleave, the state stays well typed; above all, *)
(* a command is waiting exactly while it holds a handle it took.           *)
THEOREM LifecycleTypeCorrect == LifecycleSpec => []LifecycleTypeOK
<1>1. LifecycleInit => LifecycleTypeOK
  BY InitType
<1>2. LifecycleTypeOK /\ [LifecycleNext]_lifecycleVars => LifecycleTypeOK'
  <2> SUFFICES ASSUME LifecycleTypeOK, [LifecycleNext]_lifecycleVars PROVE LifecycleTypeOK'
    OBVIOUS
  <2>1. ASSUME NEW c \in Commands, Begin(c) \/ Step(c) PROVE LifecycleTypeOK'
    BY <2>1, CommandType
  <2>2. ASSUME NEW t \in Tasks, Connect(t) \/ OpenFails(t) \/ TaskExits(t)
        PROVE  LifecycleTypeOK'
    BY <2>2, TaskType
  <2>3. CASE UNCHANGED lifecycleVars
    BY <2>3 DEF lifecycleVars, LifecycleTypeOK
  <2> QED
    BY <2>1, <2>2, <2>3 DEF LifecycleNext, Done
<1> QED
  BY <1>1, <1>2, PTL DEF LifecycleSpec

-----------------------------------------------------------------------------
(* From here on: commands that never overlap.  The worker that runs is the *)
(* registered one, the one some command awaits, or the one a start has     *)
(* spawned and is about to register; and from the moment a command has     *)
(* taken the handle until it ends, nothing is registered.                  *)
Storing(c) ==
  cmd[c].pc = "store" \/ (cmd[c].pc = "await" /\ cmd[c].next = "store")

OneCommand ==
  \A c, d \in Commands : cmd[c].pc # "idle" /\ cmd[d].pc # "idle" => c = d

SlotTaken == \A c \in Commands : cmd[c].pc \notin {"idle", "take"} => slot = None

Born ==
  /\ slot # None => task[slot].st # "unborn"
  /\ \A c \in Commands :
       Storing(c) => cmd[c].new \in Tasks /\ task[cmd[c].new].st # "unborn"

Reached ==
  \A t \in Tasks : Live(t) =>
    slot = t \/ \E c \in Commands : cmd[c].held = t \/ (Storing(c) /\ cmd[c].new = t)

NoneStale == \A t \in Tasks : ~Stale(t)

Owned == ~overlapped => OneCommand /\ SlotTaken /\ Born /\ Reached /\ NoneStale
(* While one command is in flight, the others hold and store nothing.      *)
LEMMA OthersIdle ==
  ASSUME LifecycleTypeOK, OneCommand, NEW c \in Commands, cmd[c].pc # "idle"
  PROVE  \A d \in Commands : d # c =>
           cmd[d].pc = "idle" /\ cmd[d].held = None /\ ~Storing(d)
<1> SUFFICES ASSUME NEW d \in Commands, d # c
             PROVE  cmd[d].pc = "idle" /\ cmd[d].held = None /\ ~Storing(d)
  OBVIOUS
<1>1. cmd[d].pc = "idle"
  BY DEF OneCommand
<1>2. cmd[d].held = None
  BY <1>1 DEF LifecycleTypeOK
<1> QED
  BY <1>1, <1>2 DEF Storing

(* With at most one command in flight afterwards, what it owns is all that *)
(* has to be looked at.                                                    *)
LEMMA Rebuild ==
  ASSUME NEW c \in Commands,
         \A d \in Commands : d # c => cmd'[d].pc = "idle",
         cmd'[c].pc \notin {"idle", "take"} => slot' = None,
         slot' # None => task'[slot'].st # "unborn",
         Storing(c)' => cmd'[c].new \in Tasks /\ task'[cmd'[c].new].st # "unborn",
         \A t \in Tasks : Live(t)' =>
           slot' = t \/ cmd'[c].held = t \/ (Storing(c)' /\ cmd'[c].new = t),
         \A t \in Tasks : ~Stale(t)'
  PROVE  Owned'
<1>1. OneCommand'
  BY DEF OneCommand
<1>2. SlotTaken'
  BY DEF SlotTaken
<1>3. \A d \in Commands : d # c => ~Storing(d)'
  BY DEF Storing
<1>4. Born'
  BY <1>3 DEF Born
<1>5. Reached'
  BY DEF Reached
<1>6. NoneStale'
  BY DEF NoneStale
<1> QED
  BY <1>1, <1>2, <1>4, <1>5, <1>6 DEF Owned

(* The worker started at launch is the registered one.                     *)
LEMMA InitOwned == LifecycleInit => Owned
<1> SUFFICES ASSUME LifecycleInit PROVE OneCommand /\ SlotTaken /\ Born /\ Reached /\ NoneStale
  BY DEF Owned
<1>1. OneCommand /\ SlotTaken
  BY DEF LifecycleInit, OneCommand, SlotTaken
<1>2. slot # None => slot \in Tasks
  BY LifecycleAssumption DEF LifecycleInit
<1>3. \A t \in Tasks : task[t] = IF t = slot THEN Worker("connecting", FromEnv, "brain")
                                  ELSE Worker("unborn", None, "brain")
  BY DEF LifecycleInit
<1>4. Born
  <2>1. \A c \in Commands : ~Storing(c)
    BY DEF LifecycleInit, Storing
  <2> QED
    BY <1>2, <1>3, <2>1 DEF Born, Worker
<1>5. Reached
  BY <1>3 DEF Reached, Live, Worker
<1>6. NoneStale
  BY <1>3 DEF NoneStale, Stale, Worker
<1> QED
  BY <1>1, <1>4, <1>5, <1>6

(* Raising the registered task's flag changes nothing else of any task.    *)
LEMMA StopKeeps ==
  ASSUME task \in [Tasks -> TaskSet], slot \in Tasks \cup {None},
         task' = IF slot = None THEN task ELSE [task EXCEPT ![slot].stop = TRUE]
  PROVE  \A t \in Tasks : /\ task'[t].st = task[t].st /\ task'[t].path = task[t].path
                          /\ task'[t].file = task[t].file
BY DEF TaskSet

(* Taking the handle, at whatever step: who was registered is now awaited. *)
LEMMA TakeOwned ==
  ASSUME LifecycleTypeOK, OneCommand, Born, Reached, NoneStale,
         NEW c \in Commands, cmd[c].pc \notin {"idle", "await", "store"},
         NEW r \in CmdSet, cmd' = [cmd EXCEPT ![c] = r],
         r.held = slot, r.pc # "store", r.next # "store", slot' = None,
         task' = IF slot = None THEN task ELSE [task EXCEPT ![slot].stop = TRUE],
         file' = file
  PROVE  Owned'
<1>1. \A d \in Commands : d # c => /\ cmd[d].pc = "idle" /\ cmd[d].held = None
                                   /\ ~Storing(d)
  BY OthersIdle
<1>2. /\ task \in [Tasks -> TaskSet] /\ cmd \in [Commands -> CmdSet]
      /\ slot \in Tasks \cup {None} /\ cmd[c].held = None
  BY DEF LifecycleTypeOK, TaskSet, CmdSet
<1>3. cmd'[c] = r /\ \A d \in Commands : d # c => cmd'[d] = cmd[d]
  BY <1>2
<1>4. ~Storing(c) /\ ~Storing(c)'
  BY <1>3 DEF Storing
<1>5. \A t \in Tasks : /\ task'[t].st = task[t].st /\ task'[t].path = task[t].path
                       /\ task'[t].file = task[t].file
  BY <1>2, StopKeeps
<1>6. \A t \in Tasks : Live(t)' => slot = t
  <2> SUFFICES ASSUME NEW t \in Tasks, Live(t)' PROVE slot = t
    OBVIOUS
  <2>1. Live(t)
    BY <1>5 DEF Live
  <2>2. t # None
    BY LifecycleAssumption
  <2> QED
    BY <2>1, <2>2, <1>1, <1>2, <1>4 DEF Reached
<1>7. \A t \in Tasks : ~Stale(t)'
  BY <1>5 DEF NoneStale, Stale
<1> QED
  BY <1>1, <1>3, <1>4, <1>6, <1>7, Rebuild
(* Every step of a command keeps the workers owned.                        *)
LEMMA CommandOwned ==
  ASSUME LifecycleTypeOK, Owned, NEW c \in Commands, Begin(c) \/ Step(c)
  PROVE  Owned'
<1> SUFFICES ASSUME ~overlapped' PROVE Owned'
  BY DEF Owned
<1>0. /\ task \in [Tasks -> TaskSet] /\ cmd \in [Commands -> CmdSet]
      /\ slot \in Tasks \cup {None} /\ \A t \in Tasks : t # None
      /\ \A d \in Commands : cmd[d].pc = "await" <=> cmd[d].held # None
  BY LifecycleAssumption, Zenon DEF LifecycleTypeOK, TaskSet, CmdSet
<1>a. ~overlapped
  BY DEF Begin, Step, Await, StartNoop, StartTake, StartSpawn, StartStore, StopWorker,
         SwitchTake, SwitchClose, SwitchReopen, SwitchFails, SwitchRetake, SwitchRespawn
<1>b. OneCommand /\ SlotTaken /\ Born /\ Reached /\ NoneStale
  BY <1>a DEF Owned
<1>c. ASSUME cmd[c].pc # "idle"
      PROVE  /\ \A d \in Commands : d # c => /\ cmd[d].pc = "idle" /\ cmd[d].held = None
                                             /\ ~Storing(d)
             /\ \A t \in Tasks : Live(t) =>
                  slot = t \/ cmd[c].held = t \/ (Storing(c) /\ cmd[c].new = t)
  <2>1. \A d \in Commands : d # c => /\ cmd[d].pc = "idle" /\ cmd[d].held = None
                                     /\ ~Storing(d)
    BY <1>b, <1>c, OthersIdle
  <2> QED
    BY <2>1, <1>0, <1>b DEF Reached
<1>1. CASE Begin(c)
  <2>1. Quiet
    BY <1>1 DEF Begin
  <2>2. \A d \in Commands : cmd[d].held = None /\ ~Storing(d)
    BY <2>1, <1>0 DEF Quiet, Storing
  <2>3. \A d \in Commands : d # c => cmd'[d].pc = "idle"
    BY <2>1, <1>0, <1>1 DEF Begin, Quiet
  <2>4. cmd'[c].pc = "take"
    <3> PICK g \in IF c \in Starts THEN Configs ELSE {None} :
           cmd' = [cmd EXCEPT ![c] = [@ EXCEPT !.pc = "take", !.cfg = g, !.path = db,
                                               !.new = None]]
      BY <1>1 DEF Begin
    <3>1. cmd[c] \in CmdSet
      BY <1>0
    <3>2. cmd'[c] = [cmd[c] EXCEPT !.pc = "take", !.cfg = g, !.path = db, !.new = None]
      BY <1>0
    <3> QED
      BY <3>1, <3>2 DEF CmdSet
  <2>5. slot' = slot /\ task' = task /\ file' = file
    BY <1>1 DEF Begin
  <2>6. slot' # None => task'[slot'].st # "unborn"
    BY <2>5, <1>b DEF Born
  <2>7. ~Storing(c)'
    BY <2>4 DEF Storing
  <2>8. \A t \in Tasks : Live(t)' => slot' = t
    BY <2>2, <2>5, <1>0, <1>b DEF Reached, Live
  <2>9. \A t \in Tasks : ~Stale(t)'
    BY <2>5, <1>b DEF NoneStale, Stale
  <2> QED
    BY <2>3, <2>4, <2>6, <2>7, <2>8, <2>9, Rebuild
<1>2. CASE Await(c)
  <2>1. /\ cmd[c].pc = "await" /\ task[cmd[c].held].st = "gone"
        /\ slot' = slot /\ task' = task /\ file' = file
    BY <1>2 DEF Await
  <2>2. /\ cmd'[c].pc = cmd[c].next /\ cmd'[c].new = cmd[c].new
        /\ \A d \in Commands : d # c => cmd'[d] = cmd[d]
    BY <1>0, <1>2 DEF Await, CmdSet
  <2>3. \A d \in Commands : d # c => cmd'[d].pc = "idle"
    BY <1>c, <2>1, <2>2
  <2>4. slot' = None
    BY <2>1, <1>b DEF SlotTaken
  <2>5. cmd[c].next # "await"
    BY <1>0 DEF CmdSet
  <2>6. Storing(c)' <=> Storing(c)
    BY <2>1, <2>2, <2>5 DEF Storing
  <2>7. Storing(c)' => cmd'[c].new \in Tasks /\ task'[cmd'[c].new].st # "unborn"
    BY <2>1, <2>2, <2>6, <1>b DEF Born
  <2>8. \A t \in Tasks : Live(t)' => Storing(c)' /\ cmd'[c].new = t
    <3> SUFFICES ASSUME NEW t \in Tasks, Live(t)'
                 PROVE  Storing(c)' /\ cmd'[c].new = t
      OBVIOUS
    <3>1. Live(t)
      BY <2>1 DEF Live
    <3>2. cmd[c].held # t
      BY <2>1, <3>1 DEF Live
    <3> QED
      BY <3>1, <3>2, <2>1, <2>2, <2>4, <2>6, <1>0, <1>c
  <2>9. \A t \in Tasks : ~Stale(t)'
    BY <2>1, <1>b DEF NoneStale, Stale
  <2> QED
    BY <2>3, <2>4, <2>7, <2>8, <2>9, Rebuild
<1>3. CASE StartNoop(c)
  <2>1. cmd[c].pc = "take" /\ slot' = slot /\ task' = task /\ file' = file
    BY <1>3 DEF StartNoop
  <2>2. cmd'[c].pc = "idle" /\ \A d \in Commands : d # c => cmd'[d] = cmd[d]
    BY <1>0, <1>3 DEF StartNoop, CmdSet
  <2>3. \A d \in Commands : d # c => cmd'[d].pc = "idle"
    BY <1>c, <2>1, <2>2
  <2>4. ~Storing(c) /\ ~Storing(c)' /\ cmd[c].held = None
    BY <1>0, <2>1, <2>2 DEF Storing
  <2>5. slot' # None => task'[slot'].st # "unborn"
    BY <2>1, <1>b DEF Born
  <2>6. \A t \in Tasks : Live(t)' => slot' = t
    BY <2>1, <2>4, <1>0, <1>c DEF Live
  <2>7. \A t \in Tasks : ~Stale(t)'
    BY <2>1, <1>b DEF NoneStale, Stale
  <2> QED
    BY <2>2, <2>3, <2>4, <2>5, <2>6, <2>7, Rebuild
<1>4. CASE StartTake(c)
  <2> DEFINE r == [cmd[c] EXCEPT !.held = slot, !.next = "spawn",
                                 !.pc = IF slot = None THEN "spawn" ELSE "await"]
  <2>1. r \in CmdSet /\ r.held = slot /\ r.pc # "store" /\ r.next # "store"
    BY <1>0 DEF CmdSet
  <2>2. /\ cmd[c].pc = "take" /\ cmd' = [cmd EXCEPT ![c] = r] /\ slot' = None /\ file' = file
        /\ task' = IF slot = None THEN task ELSE [task EXCEPT ![slot].stop = TRUE]
    BY <1>4 DEF StartTake, TakeThen
  <2> HIDE DEF r
  <2> QED
    BY <2>1, <2>2, <1>b, TakeOwned
<1>5. CASE StartSpawn(c)
  <2>1. cmd[c].pc = "spawn" /\ MaySpawn /\ slot' = None /\ file' = file
    BY <1>5 DEF StartSpawn
  <2>2. slot = None /\ cmd[c].held = None /\ ~Storing(c)
    BY <2>1, <1>0, <1>b DEF SlotTaken, Storing
  <2>3. \A t \in Tasks : ~Live(t)
    BY <2>1, <2>2, <1>0, <1>c
  <2>4. Fresh \in Tasks
    BY <2>1, FreshIsTask
  <2>5. /\ cmd'[c].pc = "store" /\ cmd'[c].new = Fresh
        /\ \A d \in Commands : d # c => cmd'[d] = cmd[d]
    BY <1>0, <1>5, <2>2 DEF StartSpawn, CmdSet
  <2>6. \A d \in Commands : d # c => cmd'[d].pc = "idle"
    BY <1>c, <2>1, <2>5
  <2>7. \A t \in Tasks : task'[t] = IF t = Fresh
                                    THEN Worker("connecting", cmd[c].cfg, cmd[c].path)
                                    ELSE task[t]
    BY <1>0, <1>5, <2>2 DEF StartSpawn
  <2>8. Storing(c)'
    BY <2>5 DEF Storing
  <2>9. cmd'[c].new \in Tasks /\ task'[cmd'[c].new].st # "unborn"
    BY <2>4, <2>5, <2>7 DEF Worker
  <2>10. \A t \in Tasks : Live(t)' => cmd'[c].new = t
    BY <2>3, <2>5, <2>7 DEF Live
  <2>11. \A t \in Tasks : ~Stale(t)'
    <3>1. \A t \in Tasks : task'[t].st # "polling"
      BY <2>3, <2>7 DEF Live, Worker
    <3> QED
      BY <3>1 DEF Stale
  <2> QED
    BY <2>1, <2>6, <2>8, <2>9, <2>10, <2>11, Rebuild
<1>6. CASE StartStore(c)
  <2>1. cmd[c].pc = "store" /\ slot' = cmd[c].new /\ task' = task /\ file' = file
    BY <1>6 DEF StartStore
  <2>2. slot = None /\ cmd[c].held = None /\ Storing(c)
    BY <2>1, <1>0, <1>b DEF SlotTaken, Storing
  <2>3. cmd'[c].pc = "idle" /\ \A d \in Commands : d # c => cmd'[d] = cmd[d]
    BY <1>0, <1>6 DEF StartStore, CmdSet
  <2>4. \A d \in Commands : d # c => cmd'[d].pc = "idle"
    BY <1>c, <2>1, <2>3
  <2>5. ~Storing(c)'
    BY <2>3 DEF Storing
  <2>6. slot' # None => task'[slot'].st # "unborn"
    BY <2>1, <2>2, <1>b DEF Born
  <2>7. \A t \in Tasks : Live(t)' => slot' = t
    BY <2>1, <2>2, <1>0, <1>c DEF Live
  <2>8. \A t \in Tasks : ~Stale(t)'
    BY <2>1, <1>b DEF NoneStale, Stale
  <2> QED
    BY <2>3, <2>4, <2>5, <2>6, <2>7, <2>8, Rebuild
<1>7. CASE c = "stop" /\ StopWorker
  <2> DEFINE r == [cmd[c] EXCEPT !.held = slot, !.next = "idle",
                                 !.pc = IF slot = None THEN "idle" ELSE "await"]
  <2>1. r \in CmdSet /\ r.held = slot /\ r.pc # "store" /\ r.next # "store"
    BY <1>0 DEF CmdSet
  <2>2. /\ cmd[c].pc = "take" /\ cmd' = [cmd EXCEPT ![c] = r] /\ slot' = None /\ file' = file
        /\ task' = IF slot = None THEN task ELSE [task EXCEPT ![slot].stop = TRUE]
    BY <1>7 DEF StopWorker, TakeThen
  <2> HIDE DEF r
  <2> QED
    BY <2>1, <2>2, <1>b, TakeOwned
<1>8. CASE c = "switch" /\ SwitchTake
  <2> DEFINE r == [cmd[c] EXCEPT !.held = slot, !.next = "swap",
                             !.pc = IF slot = None THEN "swap" ELSE "await",
                             !.cfg = IF slot = None THEN FromEnv ELSE task[slot].cfg]
  <2>1. (IF slot = None THEN FromEnv ELSE task[slot].cfg) \in Configs \cup {None}
    BY <1>0, LifecycleAssumption DEF TaskSet
  <2>2. r \in CmdSet /\ r.held = slot /\ r.pc # "store" /\ r.next # "store"
    BY <1>0, <2>1 DEF CmdSet
  <2>3. /\ cmd[c].pc = "take" /\ cmd' = [cmd EXCEPT ![c] = r] /\ slot' = None /\ file' = file
        /\ task' = IF slot = None THEN task ELSE [task EXCEPT ![slot].stop = TRUE]
    BY <1>8 DEF SwitchTake
  <2> HIDE DEF r
  <2> QED
    BY <2>2, <2>3, <1>b, TakeOwned
<1>9. CASE c = "switch" /\ SwitchClose
  <2>1. slot' = slot /\ task' = task /\ cmd' = cmd /\ file' = file
    BY <1>9 DEF SwitchClose
  <2> QED
    BY <2>1, <1>b DEF Owned, OneCommand, SlotTaken, Born, Reached, NoneStale, Storing, Live,
                      Stale
<1>10. CASE c = "switch" /\ (SwitchReopen \/ SwitchFails)
  <2>1. /\ cmd[c].pc = "swap" /\ slot' = slot /\ task' = task
        /\ cmd' = [cmd EXCEPT ![c].pc = "retake"] \/ cmd' = [cmd EXCEPT ![c].pc = "idle"]
    BY <1>10 DEF SwitchReopen, SwitchFails
  <2>2. slot = None /\ cmd[c].held = None /\ ~Storing(c)
    BY <2>1, <1>0, <1>b DEF SlotTaken, Storing
  <2>3. \A t \in Tasks : ~Live(t)
    BY <2>1, <2>2, <1>0, <1>c
  <2>4. cmd'[c].pc \in {"retake", "idle"} /\ \A d \in Commands : d # c => cmd'[d] = cmd[d]
    BY <1>0, <2>1 DEF CmdSet
  <2>5. \A d \in Commands : d # c => cmd'[d].pc = "idle"
    BY <1>c, <2>1, <2>4
  <2>6. ~Storing(c)' /\ slot' = None
    BY <2>1, <2>2, <2>4 DEF Storing
  <2>7. \A t \in Tasks : ~Live(t)' /\ ~Stale(t)'
    BY <2>1, <2>3 DEF Live, Stale
  <2> QED
    BY <2>5, <2>6, <2>7, Rebuild
<1>11. CASE c = "switch" /\ SwitchRetake
  <2> DEFINE r == [cmd[c] EXCEPT !.held = slot, !.next = "respawn",
                                 !.pc = IF slot = None THEN "respawn" ELSE "await"]
  <2>1. r \in CmdSet /\ r.held = slot /\ r.pc # "store" /\ r.next # "store"
    BY <1>0 DEF CmdSet
  <2>2. /\ cmd[c].pc = "retake" /\ cmd' = [cmd EXCEPT ![c] = r] /\ slot' = None
        /\ file' = file
        /\ task' = IF slot = None THEN task ELSE [task EXCEPT ![slot].stop = TRUE]
    BY <1>11 DEF SwitchRetake, TakeThen
  <2> HIDE DEF r
  <2> QED
    BY <2>1, <2>2, <1>b, TakeOwned
<1>12. CASE c = "switch" /\ SwitchRespawn
  <2>1. cmd[c].pc = "respawn" /\ cmd' = [cmd EXCEPT ![c].pc = "idle"] /\ file' = file
    BY <1>12 DEF SwitchRespawn
  <2>2. slot = None /\ cmd[c].held = None /\ ~Storing(c)
    BY <2>1, <1>0, <1>b DEF SlotTaken, Storing
  <2>3. \A t \in Tasks : ~Live(t)
    BY <2>1, <2>2, <1>0, <1>c
  <2>4. cmd'[c].pc = "idle" /\ \A d \in Commands : d # c => cmd'[d] = cmd[d]
    BY <1>0, <2>1 DEF CmdSet
  <2>5. \A d \in Commands : d # c => cmd'[d].pc = "idle"
    BY <1>c, <2>1, <2>4
  <2>6. ~Storing(c)'
    BY <2>4 DEF Storing
  <2>7. CASE slot' = slot /\ task' = task
    <3>1. \A t \in Tasks : ~Live(t)' /\ ~Stale(t)'
      BY <2>7, <2>3 DEF Live, Stale
    <3> QED
      BY <3>1, <2>2, <2>4, <2>5, <2>6, <2>7, Rebuild
  <2>8. CASE /\ MaySpawn /\ slot' = Fresh
             /\ task' = [task EXCEPT ![Fresh] =
                           Worker("connecting", cmd["switch"].cfg, "brain")]
    <3>1. Fresh \in Tasks
      BY <2>8, FreshIsTask
    <3>2. \A t \in Tasks : task'[t] = IF t = Fresh
                             THEN Worker("connecting", cmd["switch"].cfg, "brain")
                             ELSE task[t]
      BY <1>0, <2>8
    <3>3. task'[slot'].st # "unborn"
      BY <3>1, <3>2, <2>8 DEF Worker
    <3>4. \A t \in Tasks : Live(t)' => slot' = t
      BY <3>2, <2>3, <2>8 DEF Live
    <3>5. \A t \in Tasks : task'[t].st # "polling"
      BY <3>2, <2>3 DEF Live, Worker
    <3>6. \A t \in Tasks : ~Stale(t)'
      BY <3>5 DEF Stale
    <3> QED
      BY <3>3, <3>4, <3>6, <2>4, <2>5, <2>6, Rebuild
  <2> QED
    BY <2>7, <2>8, <1>12 DEF SwitchRespawn
<1> QED
  BY <1>1, <1>2, <1>3, <1>4, <1>5, <1>6, <1>7, <1>8, <1>9, <1>10, <1>11, <1>12 DEF Step

(* A task opens the file that is brain.db at that moment, or ends.         *)
LEMMA TaskOwned ==
  ASSUME LifecycleTypeOK, Owned, NEW t \in Tasks, Connect(t) \/ OpenFails(t) \/ TaskExits(t)
  PROVE  Owned'
<1> SUFFICES ASSUME ~overlapped' PROVE Owned'
  BY DEF Owned
<1>1. UNCHANGED <<slot, cmd, file, overlapped>>
  BY DEF Connect, OpenFails, TaskExits
<1>2. OneCommand /\ SlotTaken /\ Born /\ Reached /\ NoneStale
  BY <1>1 DEF Owned
<1>3. task \in [Tasks -> TaskSet] /\ slot \in Tasks \cup {None}
  BY Zenon DEF LifecycleTypeOK, TaskSet
<1>4. /\ task[t].st # "unborn" /\ Live(t)
      /\ task'[t].st \in {"polling", "gone"}
      /\ task'[t].st = "polling" => task'[t].file = file
      /\ \A u \in Tasks : u # t => task'[u] = task[u]
  BY <1>3 DEF Connect, OpenFails, TaskExits, Live, Worker, TaskSet
<1>5. \A u \in Tasks : Live(u)' => Live(u)
  BY <1>4 DEF Live
<1>6. \A u \in Tasks : task[u].st # "unborn" => task'[u].st # "unborn"
  BY <1>4
<1>7. OneCommand' /\ SlotTaken'
  BY <1>1, <1>2 DEF OneCommand, SlotTaken
<1>8. Born'
  BY <1>1, <1>2, <1>3, <1>6 DEF Born, Storing
<1>9. Reached'
  BY <1>1, <1>2, <1>5 DEF Reached, Storing
<1>10. NoneStale'
  BY <1>1, <1>2, <1>4 DEF NoneStale, Stale
<1> QED
  BY <1>7, <1>8, <1>9, <1>10 DEF Owned

(* When nothing is in flight, owned means registered.                      *)
LEMMA OwnedIsSafe == LifecycleTypeOK /\ Owned => SerialCommandsAreSafe
<1> SUFFICES ASSUME LifecycleTypeOK, Owned, Quiet, ~overlapped, NEW t \in Tasks
             PROVE  ~Orphan(t) /\ ~Stale(t)
  BY DEF SerialCommandsAreSafe
<1>1. \A c \in Commands : cmd[c].held = None /\ ~Storing(c)
  BY DEF Quiet, LifecycleTypeOK, Storing
<1>2. t # None
  BY LifecycleAssumption
<1> QED
  BY <1>1, <1>2 DEF Owned, Reached, NoneStale, Orphan

(* For any number of start commands, tasks and configurations: commands    *)
(* that never overlapped leave every running worker registered and none on *)
(* a file a switch replaced, whatever failed half-way.                     *)
THEOREM SerialCommandsSafe == LifecycleSpec => []SerialCommandsAreSafe
<1>1. LifecycleInit => LifecycleTypeOK /\ Owned
  BY InitType, InitOwned
<1>2. LifecycleTypeOK /\ Owned /\ [LifecycleNext]_lifecycleVars => (LifecycleTypeOK /\ Owned)'
  <2> SUFFICES ASSUME LifecycleTypeOK, Owned, [LifecycleNext]_lifecycleVars
               PROVE  (LifecycleTypeOK /\ Owned)'
    OBVIOUS
  <2>1. ASSUME NEW c \in Commands, Begin(c) \/ Step(c) PROVE (LifecycleTypeOK /\ Owned)'
    BY <2>1, CommandType, CommandOwned
  <2>2. ASSUME NEW t \in Tasks, Connect(t) \/ OpenFails(t) \/ TaskExits(t)
        PROVE  (LifecycleTypeOK /\ Owned)'
    BY <2>2, TaskType, TaskOwned
  <2>3. CASE UNCHANGED lifecycleVars
    BY <2>3 DEF lifecycleVars, LifecycleTypeOK, Owned, OneCommand, SlotTaken, Born, Reached,
                NoneStale, Storing, Live, Stale
  <2> QED
    BY <2>1, <2>2, <2>3 DEF LifecycleNext, Done
<1>3. LifecycleTypeOK /\ Owned => SerialCommandsAreSafe
  BY OwnedIsSafe
<1> QED
  BY <1>1, <1>2, <1>3, PTL DEF LifecycleSpec
=============================================================================
