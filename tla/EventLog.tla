------------------------------ MODULE EventLog ------------------------------
(***************************************************************************)
(* What the outbox promises the owner of the remote database, with every   *)
(* table, worker and retry left out: the wiki mutations form one log, in   *)
(* the order they commit, and the remote table is a prefix of that log.    *)
(* In particular the remote side sees every event once and in commit       *)
(* order, so replaying it passes through the states of the local brain.    *)
(***************************************************************************)
EXTENDS Naturals, Sequences

CONSTANT Events          \* the identities a mutation's outbox row may get

VARIABLES log,           \* the committed mutations, in commit order
          remote         \* the rows of wiki_outbox_events, in arrival order

vars == <<log, remote>>

Init ==
  /\ log = <<>>
  /\ remote = <<>>

(* A wiki mutation commits; its id is fresh (generate_outbox_id).          *)
Commit ==
  \E e \in Events :
    /\ \A i \in DOMAIN log : log[i] # e
    /\ log' = Append(log, e)
    /\ UNCHANGED remote

(* The oldest mutation the remote side does not have yet arrives there.    *)
Replicate ==
  /\ Len(remote) < Len(log)
  /\ remote' = Append(remote, log[Len(remote) + 1])
  /\ UNCHANGED log

Next == Commit \/ Replicate

Spec == Init /\ [][Next]_vars
=============================================================================
