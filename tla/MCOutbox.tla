------------------------------ MODULE MCOutbox ------------------------------
(***************************************************************************)
(* Outbox for TLC: the two workers that overlapping start commands leave   *)
(* on one brain.db.                                                        *)
(***************************************************************************)
EXTENDS Outbox

CONSTANTS first, second

BothWorkers == {first, second}

CONSTANT Default   \* the table of OutboxConfig::default()

(* Both workers under Halt and stamps in commit order; one of them under    *)
(* Skip and stamps in any order; the table no writer fills, which is what   *)
(* every caller of the program polls.                                       *)
PlainAndNot == {[skip |-> {}, backdated |-> FALSE, events |-> 3,
                 table |-> WriterTable],
                [skip |-> {first}, backdated |-> TRUE, events |-> 2,
                 table |-> WriterTable],
                [skip |-> {}, backdated |-> FALSE, events |-> 3,
                 table |-> Default]}
Polled == {WriterTable, Default}
=============================================================================
