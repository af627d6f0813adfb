------------------------- MODULE MCOutboxLifecycle --------------------------
(***************************************************************************)
(* OutboxLifecycle for TLC: two start commands and up to two configurations.*)
(***************************************************************************)
EXTENDS OutboxLifecycle

CONSTANTS t1, t2, t3, t4, urlA, urlB

FourTasks == {t1, t2, t3, t4}
TwoConfigs == {urlA, urlB}
TwoStarts == {"start1", "start2"}
=============================================================================
