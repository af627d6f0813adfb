--------------------------- MODULE MCRestoreSync ---------------------------
(* A small instance of RestoreSync: two vaults, a record minted in each and *)
(* a second one in the vault in use at first.                               *)
EXTENDS RestoreSync, TLC

CONSTANTS A, B, a1, a2, b1

MCOwner == [r \in Records |-> IF r = b1 THEN B ELSE A]

\* Vault B was in use earlier: its backup was taken when b1's Insert was
\* drained, or when it was still queued.
BackupOfB(outbox) == [vault |-> B, file |-> 0, recs |-> {b1}, outbox |-> outbox]

MCInitBackups ==
    {(A :> None) @@ (B :> BackupOfB(ob)) :
        ob \in {{}, {[at |-> 1, op |-> "Insert", rec |-> b1]}}}

\* One of them, for the run with two switches, which take backups of their own.
MCDrainedBackup == {(A :> None) @@ (B :> BackupOfB({}))}
=============================================================================
