--------------------------- MODULE MCStatedLedger ---------------------------
(* A small instance of StatedLedger: two facts of the same text from        *)
(* different documents, and texts of which two differ only in case.         *)
EXTENDS StatedLedger

CONSTANTS f1, f2, a, A, b, here, there

MCNorm  == [t \in Texts |-> IF t = A THEN a ELSE t]
MCPlace == [f \in Facts |-> IF f = f1 THEN here ELSE there]
MCOrigins == {<<FALSE, FALSE>>, <<TRUE, TRUE>>}
MCInit  == [f \in Facts |-> [at |-> "live", text |-> a, human |-> FALSE,
                             sure |-> FALSE]]
=============================================================================
