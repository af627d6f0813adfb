--------------------------- MODULE MCBulkBreaker ---------------------------
EXTENDS BulkBreaker, TLC

CONSTANTS r1, r2, r3, r4, healer, ctHeal, button, regrade, ctRegrade

\* A population of four entries, so that at 50 percent the budget is two rows.
Four   == {r1, r2, r3, r4}

\* Passes that follow one another without --allow-bulk, and ones that overlap
\* each other and the re-indexing of documents, with it.
Racing == [races |-> {"passes", "grounding"}, bulk |-> TRUE, rooted |-> TRUE]
OneAtATime == [races |-> {}, bulk |-> FALSE, rooted |-> TRUE]
SerialAndRacing == {OneAtATime, Racing}
=============================================================================
