-------------------------- MODULE MCIngestPipeline --------------------------
(***************************************************************************)
(* IngestPipeline for TLC: contents that share a chunk, and one without.   *)
(***************************************************************************)
EXTENDS IngestPipeline

CONSTANTS c1, c2, c3, c0

Three == 1..3
Two   == 1..2
Chunked == <<{c1, c2}, {c2, c3}, {}>>
Disjoint == <<{c1}, {c2}>>
AnyKind == SUBSET Docs
Old == {c0}
=============================================================================
