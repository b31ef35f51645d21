------------------------ MODULE MCHistoricalMetrics ------------------------
(***************************************************************************)
(* HistoricalMetrics for TLC: samples are interchangeable, and so are the  *)
(* entities, for the properties are invariants that name none of them.     *)
(***************************************************************************)
EXTENDS HistoricalMetrics, TLC

Interchangeable == Permutations(Samples) \cup Permutations(Entities)
=============================================================================
