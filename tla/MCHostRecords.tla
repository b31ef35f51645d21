--------------------------- MODULE MCHostRecords ----------------------------
(***************************************************************************)
(* HostRecords with one host and requests that overlap.                    *)
(***************************************************************************)
EXTENDS HostRecords, TLC

Interchangeable == Permutations(Handlers) \cup Permutations(Tokens)
=============================================================================
