---------------------------- MODULE MCCollector -----------------------------
(***************************************************************************)
(* Collector with two containers, and intervals shorter, longer and equal  *)
(* to the one it starts with, and none at all.                             *)
(***************************************************************************)
EXTENDS Collector
=============================================================================
