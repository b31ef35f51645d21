------------------------------- MODULE MCHub --------------------------------
(***************************************************************************)
(* Hub with one client, whose buffer is full after one message, and two    *)
(* goroutines that broadcast.  Clients meet only in the list a broadcaster *)
(* works through.                                                          *)
(***************************************************************************)
EXTENDS Hub
=============================================================================
