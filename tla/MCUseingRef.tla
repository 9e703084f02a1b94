---------------------------- MODULE MCUseingRef -----------------------------
(* UseingRef for TLC: three threads on one word. *)
EXTENDS UseingRef
=============================================================================
