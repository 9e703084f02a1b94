----------------------------- MODULE MCMoonPipe -----------------------------
(* MoonPipe for TLC. *)
EXTENDS MoonPipe
=============================================================================
