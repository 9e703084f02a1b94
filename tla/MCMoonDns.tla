------------------------------ MODULE MCMoonDns -----------------------------
(* MoonDns for TLC: one client asks for one domain with any flag, the other   *)
(* one for either domain or for a number.                                     *)
EXTENDS MoonDns

CONSTANTS q1, q2, d1, d2

MCAsks ==
  q1 :> {<<d1, "none">>, <<d1, "clear">>, <<d1, "dont_use">>}
  @@ q2 :> {<<d2, "none">>, <<d1, "none">>, <<d1, "clear">>, <<d1, "dont_use">>, <<Numeric, "none">>}
=============================================================================
