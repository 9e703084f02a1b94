---------------------------- MODULE MCMoonTimer -----------------------------
(* MoonTimer for TLC. *)
EXTENDS MoonTimer

\* Two timers, told apart by what their clients use them for.
CONSTANTS a, b

\* For ever, not started by timer_new, or once.
Counts == {-1, 0, 1}

\* a is called for ever; b is called once each time it is set, and may be made
\* without being started.
EndlessAndOnce == {<<a, -1, 2>>, <<b, 0, 1>>, <<b, 1, 1>>}

\* Each timer is called for ever or once.
EndlessOrOnce == {a, b} \X {-1, 1} \X {1}
=============================================================================
