-------------------------- MODULE GuardedResource ---------------------------
(***************************************************************************)
(* What a "useing" status word promises to the code that uses it: threads  *)
(* enter and leave the guarded resource until somebody shuts it; from then *)
(* on nobody enters, and the resource is released once, after the last     *)
(* user has left.                                                          *)
(***************************************************************************)
CONSTANT Threads

VARIABLES gate,   \* "open", "shut" (no entry, not yet released), "released"
          users   \* the threads inside

gvars == <<gate, users>>

GInit == gate = "open" /\ users = {}

Enter(t) ==
  /\ gate = "open"
  /\ t \notin users
  /\ users' = users \cup {t}
  /\ UNCHANGED gate

Leave(t) ==
  /\ t \in users
  /\ users' = users \ {t}
  /\ UNCHANGED gate

Shut ==
  /\ gate = "open"
  /\ gate' = "shut"
  /\ UNCHANGED users

Release ==
  /\ gate = "shut"
  /\ users = {}
  /\ gate' = "released"
  /\ UNCHANGED users

GNext ==
  \/ \E t \in Threads : Enter(t) \/ Leave(t)
  \/ Shut
  \/ Release

GSpec == GInit /\ [][GNext]_gvars
=============================================================================
