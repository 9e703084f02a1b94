----------------------------- MODULE UseingRef ------------------------------
(***************************************************************************)
(* useing_ref_inc, useing_ref_dec and set_status_closed of moon_common.h   *)
(* on one shared status word, run by any number of threads.  Every load    *)
(* and every __sync builtin is a step of its own: a compare-and-swap loop  *)
(* is a load into the local tmp followed by an attempt that either         *)
(* succeeds or goes back to the load.                                      *)
(*                                                                         *)
(* A thread calls useing_ref_dec only after a useing_ref_inc of its own    *)
(* that succeeded, and may call set_status_closed whether or not it is a   *)
(* user, as common_socket.c, moon_pipe.c and moon_timer.c do.              *)
(***************************************************************************)
EXTENDS UseingStatus, FiniteSets

CONSTANTS Threads,     \* the threads that share the word
          InitStatus   \* the low bits when the word is first shared

ASSUME ThreadsAssumption == IsFiniteSet(Threads)
ASSUME InitStatusAssumption == InitStatus \in STATUS_MASK \ {STATUS_CLOSED}

VARIABLES status,   \* *p_status
          tmp,      \* tmp[t]: the local of the call t is in
          pc,       \* pc[t]: where t is
          user,     \* user[t]: t holds a counted use
          closed    \* how many times close_fun has been called

vars == <<status, tmp, pc, user, closed>>

Pcs == {"idle", "inc_cas", "set_cas", "close_fun"}

Init ==
  /\ status = [st |-> InitStatus, n |-> 0]
  /\ tmp = [t \in Threads |-> [st |-> InitStatus, n |-> 0]]
  /\ pc = [t \in Threads |-> "idle"]
  /\ user = [t \in Threads |-> FALSE]
  /\ closed = 0

Goto(t, from, to) ==
  /\ pc[t] = from
  /\ pc' = [pc EXCEPT ![t] = to]

-----------------------------------------------------------------------------
(* useing_ref_inc *)

\* Variant of IncLoad that does not test for STATUS_CLOSED.
IncLoad_NoClosedTest(t) ==
  /\ ~user[t]
  /\ Goto(t, "idle", "inc_cas")
  /\ tmp' = [tmp EXCEPT ![t] = status]
  /\ UNCHANGED <<status, user, closed>>

\* tmp = *p_status; a closed word ends the loop and the call returns -1.
IncLoad(t) ==
  /\ ~user[t]
  /\ Goto(t, "idle", IF IsClosed(status) THEN "idle" ELSE "inc_cas")
  /\ tmp' = [tmp EXCEPT ![t] = status]
  /\ UNCHANGED <<status, user, closed>>

\* Variant of IncCas that stores tmp + unit without comparing.
IncCas_BlindStore(t) ==
  /\ Goto(t, "inc_cas", "idle")
  /\ status' = AddUser(tmp[t])
  /\ user' = [user EXCEPT ![t] = TRUE]
  /\ UNCHANGED <<tmp, closed>>

\* The word still is what was loaded: the use is counted, the call returns 0.
IncCas(t) ==
  /\ Goto(t, "inc_cas", "idle")
  /\ status = tmp[t]
  /\ status' = AddUser(tmp[t])
  /\ user' = [user EXCEPT ![t] = TRUE]
  /\ UNCHANGED <<tmp, closed>>

\* Another thread changed the word: load again.
IncRetry(t) ==
  /\ status # tmp[t]
  /\ Goto(t, "inc_cas", "idle")
  /\ UNCHANGED <<status, tmp, user, closed>>

-----------------------------------------------------------------------------
(* useing_ref_dec *)

\* __sync_sub_and_fetch; the thread that brings a closed word to count 0
\* goes on to call close_fun.
DecSub(t) ==
  /\ user[t]
  /\ status' = SubUser(status)
  /\ Goto(t, "idle",
          IF STATUS_LEGAL_CLOSED(status') THEN "close_fun" ELSE "idle")
  /\ user' = [user EXCEPT ![t] = FALSE]
  /\ UNCHANGED <<tmp, closed>>

-----------------------------------------------------------------------------
(* set_status_closed *)

\* Variant of SetLoad that does not test for STATUS_CLOSED.
SetLoad_NoClosedTest(t) ==
  /\ Goto(t, "idle", "set_cas")
  /\ tmp' = [tmp EXCEPT ![t] = status]
  /\ UNCHANGED <<status, user, closed>>

SetLoad(t) ==
  /\ Goto(t, "idle", IF IsClosed(status) THEN "idle" ELSE "set_cas")
  /\ tmp' = [tmp EXCEPT ![t] = status]
  /\ UNCHANGED <<status, user, closed>>

\* Variant of SetCas that never calls close_fun itself.
SetCas_NeverCalls(t) ==
  /\ status = tmp[t]
  /\ status' = MarkClosed(tmp[t])
  /\ Goto(t, "set_cas", "idle")
  /\ UNCHANGED <<tmp, user, closed>>

\* The word becomes closed; close_fun is called here only if nobody uses it.
SetCas(t) ==
  /\ status = tmp[t]
  /\ status' = MarkClosed(tmp[t])
  /\ Goto(t, "set_cas", IF NoUser(tmp[t]) THEN "close_fun" ELSE "idle")
  /\ UNCHANGED <<tmp, user, closed>>

SetRetry(t) ==
  /\ status # tmp[t]
  /\ Goto(t, "set_cas", "idle")
  /\ UNCHANGED <<status, tmp, user, closed>>

\* close_fun( p_data ): the resource is gone when it returns.
CloseFun(t) ==
  /\ Goto(t, "close_fun", "idle")
  /\ closed' = closed + 1
  /\ UNCHANGED <<status, tmp, user>>

-----------------------------------------------------------------------------
IncStep(t) == IncLoad(t) \/ IncCas(t) \/ IncRetry(t)

SetStep(t) == SetLoad(t) \/ SetCas(t) \/ SetRetry(t)

Step(t) == IncStep(t) \/ DecSub(t) \/ SetStep(t) \/ CloseFun(t)

Next == \E t \in Threads : Step(t)

Spec == Init /\ [][Next]_vars

\* Going on with a call that has begun, and ending a use.
Progress(t) ==
  IncCas(t) \/ IncRetry(t) \/ SetCas(t) \/ SetRetry(t) \/ DecSub(t) \/ CloseFun(t)

(***************************************************************************)
(* The scheduler runs a thread in the middle of a call, and a user is done *)
(* with the resource some day.  Nobody is obliged to enter or to close.    *)
(***************************************************************************)
FairSpec == Spec /\ \A t \in Threads : WF_vars(Progress(t))

-----------------------------------------------------------------------------
(* Properties *)

Users == {t \in Threads : user[t]}

Closers == {t \in Threads : pc[t] = "close_fun"}

\* Type invariant of the shared word and of the threads' locals.
TypeOK ==
  /\ status \in StatusWord
  /\ tmp \in [Threads -> StatusWord]
  /\ pc \in [Threads -> Pcs]
  /\ user \in [Threads -> BOOLEAN]
  /\ closed \in Nat

\* The high bits of the word are the number of threads that have been let in
\* and have not yet called useing_ref_dec: no increment is lost or repeated.
CountIsUsers == status.n = Cardinality(Users)

\* close_fun is called once at most, whichever of set_status_closed and the
\* last useing_ref_dec gets to call it.
ClosedOnce ==
  /\ closed <= 1
  /\ closed = 1 => Closers = {}
  /\ \A t, u \in Closers : t = u

\* From the moment a thread is about to call close_fun, nobody is inside.
NoUserWhenClosing == (Closers # {} \/ closed > 0) => Users = {}

\* The call of close_fun is never dropped: a closed word without users has
\* been released, or some thread is committed to releasing it.
CloseNotLost == STATUS_LEGAL_CLOSED(status) => (closed = 1 \/ Closers # {})

\* close_fun is called once at most, on a resource that nobody uses, and the
\* call is not lost between set_status_closed and the last useing_ref_dec.
ReleasedProperly == ClosedOnce /\ NoUserWhenClosing /\ CloseNotLost

\* A resource that somebody has closed is released in the end.
EventuallyReleased == IsClosed(status) ~> closed = 1

-----------------------------------------------------------------------------
(* Refinement: the word implements the guarded resource. *)

Gate ==
  IF closed > 0 THEN "released" ELSE IF IsClosed(status) THEN "shut" ELSE "open"

Resource == INSTANCE GuardedResource WITH gate <- Gate, users <- Users

\* Every behaviour of the three functions is one of GuardedResource.
ImplementsResource == Resource!GSpec
=============================================================================
