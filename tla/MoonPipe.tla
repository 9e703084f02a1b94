------------------------------ MODULE MoonPipe ------------------------------
(***************************************************************************)
(* moon_pipe.c: one pipe between two points, shared by several threads.    *)
(* The pipe has a reference count (ref_num), a status word with a ready    *)
(* bit, one closed bit per point and a count of threads inside (useing),   *)
(* and, while a two-way pipe is being set up, a mutex that is held by the  *)
(* creator and guarded by a useing word of its own (mutex_status).         *)
(*                                                                         *)
(* Every __sync operation, every mutex operation and every callback is a   *)
(* step of its own.  A compare-and-swap loop is one step: it takes effect  *)
(* at the exchange that succeeds, or at the load that ends it (UseingRef   *)
(* checks such loops load by load).                                        *)
(*                                                                         *)
(* What the callers of a pipe do, in every module that uses one: the       *)
(* creator calls pipe_new, set_point_ref and init_done in this order,      *)
(* closes its end before it gives up its reference, hands references to    *)
(* other threads with ref_inc while it has one itself, and shares a        *)
(* one-way pipe only after init_done.                                      *)
(***************************************************************************)
EXTENDS UseingStatus, FiniteSets

CONSTANTS Threads,   \* the threads that use the pipe
          Creator    \* the one that calls pipe_new

ASSUME PipeThreadsAssumption ==
  /\ IsFiniteSet(Threads)
  /\ Creator \in Threads
  /\ Threads \cap {"none", "free", "destroyed"} = {}

Points == {0, 1}

Other(i) == 1 - i

VARIABLES
  pipe,          \* "none", "live" or "freed"
  ref_num,       \* p_pipe->ref_num
  status,        \* p_pipe->status: its bits and the useing count
  mutex_status,  \* p_pipe->mutex_status
  pipe_mutex,    \* "none", "free", "destroyed" or the thread that holds it
  p_ref,         \* p_ref[i]: the object of point i has been set
  gc,            \* gc[i]: the reference count of that object
  owned,         \* owned[i]: its owner still has the first reference
  pc,            \* where a thread is; "none" without a reference to the pipe
  cont,          \* where it goes on after a call in common code
  side,          \* side[t]: the point whose p_data t works with
  has_closed,    \* the creator has called close
  closing,       \* how often the close callbacks have been started
  notified,      \* notified[i]: calls of point i's listener close
  released       \* released[i]: ref_decs of point i's object by the pipe

pipeVars == <<pipe, ref_num, status, mutex_status, pipe_mutex>>
pointVars == <<p_ref, gc, owned>>
threadVars == <<pc, cont, side, has_closed>>
history == <<closing, notified, released>>
vars == <<pipeVars, pointVars, threadVars, history>>

NO_MUTEX == [st |-> 1, n |-> 0]

Init ==
  /\ pipe = "none"
  /\ ref_num = 0
  /\ status = [ready |-> FALSE, closed |-> {}, useing |-> 0]
  /\ mutex_status = [st |-> 0, n |-> 0]
  /\ pipe_mutex = "none"
  /\ p_ref = [i \in Points |-> FALSE]
  /\ gc = [i \in Points |-> 1]
  /\ owned = [i \in Points |-> TRUE]
  /\ pc = [t \in Threads |-> "none"]
  /\ cont = [t \in Threads |-> "idle"]
  /\ side \in {f \in [Threads -> Points] : f[Creator] = 0}
  /\ has_closed = FALSE
  /\ closing = 0
  /\ notified = [i \in Points |-> 0]
  /\ released = [i \in Points |-> 0]

Goto(t, from, to) ==
  /\ pc[t] = from
  /\ pc' = [pc EXCEPT ![t] = to]

Call(t, from, to, back) ==
  /\ Goto(t, from, to)
  /\ cont' = [cont EXCEPT ![t] = back]

\* Goes on at "to" if cond holds, otherwise returns from the common code.
GotoOrReturn(t, from, cond, to) ==
  /\ Goto(t, from, IF cond THEN to ELSE cont[t])
  /\ cont' = [cont EXCEPT ![t] = IF cond THEN @ ELSE "idle"]

Closed == status.closed # {}

\* pipe_useing_ref_inc returns -1.
Refused == Closed

\* pipe_close finds tmp < PIPE_USEING_REF_UNIT.
NobodyInside == status.useing = 0

\* Variant of LastOneOut: pipe_useing_ref_dec only counts.
LastOneOut_Never == FALSE

\* pipe_useing_ref_dec brings a closed pipe to tmp < PIPE_USEING_REF_UNIT.
LastOneOut == Closed /\ status.useing = 1

\* A one-way pipe is ready at once, a two-way pipe after init_done.
ReadyWhenNew(is_two_way) == ~is_two_way

-----------------------------------------------------------------------------
(* pipe_new, set_point_ref, ref_inc *)

\* calloc (or the caller's zeroed buffer), status and mutex, then
\* pipe_useing_ref_inc and, for a two-way pipe, the lock.
pipe_new(t, is_two_way) ==
  /\ pipe = "none"
  /\ t = Creator
  /\ Goto(t, "none", "setup")
  /\ pipe' = "live"
  /\ ref_num' = 1
  /\ status' = [ready |-> ReadyWhenNew(is_two_way), closed |-> {}, useing |-> 1]
  /\ mutex_status' = IF is_two_way THEN [st |-> 0, n |-> 0] ELSE NO_MUTEX
  /\ pipe_mutex' = IF is_two_way THEN t ELSE "none"
  /\ UNCHANGED <<pointVars, cont, side, has_closed, history>>

\* The pipe takes a reference to the object of point i.
pipe_set_point_ref(t, i) ==
  /\ pc[t] = "setup"
  /\ ~p_ref[i]
  /\ p_ref' = [p_ref EXCEPT ![i] = TRUE]
  /\ gc' = [gc EXCEPT ![i] = @ + 1]
  /\ UNCHANGED <<pipeVars, owned, threadVars, history>>

\* A thread with a reference gives one to another thread.
pipe_ref_inc(t, u) ==
  /\ pc[t] = "idle" \/ (pc[t] = "setup" /\ mutex_status # NO_MUTEX)
  /\ pc[u] = "none" /\ u # Creator
  /\ ref_num' = ref_num + 1
  /\ pc' = [pc EXCEPT ![u] = "idle"]
  /\ UNCHANGED <<pipe, status, mutex_status, pipe_mutex, pointVars, cont, side,
                 has_closed, history>>

\* The owner of an object that is attached to the pipe gives up its own
\* reference to the object.
OwnerDrops(i) ==
  /\ p_ref[i] /\ owned[i]
  /\ owned' = [owned EXCEPT ![i] = FALSE]
  /\ gc' = [gc EXCEPT ![i] = @ - 1]
  /\ UNCHANGED <<pipeVars, p_ref, threadVars, history>>

-----------------------------------------------------------------------------
(* pipe_close, pipe_useing_ref_dec and the callbacks they share *)

\* pipe_close: sets the closed bit of the caller's point unless the pipe is
\* closed already, and runs the callbacks when nobody is inside.
CloseCas(t) ==
  /\ GotoOrReturn(t, "close", ~Closed /\ NobodyInside, "cb_notify")
  /\ status' = IF Closed THEN status ELSE [status EXCEPT !.closed = {side[t]}]
  /\ has_closed' = (has_closed \/ t = Creator)
  /\ UNCHANGED <<pipe, ref_num, mutex_status, pipe_mutex, pointVars, side, history>>

\* pipe_useing_ref_dec: the last one out of a closed pipe runs the callbacks.
UseingDec(t) ==
  /\ GotoOrReturn(t, "u_dec", LastOneOut, "cb_notify")
  /\ status' = [status EXCEPT !.useing = @ - 1]
  /\ UNCHANGED <<pipe, ref_num, mutex_status, pipe_mutex, pointVars, side, has_closed,
                 history>>

\* The listener of the point that did not close is told.
CbNotify(t) ==
  /\ Goto(t, "cb_notify", "cb_own")
  /\ closing' = closing + 1
  /\ notified' = [i \in Points |->
       notified[i] + IF i \notin status.closed /\ p_ref[i] THEN 1 ELSE 0]
  /\ UNCHANGED <<pipeVars, pointVars, cont, side, has_closed, released>>

\* gc ref_dec of the object of point i, when there is one.
ReleasePoint(i) ==
  /\ gc' = IF p_ref[i] THEN [gc EXCEPT ![i] = @ - 1] ELSE gc
  /\ released' = [released EXCEPT ![i] = @ + 1]
  /\ UNCHANGED <<pipeVars, p_ref, owned, side, has_closed, closing, notified>>

\* Variant of CbReleaseOwn that forgets the other point.
CbReleaseOwn_Only(t) ==
  GotoOrReturn(t, "cb_own", FALSE, "cb_other") /\ ReleasePoint(side[t])

CbReleaseOwn(t) ==
  GotoOrReturn(t, "cb_own", TRUE, "cb_other") /\ ReleasePoint(side[t])

CbReleaseOther(t) ==
  GotoOrReturn(t, "cb_other", FALSE, "cb_other") /\ ReleasePoint(Other(side[t]))

pipe_close(t) ==
  /\ Call(t, "idle", "close", "idle")
  /\ UNCHANGED <<pipeVars, pointVars, side, has_closed, history>>

-----------------------------------------------------------------------------
(* pipe_init_done *)

pipe_init_done(t, is_fail) ==
  /\ Call(t, "setup", IF is_fail THEN "close" ELSE "i_ready", "i_unlock")
  /\ UNCHANGED <<pipeVars, pointVars, side, has_closed, history>>

InitReady(t) ==
  /\ Goto(t, "i_ready", "i_unlock")
  /\ status' = [status EXCEPT !.ready = TRUE]
  /\ UNCHANGED <<pipe, ref_num, mutex_status, pipe_mutex, pointVars, cont, side,
                 has_closed, history>>

\* Variant of InitUnlock that does not unlock.
InitUnlock_Keeps(t) ==
  /\ Call(t, "i_unlock", IF mutex_status = NO_MUTEX THEN "u_dec" ELSE "i_mclose", "idle")
  /\ UNCHANGED <<pipeVars, pointVars, side, has_closed, history>>

\* Lets the waiting threads go; a one-way pipe has no mutex.
InitUnlock(t) ==
  /\ Call(t, "i_unlock", IF mutex_status = NO_MUTEX THEN "u_dec" ELSE "i_mclose", "idle")
  /\ pipe_mutex' = IF mutex_status = NO_MUTEX THEN pipe_mutex ELSE "free"
  /\ UNCHANGED <<pipe, ref_num, status, mutex_status, pointVars, side, has_closed, history>>

\* set_status_closed( &mutex_status, mutex_del_func )
InitMutexClose(t) ==
  /\ Goto(t, "i_mclose", IF ~IsClosed(mutex_status) /\ NoUser(mutex_status)
                         THEN "i_mdel" ELSE "u_dec")
  /\ mutex_status' = MarkClosed(mutex_status)
  /\ UNCHANGED <<pipe, ref_num, status, pipe_mutex, pointVars, cont, side,
                 has_closed, history>>

\* mutex_del_func
MutexDel(t) ==
  /\ Goto(t, "i_mdel", "u_dec") \/ Goto(t, "g_mdel", "g_check")
  /\ pipe_mutex' = "destroyed"
  /\ UNCHANGED <<pipe, ref_num, status, mutex_status, pointVars, cont, side,
                 has_closed, history>>

-----------------------------------------------------------------------------
(* pipe_get_other_point_ref *)

\* pipe_useing_ref_inc, refused with -1 when the pipe is closed.
GetEnter(t) ==
  /\ Goto(t, "idle", IF Refused THEN "idle" ELSE "g_ready")
  /\ status' = IF Refused THEN status ELSE [status EXCEPT !.useing = @ + 1]
  /\ UNCHANGED <<pipe, ref_num, mutex_status, pipe_mutex, pointVars, cont, side,
                 has_closed, history>>

GetReady(t) ==
  /\ Goto(t, "g_ready", IF status.ready THEN "g_check" ELSE "g_minc")
  /\ UNCHANGED <<pipeVars, pointVars, cont, side, has_closed, history>>

\* useing_ref_inc( &mutex_status )
GetMutexInc(t) ==
  /\ Goto(t, "g_minc", IF IsClosed(mutex_status) THEN "g_check" ELSE "g_lock")
  /\ mutex_status' = IF IsClosed(mutex_status) THEN mutex_status ELSE AddUser(mutex_status)
  /\ UNCHANGED <<pipe, ref_num, status, pipe_mutex, pointVars, cont, side,
                 has_closed, history>>

GetLock(t) ==
  /\ Goto(t, "g_lock", "g_unlock")
  /\ pipe_mutex = "free"
  /\ pipe_mutex' = t
  /\ UNCHANGED <<pipe, ref_num, status, mutex_status, pointVars, cont, side,
                 has_closed, history>>

GetUnlock(t) ==
  /\ Goto(t, "g_unlock", "g_mdec")
  /\ pipe_mutex' = "free"
  /\ UNCHANGED <<pipe, ref_num, status, mutex_status, pointVars, cont, side,
                 has_closed, history>>

\* useing_ref_dec( &mutex_status, mutex_del_func )
GetMutexDec(t) ==
  /\ mutex_status' = SubUser(mutex_status)
  /\ Goto(t, "g_mdec", IF STATUS_LEGAL_CLOSED(mutex_status') THEN "g_mdel" ELSE "g_check")
  /\ UNCHANGED <<pipe, ref_num, status, pipe_mutex, pointVars, cont, side,
                 has_closed, history>>

\* The bits are only ever set, so the two loads of the test are one step.
GetCheck(t) ==
  /\ \/ (~status.ready \/ Closed) /\ Call(t, "g_check", "u_dec", "idle")
     \/ status.ready /\ ~Closed /\ Call(t, "g_check", "g_ref", "got")
  /\ UNCHANGED <<pipeVars, pointVars, side, has_closed, history>>

\* A reference to the other point's object ...
GetPointRef(t) ==
  /\ Goto(t, "g_ref", "g_dref")
  /\ gc' = [i \in Points |-> gc[i] + IF i = Other(side[t]) /\ p_ref[i] THEN 1 ELSE 0]
  /\ UNCHANGED <<pipeVars, p_ref, owned, cont, side, has_closed, history>>

\* Variant of GetDataRef that does not count the reference it hands out.
GetDataRef_NoInc(t) ==
  /\ Goto(t, "g_dref", "u_dec")
  /\ UNCHANGED <<pipeVars, pointVars, cont, side, has_closed, history>>

\* ... and one to the pipe, for the other point's p_data.
GetDataRef(t) ==
  /\ Goto(t, "g_dref", "u_dec")
  /\ ref_num' = ref_num + 1
  /\ UNCHANGED <<pipe, status, mutex_status, pipe_mutex, pointVars, cont, side,
                 has_closed, history>>

\* The caller has used the other point and gives its reference back.
PutPoint(t) ==
  /\ Goto(t, "got", "put_data")
  /\ gc' = [i \in Points |-> gc[i] - IF i = Other(side[t]) /\ p_ref[i] THEN 1 ELSE 0]
  /\ UNCHANGED <<pipeVars, p_ref, owned, cont, side, has_closed, history>>

-----------------------------------------------------------------------------
(* pipe_ref_dec *)

\* Subtracts; at 0 the points' data are freed and so is the pipe, or its
\* memory goes back to the user who gave it to pipe_new2.
RefDec ==
  /\ ref_num' = ref_num - 1
  /\ pipe' = IF ref_num' = 0 THEN "freed" ELSE pipe
  /\ UNCHANGED <<status, mutex_status, pipe_mutex, pointVars, cont, side, has_closed,
                 history>>

PutData(t) == Goto(t, "put_data", "idle") /\ RefDec

pipe_ref_dec(t) ==
  /\ t = Creator => has_closed
  /\ Goto(t, "idle", "none")
  /\ RefDec

-----------------------------------------------------------------------------
CbStep(t) == CbNotify(t) \/ CbReleaseOwn(t) \/ CbReleaseOther(t)

InitStep(t) == InitReady(t) \/ InitUnlock(t) \/ InitMutexClose(t)

GetStep(t) ==
  \/ GetReady(t) \/ GetMutexInc(t) \/ GetLock(t) \/ GetUnlock(t) \/ GetMutexDec(t)
  \/ GetCheck(t) \/ GetPointRef(t) \/ GetDataRef(t) \/ PutPoint(t) \/ PutData(t)

\* Going on with a call that has begun; the creator goes on with the set-up.
Progress(t) ==
  \/ CloseCas(t) \/ UseingDec(t) \/ CbStep(t) \/ InitStep(t) \/ MutexDel(t) \/ GetStep(t)
  \/ \E is_fail \in BOOLEAN : pipe_init_done(t, is_fail)

\* Calls that a thread may make.
Begin(t) ==
  \/ \E is_two_way \in BOOLEAN : pipe_new(t, is_two_way)
  \/ \E i \in Points : pipe_set_point_ref(t, i)
  \/ \E u \in Threads : pipe_ref_inc(t, u)
  \/ pipe_close(t) \/ GetEnter(t) \/ pipe_ref_dec(t)

Next ==
  \/ \E t \in Threads : Progress(t) \/ Begin(t)
  \/ \E i \in Points : OwnerDrops(i)

Spec == Init /\ [][Next]_vars

(***************************************************************************)
(* Threads are scheduled, a pthread mutex that is unlocked is acquired by  *)
(* a waiter, and callers of pipe_new call init_done in the end.  Nobody    *)
(* has to close a pipe or to give up a reference.                          *)
(***************************************************************************)
FairSpec == Spec /\ \A t \in Threads : WF_vars(Progress(t))

-----------------------------------------------------------------------------
(* Properties *)

Pcs == {"none", "setup", "idle", "close", "u_dec", "cb_notify", "cb_own", "cb_other",
        "i_ready", "i_unlock", "i_mclose", "i_mdel",
        "g_ready", "g_minc", "g_lock", "g_unlock", "g_mdec", "g_mdel", "g_check",
        "g_ref", "g_dref", "got", "put_data"}

\* Type invariant of the pipe and of the threads in it.
TypeOK ==
  /\ pipe \in {"none", "live", "freed"}
  /\ ref_num \in Nat
  /\ status \in [ready : BOOLEAN, closed : SUBSET Points, useing : Nat]
  /\ mutex_status \in StatusWord
  /\ pipe_mutex \in {"none", "free", "destroyed"} \cup Threads
  /\ p_ref \in [Points -> BOOLEAN]
  /\ gc \in [Points -> Nat]
  /\ owned \in [Points -> BOOLEAN]
  /\ pc \in [Threads -> Pcs]
  /\ cont \in [Threads -> {"idle", "got", "i_unlock"}]
  /\ side \in [Threads -> Points]
  /\ has_closed \in BOOLEAN
  /\ closing \in Nat
  /\ notified \in [Points -> Nat]
  /\ released \in [Points -> Nat]

\* A thread in the middle of the close callbacks.
InCallbacks(t) == pc[t] \in {"cb_notify", "cb_own", "cb_other"}

\* The threads between pipe_useing_ref_inc and pipe_useing_ref_dec.
Users ==
  {t \in Threads :
     \/ pc[t] \in {"setup", "u_dec", "i_ready", "i_unlock", "i_mclose", "i_mdel",
                   "g_ready", "g_minc", "g_lock", "g_unlock", "g_mdec", "g_mdel",
                   "g_check", "g_ref", "g_dref"}
     \/ pc[t] = "close" /\ cont[t] = "i_unlock"}

\* The threads between useing_ref_inc and useing_ref_dec of mutex_status.
MutexUsers == {t \in Threads : pc[t] \in {"g_lock", "g_unlock", "g_mdec"}}

\* The pipe's memory is given up (pipe_ref_dec) only when no thread is in any
\* of its functions or still has a reference, and, as pipe_seq.txt has it with
\* "pipe_free: pipe_closed == 1", when the pipe is closed and its callbacks have
\* run to the end: "pipe not closed when free!" is never printed.
NoUseAfterFree ==
  pipe = "freed" =>
    /\ \A t \in Threads : pc[t] = "none"
    /\ Closed
    /\ status.useing = 0
    /\ \A i \in Points : released[i] = 1

\* pipe_seq.txt, "pipe_closed: useing == 0": the callbacks run once for the
\* whole pipe, by one thread, after everybody has left; the point that closed
\* is not told and the other one is told once.
CallbacksOnce ==
  /\ closing <= 1
  /\ \A t, u \in Threads : InCallbacks(t) /\ InCallbacks(u) => t = u
  /\ (closing = 1 \/ \E t \in Threads : InCallbacks(t)) => Users = {} /\ Closed
  /\ \A i \in Points : notified[i] <= 1 /\ released[i] <= 1
  /\ \A i \in status.closed : notified[i] = 0

\* A closed pipe that nobody uses has had its callbacks, or a thread is
\* committed to them: they are not lost between pipe_close and the last
\* pipe_useing_ref_dec.
CallbacksNotLost ==
  Closed /\ status.useing = 0 =>
    \/ \A i \in Points : released[i] = 1
    \/ \E t \in Threads : InCallbacks(t)

\* The callbacks are neither repeated nor lost.
CallbacksRight == CallbacksOnce /\ CallbacksNotLost

\* An object is alive whenever the pipe touches it, and as long as a caller
\* of get_other_point_ref works with it, even if its owner has dropped it.
ObjectsAlive ==
  \A t \in Threads, i \in Points :
    /\ pc[t] \in {"g_ref", "g_dref", "got"} /\ i = Other(side[t]) /\ p_ref[i] => gc[i] > 0
    /\ pc[t] = "cb_notify" /\ p_ref[i] => gc[i] > 0
    /\ pc[t] = "cb_own" /\ i = side[t] /\ p_ref[i] => gc[i] > 0
    /\ pc[t] = "cb_other" /\ i = Other(side[t]) /\ p_ref[i] => gc[i] > 0

\* No object reference is leaked: what is left when every thread is done with
\* a closed pipe is the reference of the owner.
NoLeak ==
  (/\ Closed
   /\ \A t \in Threads : pc[t] \in {"none", "idle"})
  => \A i \in Points : gc[i] = IF owned[i] THEN 1 ELSE 0

\* pipe_seq.txt, "pipe_get_ref: pipe_init_done == 1": get_other_point_ref
\* succeeds only on a pipe whose set-up is complete, so the other point's
\* fields are not being written any more.
GotAfterInit ==
  \A t \in Threads : pc[t] \in {"g_ref", "g_dref", "got", "put_data"} =>
    /\ status.ready
    /\ pc[Creator] # "setup" \/ mutex_status = NO_MUTEX

\* The references to the objects of the points are right: taken only when the
\* set-up is complete, counted while they are used, and all given back.
ReferencesRight == TypeOK /\ ObjectsAlive /\ NoLeak /\ GotAfterInit

\* A thread that waits for the set-up gets its answer.
WaitersReturn ==
  \A t \in Threads : pc[t] = "g_lock" ~> pc[t] \in {"got", "idle"}

\* The useing count of the pipe guards its points, mutex_status the mutex.
PipeGate == CASE closing > 0 -> "released" [] closing = 0 /\ Closed -> "shut" [] OTHER -> "open"

PipeResource == INSTANCE GuardedResource WITH gate <- PipeGate, users <- Users

MutexGate ==
  CASE pipe_mutex = "destroyed" -> "released"
    [] pipe_mutex # "destroyed" /\ IsClosed(mutex_status) -> "shut"
    [] OTHER -> "open"

MutexResource == INSTANCE GuardedResource WITH gate <- MutexGate, users <- MutexUsers

\* The points of the pipe are guarded resources: a closed pipe lets nobody in,
\* and its points are released once, after the last user has left.  So is the
\* set-up mutex: it is destroyed once, when nobody waits for it, holds it or is
\* about to unlock it (pipe_seq.txt, "del_mutex: mutex_ref == 0 &&
\* pipe_init_done == 1").
ImplementsResources == PipeResource!GSpec /\ MutexResource!GSpec
=============================================================================
