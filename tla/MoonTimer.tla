----------------------------- MODULE MoonTimer ------------------------------
(***************************************************************************)
(* moon_timer.c: the timer thread (timer_task) and the clients that call   *)
(* timer_new, timer_set, timer_stop, timer_restart and timer_del, or close *)
(* their end of a timer's pipe.                                            *)
(*                                                                         *)
(* The AVL tree of timers keyed by id is abstracted to the chains that     *)
(* hang off its nodes: tree[d] is the chain of the timers due in d ticks   *)
(* (d <= 0: overdue), its first element the node that is in the AVL tree.  *)
(* A tick of the clock shifts the tree.  mark_id is left out: it is handed *)
(* back to the listener and decides nothing.                               *)
(*                                                                         *)
(* A critical section of the timer thread is one step.  One of a client is *)
(* two steps, the load of the timer's status and the rest, because the     *)
(* timer thread sets TIMER_DEL without the mutex (line 194), also in two   *)
(* steps: whichever of the two stores comes last wins.                     *)
(*                                                                         *)
(* A timer's pipe is a flag, closed or not: get_other_point_ref fails on a *)
(* closed pipe, waits for the end of timer_new, and closing it from the    *)
(* client's side calls the timer's listener, timer_del, once (MoonPipe).   *)
(* A client closes its end only after timer_new has returned.              *)
(***************************************************************************)
EXTENDS Integers, Sequences, FiniteSets, SequencesExt

CONSTANTS
  Timers,
  Repeats,     \* the values of repeat_num that clients use
  Periods,     \* the values of time_us, in ticks
  Uses,        \* the timers with the repeat_num and time_us their clients give them
  MaxLate,     \* bound: how many ticks late the timer thread may be
  NULL         \* no timer

ASSUME TimerAssumption ==
  /\ IsFiniteSet(Timers)
  /\ NULL \notin Timers
  /\ Repeats \subseteq Int
  /\ Periods \subseteq Nat \ {0}
  /\ Uses \subseteq Timers \X Repeats \X Periods
  /\ \E m \in Periods \cup {0} : \A p \in Periods : p <= m
  /\ MaxLate \in Nat

VARIABLES
  life,        \* "none", "joining" (in timer_new) or "ready"
  status,      \* p_inter->status: the bits of a timer
  repeat_num,  \* p_inter->desc.repeat_num
  time_us,     \* p_inter->desc.time_us
  tree,        \* p_timer_avl
  earliest,    \* p_earliest_timer
  closed,      \* closed[tm]: the pipe of tm is closed
  callback,    \* the timers whose listener the closed pipe has still to call
  op,          \* the critical section a client is in, or NoOp
  owe,         \* the timers that timer_del has still to close and ref_dec
  released,    \* released[tm]: how often the timer's pipe reference was dropped
  task,        \* where the timer thread is
  group,       \* the chain it has taken out of the tree
  todo,        \* the part of the chain whose listeners it has still to call
  tmp,         \* the status it has loaded to set TIMER_DEL
  dels         \* p_inter_dels

timerVars == <<life, status, repeat_num, time_us>>
treeVars == <<tree, earliest>>
pipeVars == <<closed, callback, owe, released>>
taskVars == <<task, group, todo, tmp, dels>>
vars == <<timerVars, treeVars, pipeVars, op, taskVars>>

MaxPeriod == CHOOSE m \in Periods \cup {0} : \A p \in Periods : p <= m

\* In how many ticks a timer may be due.
Days == -MaxLate .. MaxPeriod

Bits == [processing : BOOLEAN, stop : BOOLEAN, del : BOOLEAN]

NoBits == [processing |-> FALSE, stop |-> FALSE, del |-> FALSE]

NoOp == [name |-> "none"]

EmptyTree == [d \in Days |-> <<>>]

Init ==
  /\ life = [tm \in Timers |-> "none"]
  /\ status = [tm \in Timers |-> NoBits]
  /\ repeat_num = [tm \in Timers |-> 0]
  /\ time_us = [tm \in Timers |-> 0]
  /\ tree = EmptyTree
  /\ earliest = NULL
  /\ closed = [tm \in Timers |-> FALSE]
  /\ callback = {}
  /\ op = NoOp
  /\ owe = {}
  /\ released = [tm \in Timers |-> 0]
  /\ task = "wait"
  /\ group = <<>>
  /\ todo = <<>>
  /\ tmp = NoBits
  /\ dels = {}

-----------------------------------------------------------------------------
(* The tree *)

InTree(tr, tm) == \E d \in Days : Contains(tr[d], tm)

\* p_inter->id, in ticks from now.
Id(tr, tm) == CHOOSE d \in Days : Contains(tr[d], tm)

\* avl_leftest_node
Leftest(tr) ==
  IF tr = EmptyTree THEN NULL
  ELSE Head(tr[CHOOSE d \in Days : tr[d] # <<>> /\ \A e \in Days : e < d => tr[e] = <<>>])

\* avl_add2, and dlist_append behind the node when there is one with this id.
Add(tr, tm, d) ==
  [tr EXCEPT ![d] = IF @ = <<>> THEN <<tm>> ELSE <<Head(@), tm>> \o Tail(@)]

\* dlist_del: the neighbours of the timer are linked to each other.
dlist_del(chain, tm) ==
  LET k == CHOOSE i \in DOMAIN chain : chain[i] = tm
  IN [i \in 1 .. Len(chain) - 1 |-> IF i < k THEN chain[i] ELSE chain[i + 1]]

\* avl_del2 or avl_replace2, and dlist_del.  avl_del2 of a node that is in no
\* tree finds it a leaf without a parent and stores NULL in the root.
TakeOut(tr, tm) ==
  IF InTree(tr, tm)
  THEN [tr EXCEPT ![Id(tr, tm)] = dlist_del(@, tm)]
  ELSE EmptyTree

\* p_earliest_timer after timer_leave_avl took a timer that was the earliest.
EarliestAfterLeave(tr, tm) == IF tm = earliest THEN Leftest(TakeOut(tr, tm)) ELSE earliest

\* Variant of EarliestAfterJoin that compares with the earliest timer only.
EarliestAfterJoin_NoNull(e, tm, d) == IF e # NULL /\ d < Id(tree, e) THEN tm ELSE e

\* p_earliest_timer, e before, after timer_join_avl put tm into the tree at d.
EarliestAfterJoin(e, tm, d) == IF e = NULL \/ d < Id(tree, e) THEN tm ELSE e

-----------------------------------------------------------------------------
(* Clients *)

\* timer_new: a timer that starts joins the tree before its pipe is ready.
timer_new(tm, repeat, period) ==
  /\ op = NoOp
  /\ life[tm] = "none"
  /\ life' = [life EXCEPT ![tm] = "joining"]
  /\ repeat_num' = [repeat_num EXCEPT ![tm] = repeat]
  /\ time_us' = [time_us EXCEPT ![tm] = period]
  /\ status' = [status EXCEPT ![tm].stop = (repeat = 0)]
  /\ IF repeat # 0
     THEN /\ tree' = Add(tree, tm, period)
          /\ earliest' = EarliestAfterJoin(earliest, tm, period)
     ELSE UNCHANGED treeVars
  /\ UNCHANGED <<pipeVars, op, taskVars>>

\* ref_inc, set_point_ref, init_done: the pipe is ready.
NewReady(tm) ==
  /\ life[tm] = "joining"
  /\ life' = [life EXCEPT ![tm] = "ready"]
  /\ UNCHANGED <<status, repeat_num, time_us, treeVars, pipeVars, op, taskVars>>

\* The client closes its end; the pipe will call timer_del.
ClientClose(tm) ==
  /\ life[tm] = "ready" /\ ~closed[tm]
  /\ closed' = [closed EXCEPT ![tm] = TRUE]
  /\ callback' = callback \cup {tm}
  /\ UNCHANGED <<timerVars, treeVars, owe, released, op, taskVars>>

\* pthread_mutex_lock and the load of the status.
Lock(tm, name, repeat, period) ==
  /\ op = NoOp
  /\ op' = [name |-> name, tm |-> tm, repeat |-> repeat, period |-> period, s |-> status[tm]]

LockSet(tm) ==
  /\ life[tm] = "ready"
  /\ \E r \in Repeats \ {0}, p \in Periods : <<tm, r, p>> \in Uses /\ Lock(tm, "set", r, p)
  /\ UNCHANGED <<timerVars, treeVars, pipeVars, taskVars>>

LockOther(tm, name) ==
  /\ life[tm] = "ready"
  /\ Lock(tm, name, 0, 0)
  /\ UNCHANGED <<timerVars, treeVars, pipeVars, taskVars>>

\* timer_del called by the pipe.
LockCallback(tm) ==
  /\ tm \in callback
  /\ Lock(tm, "del", 0, 0)
  /\ callback' = callback \ {tm}
  /\ UNCHANGED <<timerVars, treeVars, closed, owe, released, taskVars>>

\* timer_leave_avl on a timer whose status was s when it was loaded.
TreeAfterLeave(tm, s) == IF s.stop THEN tree ELSE TakeOut(tree, tm)

LeaveAvl(tm, s) ==
  /\ tree' = TreeAfterLeave(tm, s)
  /\ earliest' = IF s.stop THEN earliest ELSE EarliestAfterLeave(tree, tm)

Unlock(tm, s) ==
  /\ op' = NoOp
  /\ status' = [status EXCEPT ![tm] = s]

\* Variant of MayTake that lets timer_del take a timer that is being processed.
MayTake_Processing(s) == ~s.del

\* timer_del and timer_stop may take the timer out of the tree.
MayTake(s) == ~s.del /\ ~s.processing

timer_del ==
  LET tm == op.tm s == op.s IN
  /\ op.name = "del"
  /\ IF MayTake(s)
     THEN LeaveAvl(tm, s) /\ owe' = owe \cup {tm}
     ELSE UNCHANGED <<treeVars, owe>>
  /\ Unlock(tm, [s EXCEPT !.del = TRUE, !.stop = @ \/ MayTake(s)])
  /\ UNCHANGED <<life, repeat_num, time_us, closed, callback, released, taskVars>>

\* The end of timer_del, without the mutex: pipe close and ref_dec.
DelRelease(tm) ==
  /\ tm \in owe
  /\ owe' = owe \ {tm}
  /\ closed' = [closed EXCEPT ![tm] = TRUE]
  /\ released' = [released EXCEPT ![tm] = @ + 1]
  /\ UNCHANGED <<timerVars, treeVars, callback, op, taskVars>>

timer_stop ==
  LET tm == op.tm s == op.s IN
  /\ op.name = "stop"
  /\ IF MayTake(s) THEN LeaveAvl(tm, s) ELSE UNCHANGED treeVars
  /\ Unlock(tm, [s EXCEPT !.stop = TRUE])
  /\ UNCHANGED <<life, repeat_num, time_us, pipeVars, taskVars>>

\* Variant of MayJoin that puts a timer that is being processed into the tree.
MayJoin_Always(s) == TRUE

\* timer_set and timer_restart may put the timer into the tree; the timer
\* thread does it when it is processing the timer.
MayJoin(s) == ~s.processing

\* timer_set: a new description; a timer that is not being processed leaves
\* the tree and joins it again.
timer_set ==
  LET tm == op.tm s == op.s tr == TreeAfterLeave(tm, s) IN
  /\ op.name = "set"
  /\ IF s.del
     THEN op' = NoOp /\ UNCHANGED <<status, repeat_num, time_us, treeVars>>
     ELSE /\ repeat_num' = [repeat_num EXCEPT ![tm] = op.repeat]
          /\ time_us' = [time_us EXCEPT ![tm] = op.period]
          /\ Unlock(tm, [s EXCEPT !.stop = FALSE])
          /\ IF MayJoin(s)
             THEN /\ tree' = Add(tr, tm, op.period)
                  /\ earliest' = EarliestAfterJoin(
                       IF s.stop THEN earliest ELSE EarliestAfterLeave(tree, tm),
                       tm, op.period)
             ELSE UNCHANGED treeVars
  /\ UNCHANGED <<life, pipeVars, taskVars>>

timer_restart ==
  LET tm == op.tm s == op.s IN
  /\ op.name = "restart"
  /\ IF ~s.del /\ s.stop /\ repeat_num[tm] # 0
     THEN /\ Unlock(tm, [s EXCEPT !.stop = FALSE])
          /\ IF MayJoin(s)
             THEN /\ tree' = Add(tree, tm, time_us[tm])
                  /\ earliest' = EarliestAfterJoin(earliest, tm, time_us[tm])
             ELSE UNCHANGED treeVars
     ELSE op' = NoOp /\ UNCHANGED <<status, treeVars>>
  /\ UNCHANGED <<life, repeat_num, time_us, pipeVars, taskVars>>

-----------------------------------------------------------------------------
(* The timer thread *)

\* A repeat_num below 0 stands for ever.
Decremented(r) == IF r >= 0 THEN r - 1 ELSE r

\* The earliest timer is due: its chain is taken out of the tree.
TaskPop ==
  /\ task = "wait" /\ op = NoOp
  /\ earliest # NULL /\ Id(tree, earliest) <= 0
  /\ LET d == Id(tree, earliest)
         chain == tree[d]
         taken == ToSet(chain)
         rest == [tree EXCEPT ![d] = <<>>]
     IN /\ group' = chain
        /\ todo' = chain
        /\ tree' = rest
        /\ earliest' = Leftest(rest)
        /\ status' = [tm \in Timers |->
             IF tm \in taken THEN [status[tm] EXCEPT !.processing = TRUE] ELSE status[tm]]
        /\ repeat_num' = [tm \in Timers |->
             IF tm \in taken THEN Decremented(repeat_num[tm]) ELSE repeat_num[tm]]
  /\ task' = "fire"
  /\ UNCHANGED <<life, time_us, pipeVars, op, tmp, dels>>

\* get_other_point_ref succeeds and the listener is called: times_up.  On a
\* pipe that is not ready it waits for init_done.
TaskFire ==
  /\ task = "fire" /\ todo # <<>>
  /\ ~closed[Head(todo)] /\ life[Head(todo)] = "ready"
  /\ todo' = Tail(todo)
  /\ UNCHANGED <<timerVars, treeVars, pipeVars, op, task, group, tmp, dels>>

\* It fails: status |= TIMER_DEL, a load ...
TaskMarkLoad ==
  /\ task = "fire" /\ todo # <<>>
  /\ closed[Head(todo)]
  /\ tmp' = status[Head(todo)]
  /\ task' = "mark"
  /\ UNCHANGED <<timerVars, treeVars, pipeVars, op, group, todo, dels>>

\* ... and a store, both without the mutex.
TaskMarkStore ==
  /\ task = "mark"
  /\ status' = [status EXCEPT ![Head(todo)] = [tmp EXCEPT !.del = TRUE]]
  /\ todo' = Tail(todo)
  /\ task' = "fire"
  /\ UNCHANGED <<life, repeat_num, time_us, treeVars, pipeVars, op, group, tmp, dels>>

\* Variant of Again that does not look at the count.
Again_AnyCount(tm) == ~status[tm].del /\ ~status[tm].stop

\* A processed timer goes back into the tree.
Again(tm) == ~status[tm].del /\ ~status[tm].stop /\ repeat_num[tm] # 0

\* One turn of the loop that takes the chain apart.
AddAgain(tr, tm) == IF Again(tm) THEN Add(tr, tm, time_us[tm]) ELSE tr

\* The loop: AddAll(tr, chain)[i] is the tree after i turns.
AddAll(tr, chain) ==
  LET after[i \in 0 .. Len(chain)] ==
        IF i = 0 THEN tr ELSE AddAgain(after[i - 1], chain[i])
  IN after

\* Variant of Deleted that leaves deleted timers to timer_del.
Deleted_Never(tm) == FALSE

\* A processed timer is for the timer thread to close and ref_dec.
Deleted(tm) == status[tm].del

\* All listeners called: the chain is taken apart under the mutex.
TaskRequeue ==
  /\ task = "fire" /\ todo = <<>> /\ op = NoOp
  /\ tree' = AddAll(tree, group)[Len(group)]
  /\ earliest' = Leftest(tree')
  /\ status' = [tm \in Timers |->
       IF Contains(group, tm)
       THEN [status[tm] EXCEPT !.processing = FALSE, !.stop = @ \/ status[tm].del]
       ELSE status[tm]]
  /\ dels' = {tm \in ToSet(group) : Deleted(tm)}
  /\ group' = <<>>
  /\ task' = "dels"
  /\ UNCHANGED <<life, repeat_num, time_us, pipeVars, op, todo, tmp>>

\* Close and ref_dec of the deleted timers, without the mutex.
TaskRelease(tm) ==
  /\ task = "dels" /\ tm \in dels
  /\ dels' = dels \ {tm}
  /\ closed' = [closed EXCEPT ![tm] = TRUE]
  /\ released' = [released EXCEPT ![tm] = @ + 1]
  /\ UNCHANGED <<timerVars, treeVars, callback, owe, op, task, group, todo, tmp>>

TaskWait ==
  /\ task = "dels" /\ dels = {}
  /\ task' = "wait"
  /\ UNCHANGED <<timerVars, treeVars, pipeVars, op, group, todo, tmp, dels>>

\* The clock.
Tick ==
  /\ tree[-MaxLate] = <<>>
  /\ tree # EmptyTree
  /\ tree' = [d \in Days |-> IF d + 1 \in Days THEN tree[d + 1] ELSE <<>>]
  /\ UNCHANGED <<timerVars, earliest, pipeVars, op, taskVars>>

-----------------------------------------------------------------------------
TaskStep ==
  \/ TaskPop \/ TaskFire \/ TaskMarkLoad \/ TaskMarkStore \/ TaskRequeue
  \/ \E tm \in Timers : TaskRelease(tm)
  \/ TaskWait

\* The end of a call that a client has begun.
ClientStep ==
  \/ timer_del \/ timer_stop \/ timer_set \/ timer_restart
  \/ \E tm \in Timers : DelRelease(tm) \/ NewReady(tm)

\* Calls that a client may make.
ClientCall ==
  \E tm \in Timers :
    \/ \E r \in Repeats, p \in Periods : <<tm, r, p>> \in Uses /\ timer_new(tm, r, p)
    \/ ClientClose(tm)
    \/ LockSet(tm)
    \/ \E name \in {"del", "stop", "restart"} : LockOther(tm, name)

Callback == \E tm \in Timers : LockCallback(tm)

Next == TaskStep \/ ClientStep \/ ClientCall \/ Callback \/ Tick

Spec == Init /\ [][Next]_vars

\* Threads keep running and time passes.  A thread that asks for the mutex gets
\* it if it is free again and again, whatever the others do.
Fairness ==
  /\ WF_vars(TaskStep)
  /\ SF_vars(TaskPop)
  /\ SF_vars(TaskRequeue)
  /\ \A tm \in Timers : SF_vars(LockCallback(tm)) /\ WF_vars(DelRelease(tm)) /\ WF_vars(NewReady(tm))
  /\ WF_vars(timer_del \/ timer_stop \/ timer_set \/ timer_restart)
  /\ WF_vars(Tick)

FairSpec == Spec /\ Fairness

-----------------------------------------------------------------------------
(* Safety *)

\* The timer that a client takes out is where timer_leave_avl looks for it.  A
\* timer that has made its last call is in no tree although TIMER_STOP is clear,
\* and then the whole tree is dropped (line 238).
LeavesOwn ==
  (op.name \in {"del", "stop", "set"} /\ MayTake(op.s) /\ ~op.s.stop) =>
    InTree(tree, op.tm) \/ tree = EmptyTree

\* The variables have their types: a chain in the tree holds timers, the
\* status of a timer is a combination of the TIMER_ bits, no reference is
\* dropped twice (line 227 and line 338).
TypeOK ==
  /\ life \in [Timers -> {"none", "joining", "ready"}]
  /\ status \in [Timers -> Bits]
  /\ repeat_num \in [Timers -> Int]
  /\ time_us \in [Timers -> Nat]
  /\ \A d \in Days : ToSet(tree[d]) \subseteq Timers
  /\ earliest \in Timers \cup {NULL}
  /\ closed \in [Timers -> BOOLEAN]
  /\ callback \subseteq Timers /\ owe \subseteq Timers /\ dels \subseteq Timers
  /\ released \in [Timers -> 0 .. 1]
  /\ task \in {"wait", "fire", "mark", "dels"}
  /\ ToSet(group) \subseteq Timers /\ ToSet(todo) \subseteq ToSet(group)
  /\ tmp \in Bits

\* The cached p_earliest_timer is the leftmost node of the tree after every
\* critical section: the thread sleeps until that timer is due and would sleep
\* over a timer that is earlier (lines 158-161).
EarliestIsLeftmost == earliest = Leftest(tree)

\* A timer sits in one place: once in one chain of the tree, or in the chain
\* the timer thread has taken out, which it walks without the mutex (lines
\* 182-196) and may do so because no client touches a timer being processed.
OnePlace ==
  \A tm \in Timers :
    LET inTree == {x \in Days \X (1 .. Cardinality(Timers)) :
                     x[2] \in DOMAIN tree[x[1]] /\ tree[x[1]][x[2]] = tm}
        inGroup == {i \in DOMAIN group : group[i] = tm}
    IN /\ Cardinality(inTree) + Cardinality(inGroup) <= 1
       /\ inGroup # {} <=> status[tm].processing

\* Whatever clients do while the timer thread works, the tree is right when the
\* mutex is free: every timer is in its one place and the cached pointer leads
\* to the leftmost (lines 154-221, 234-288).
TreeRight == TypeOK /\ EarliestIsLeftmost /\ OnePlace

\* The timer is to be called for ever (line 8 of moon_timer.h), was started, and
\* neither its client nor the timer thread has taken it out.
Running(tm) ==
  /\ life[tm] # "none"
  /\ repeat_num[tm] < 0
  /\ ~status[tm].stop /\ ~status[tm].del /\ ~status[tm].processing

\* A running timer is in the tree, so that the timer thread will find it, whatever
\* is done to other timers.
RunningIsScheduled == \A tm \in Timers : Running(tm) => InTree(tree, tm)

\* Once the timer's reference to its pipe is dropped (lines 227, 338), or its
\* release has begun, neither the tree, nor the cached pointer, nor the chain
\* of the timer thread refers to it.
NoUseAfterRelease ==
  \A tm \in Timers :
    (tm \in owe \cup dels \/ released[tm] > 0) =>
      /\ ~InTree(tree, tm)
      /\ earliest # tm
      /\ ~Contains(group, tm)
      /\ ~(tm \in owe /\ tm \in dels)
      /\ released[tm] > 0 => tm \notin owe \cup dels

\* A timer with a count never becomes one without: the thread counts down from
\* 0 to -1, which stands for ever (lines 172-174), if a timer that has made its
\* last call is in the tree.  Only timer_set starts an endless timer anew.
FiniteStaysFinite ==
  [][\A tm \in Timers :
       (life[tm] # "none" /\ repeat_num[tm] >= 0 /\ repeat_num'[tm] < 0) => op.name = "set"]_vars

-----------------------------------------------------------------------------
(* Liveness *)

\* A timer in the tree is processed, unless a client calls one of the timer's
\* operations first.
ScheduledFires ==
  \A tm \in Timers :
    InTree(tree, tm) ~>
      (status[tm].processing \/ status[tm].stop \/ status[tm].del \/ (op # NoOp /\ op.tm = tm))

\* A timer whose pipe is closed, or that timer_del was called for, is released:
\* by timer_del, or by the timer thread when it was processing the timer, even
\* when a client's store of the status overwrites the TIMER_DEL that line 194
\* stored without the mutex.
DelCarriedOut ==
  \A tm \in Timers : (closed[tm] \/ status[tm].del) ~> (released[tm] = 1)
=============================================================================
