---------------------------- MODULE PthreadPool -----------------------------
(***************************************************************************)
(* moon_pthread_pool.c: callers put tasks into a ring, processes (threads) *)
(* take them out and run them.  put_task starts another process when there *)
(* are fewer processes than tasks; a process that has waited in vain quits *)
(* when there are more than the tasks and the idle ones need.              *)
(*                                                                         *)
(* The ring is the one of RingBuffer, in the way the pool uses it: whole   *)
(* messages, written without waiting, read with a deadline.  A critical    *)
(* section of process_mutex is one step, an iteration of ring_read or      *)
(* ring_write another.  Nobody closes the ring, so the branch of           *)
(* process_func for a failed read is never taken and is left out.          *)
(***************************************************************************)
EXTENDS Integers, Sequences, FiniteSets

CONSTANTS
  Callers,
  Tasks,
  Processes,    \* names for processes; bounds how many exist, the quitting ones included
  process_max,
  idle_max,
  RingTasks     \* how many tasks the ring holds

ASSUME PoolAssumption ==
  /\ IsFiniteSet(Callers)
  /\ IsFiniteSet(Processes)
  /\ process_max \in Nat \ {0}
  /\ idle_max \in 1 .. process_max
  /\ RingTasks \in Nat \ {0}

NoTask == <<>>

ASSUME TaskAssumption == NoTask \notin Tasks

VARIABLES
  status,       \* the pool has been started
  process_num,
  task_num,
  failed,       \* history: some pthread_create has failed
  ring,         \* the tasks in the ring
  ref_num,      \* references to the ring
  proc,         \* proc[p]: where process p is
  job,          \* job[p]: the task p has read, or NoTask
  pc,           \* pc[c]: where caller c is in put_task
  mine,         \* mine[c]: the task c puts, or NoTask
  result,       \* result[t]: what put_task returned
  runs          \* runs[t]: how often t has been run

poolVars == <<status, process_num, task_num, failed>>
callVars == <<pc, mine, result>>
vars == <<poolVars, ring, ref_num, proc, job, callVars, runs>>

Init ==
  /\ status = FALSE
  /\ process_num = 0 /\ task_num = 0
  /\ failed = FALSE
  /\ ring = <<>>
  /\ ref_num = 0
  /\ proc = [p \in Processes |-> "none"]
  /\ job = [p \in Processes |-> NoTask]
  /\ pc = [c \in Callers |-> "idle"]
  /\ mine = [c \in Callers |-> NoTask]
  /\ result = [t \in Tasks |-> "none"]
  /\ runs = [t \in Tasks |-> 0]

\* get_pthreadpool_instance and process_pool_start, under process_mutex: the
\* ring and up to idle_max processes, fewer when pthread_create fails.
process_pool_start ==
  /\ ~status
  /\ status' = TRUE
  /\ \E S \in SUBSET Processes :
       /\ Cardinality(S) <= idle_max
       /\ failed' = (failed \/ Cardinality(S) # idle_max)
       /\ process_num' = Cardinality(S)
       /\ ref_num' = 1 + Cardinality(S)
       /\ proc' = [p \in Processes |-> IF p \in S THEN "read" ELSE "none"]
  /\ UNCHANGED <<task_num, ring, job, callVars, runs>>

-----------------------------------------------------------------------------
(* put_task *)

\* There are fewer processes than tasks, the new one included.
Grows == process_num < task_num + 1 /\ process_num < process_max

_put_task(c, t) ==
  /\ status /\ pc[c] = "idle" /\ result[t] = "none"
  /\ \A d \in Callers : mine[d] # t
  /\ mine' = [mine EXCEPT ![c] = t]
  /\ task_num' = task_num + 1
  /\ process_num' = IF Grows THEN process_num + 1 ELSE process_num
  /\ pc' = [pc EXCEPT ![c] = IF Grows THEN "create" ELSE "write"]
  /\ UNCHANGED <<status, failed, ring, ref_num, proc, job, result, runs>>

\* ref_inc and pthread_create.
Create(c, p) ==
  /\ pc[c] = "create" /\ proc[p] = "none"
  /\ ref_num' = ref_num + 1
  /\ proc' = [proc EXCEPT ![p] = "read"]
  /\ pc' = [pc EXCEPT ![c] = "write"]
  /\ UNCHANGED <<poolVars, ring, job, mine, result, runs>>

CreateFails(c) ==
  /\ pc[c] = "create"
  /\ failed' = TRUE
  /\ ref_num' = ref_num + 1
  /\ pc' = [pc EXCEPT ![c] = "undo"]
  /\ UNCHANGED <<status, process_num, task_num, ring, proc, job, mine, result, runs>>

\* process_num--, and ref_dec behind the mutex.
CreateUndo(c) ==
  /\ pc[c] = "undo"
  /\ process_num' = process_num - 1
  /\ pc' = [pc EXCEPT ![c] = "unref"]
  /\ UNCHANGED <<status, task_num, failed, ring, ref_num, proc, job, mine, result, runs>>

CreateUnref(c) ==
  /\ pc[c] = "unref"
  /\ ref_num' = ref_num - 1
  /\ pc' = [pc EXCEPT ![c] = "write"]
  /\ UNCHANGED <<poolVars, ring, proc, job, mine, result, runs>>

\* Variant of Signal that wakes nobody.
Signal_None == {{}}

\* The processes that pthread_cond_signal may wake in ring_read.
Signal == LET W == {p \in Processes : proc[p] = "wait"} IN IF W = {} THEN {{}} ELSE {{p} : p \in W}

\* ring_write takes the task and wakes a process.
WriteTask(c) ==
  /\ pc[c] = "write" /\ Len(ring) < RingTasks
  /\ ring' = Append(ring, mine[c])
  /\ \E W \in Signal : proc' = [p \in Processes |-> IF p \in W THEN "read" ELSE proc[p]]
  /\ result' = [result EXCEPT ![mine[c]] = "accepted"]
  /\ mine' = [mine EXCEPT ![c] = NoTask]
  /\ pc' = [pc EXCEPT ![c] = "idle"]
  /\ UNCHANGED <<poolVars, ref_num, job, runs>>

\* ring_write finds no room.
WriteFails(c) ==
  /\ pc[c] = "write" /\ Len(ring) = RingTasks
  /\ pc' = [pc EXCEPT ![c] = "uncount"]
  /\ UNCHANGED <<poolVars, ring, ref_num, proc, job, mine, result, runs>>

\* Variant of Uncount that leaves the task counted.
Uncount_Not(c) ==
  /\ pc[c] = "uncount"
  /\ result' = [result EXCEPT ![mine[c]] = "refused"]
  /\ mine' = [mine EXCEPT ![c] = NoTask]
  /\ pc' = [pc EXCEPT ![c] = "idle"]
  /\ UNCHANGED <<poolVars, ring, ref_num, proc, job, runs>>

Uncount(c) ==
  /\ pc[c] = "uncount"
  /\ task_num' = task_num - 1
  /\ result' = [result EXCEPT ![mine[c]] = "refused"]
  /\ mine' = [mine EXCEPT ![c] = NoTask]
  /\ pc' = [pc EXCEPT ![c] = "idle"]
  /\ UNCHANGED <<status, process_num, failed, ring, ref_num, proc, job, runs>>

-----------------------------------------------------------------------------
(* process_func *)

\* ring_read wakes the next reader when it leaves tasks behind.
Woken == IF Len(ring) > 1 THEN Signal ELSE {{}}

\* Variant of ReadTask that calls ring_read with RING_PEEK: the task stays in the ring.
ReadTask_Peeks(p) ==
  /\ proc[p] = "read" /\ ring # <<>>
  /\ job' = [job EXCEPT ![p] = Head(ring)]
  /\ \E W \in Woken :
       proc' = [q \in Processes |-> IF q = p THEN "run" ELSE IF q \in W THEN "read" ELSE proc[q]]
  /\ UNCHANGED <<poolVars, ring, ref_num, callVars, runs>>

\* ring_read finds a task ...
ReadTask(p) ==
  /\ proc[p] = "read" /\ ring # <<>>
  /\ job' = [job EXCEPT ![p] = Head(ring)]
  /\ ring' = Tail(ring)
  /\ \E W \in Woken :
       proc' = [q \in Processes |-> IF q = p THEN "run" ELSE IF q \in W THEN "read" ELSE proc[q]]
  /\ UNCHANGED <<poolVars, ref_num, callVars, runs>>

\* ... or waits.
ReadWait(p) ==
  /\ proc[p] = "read" /\ ring = <<>>
  /\ proc' = [proc EXCEPT ![p] = "wait"]
  /\ UNCHANGED <<poolVars, ring, ref_num, job, callVars, runs>>

\* ring_read returns 0 after idle_time, whatever the ring holds by now.
ReadTimeout(p) ==
  /\ proc[p] = "wait"
  /\ proc' = [proc EXCEPT ![p] = "timeout"]
  /\ UNCHANGED <<poolVars, ring, ref_num, job, callVars, runs>>

RunTask(p) ==
  /\ proc[p] = "run"
  /\ runs' = [runs EXCEPT ![job[p]] = @ + 1]
  /\ job' = [job EXCEPT ![p] = NoTask]
  /\ proc' = [proc EXCEPT ![p] = "ran"]
  /\ UNCHANGED <<poolVars, ring, ref_num, callVars>>

TaskDone(p) ==
  /\ proc[p] = "ran"
  /\ task_num' = task_num - 1
  /\ proc' = [proc EXCEPT ![p] = "read"]
  /\ UNCHANGED <<status, process_num, failed, ring, ref_num, job, callVars, runs>>

\* Variant of Superfluous that lets one process too many quit.
Superfluous_OffByOne == process_num >= task_num + idle_max

Superfluous == process_num > task_num + idle_max

IdleCheck(p) ==
  /\ proc[p] = "timeout"
  /\ IF Superfluous
     THEN /\ process_num' = process_num - 1
          /\ proc' = [proc EXCEPT ![p] = "quit"]
     ELSE /\ proc' = [proc EXCEPT ![p] = "read"]
          /\ UNCHANGED process_num
  /\ UNCHANGED <<status, task_num, failed, ring, ref_num, job, callVars, runs>>

\* ref_dec, and the thread is gone.
Quit(p) ==
  /\ proc[p] = "quit"
  /\ ref_num' = ref_num - 1
  /\ proc' = [proc EXCEPT ![p] = "none"]
  /\ UNCHANGED <<poolVars, ring, job, callVars, runs>>

-----------------------------------------------------------------------------
CallStep(c) ==
  \/ \E p \in Processes : Create(c, p)
  \/ CreateFails(c) \/ CreateUndo(c) \/ CreateUnref(c)
  \/ WriteTask(c) \/ WriteFails(c) \/ Uncount(c)

ProcStep(p) ==
  ReadTask(p) \/ ReadWait(p) \/ RunTask(p) \/ TaskDone(p) \/ IdleCheck(p) \/ Quit(p)

Next ==
  \/ process_pool_start
  \/ \E c \in Callers : CallStep(c) \/ \E t \in Tasks : _put_task(c, t)
  \/ \E p \in Processes : ProcStep(p) \/ ReadTimeout(p)

Spec == Init /\ [][Next]_vars

\* Threads that do not wait keep running, and tasks return.  No wait need ever
\* time out.
FairSpec ==
  /\ Spec
  /\ \A c \in Callers : WF_vars(CallStep(c))
  /\ \A p \in Processes : WF_vars(ProcStep(p))

-----------------------------------------------------------------------------
(* Properties *)

ProcStates == {"none", "read", "wait", "run", "ran", "timeout", "quit"}

CallStates == {"idle", "create", "undo", "unref", "write", "uncount"}

\* Types; no more processes than process_max.
TypeOK ==
  /\ status \in BOOLEAN
  /\ process_num \in 0 .. process_max
  /\ task_num \in Nat
  /\ failed \in BOOLEAN
  /\ ring \in Seq(Tasks) /\ Len(ring) <= RingTasks
  /\ ref_num \in Nat
  /\ proc \in [Processes -> ProcStates]
  /\ job \in [Processes -> Tasks \cup {NoTask}]
  /\ pc \in [Callers -> CallStates]
  /\ mine \in [Callers -> Tasks \cup {NoTask}]
  /\ result \in [Tasks -> {"none", "accepted", "refused"}]
  /\ runs \in [Tasks -> Nat]

\* How many elements of D the function f takes to a value in T.
Count(f, D, T) == Cardinality({x \in D : f[x] \in T})

LiveStates == {"read", "wait", "run", "ran", "timeout"}

BusyStates == {"run", "ran"}

UsingStates == ProcStates \ {"none"}

\* A caller that has counted a process of its own; one that has a reference to
\* undo; one that has counted a task.
Growing == {"create", "undo"}

Undoing == {"undo", "unref"}

Putting == CallStates \ {"idle"}

Live == {p \in Processes : proc[p] \in LiveStates}

\* The counters, changed in critical sections of their own before or after the
\* fact, agree with what there is: process_num with the processes that live or
\* are being created ...
ProcessesCounted ==
  process_num = Count(proc, Processes, LiveStates) + Count(pc, Callers, Growing)

\* ... task_num with the tasks on their way, in the ring or in a process ...
TasksCounted ==
  task_num = Count(pc, Callers, Putting) + Len(ring) + Count(proc, Processes, BusyStates)

\* ... and ref_num with the threads that use the ring and the pool itself.
RefsCounted ==
  status => ref_num = 1 + Count(proc, Processes, UsingStates) + Count(pc, Callers, Undoing)

CountsAgree == ProcessesCounted /\ TasksCounted /\ RefsCounted

\* As long as no pthread_create has failed, there is a process for every task that
\* was put, up to process_max, and idle_max processes at any time: the quitting
\* of idle processes (line 73) and the growth in put_task (line 105) never
\* leave a task without a process that others are not busy with.
EnoughProcesses ==
  (status /\ ~failed) =>
    /\ process_num >= idle_max
    /\ task_num <= process_max => process_num >= task_num
    /\ task_num > process_max => process_num = process_max

\* No task is run twice, none that was refused is run, none is in two places,
\* in a ring and with processes that stay within their limits (lines 62-70,
\* 96-140).
TaskOnce ==
  /\ TypeOK
  /\ \A t \in Tasks :
       LET places == Cardinality({i \in DOMAIN ring : ring[i] = t}) + Cardinality({p \in Processes : job[p] = t})
       IN places + runs[t] = (IF result[t] = "accepted" THEN 1 ELSE 0)

\* An accepted task is run, unless no thread could be created at all.
AcceptedRuns == \A t \in Tasks : result[t] = "accepted" ~> (runs[t] = 1 \/ Live = {})
=============================================================================
