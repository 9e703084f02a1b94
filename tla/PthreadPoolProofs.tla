------------------------- MODULE PthreadPoolProofs --------------------------
(***************************************************************************)
(* The counters of the pool are right, the pool is large enough and every  *)
(* task is in one place and run at most once, for any number of callers,   *)
(* tasks and processes, any process_max, idle_max and length of the ring,  *)
(* also when pthread_create fails.                                         *)
(*                                                                         *)
(* CountsAgree is inductive with the types and with the fact that nothing  *)
(* happens before the pool is started.  EnoughProcesses needs more: that   *)
(* task_num is not negative, which the counting gives, that process_num    *)
(* stays within process_max, and that nobody undoes the creation of a      *)
(* thread when none fails.  TaskOnce needs TaskInv: where each task is.    *)
(***************************************************************************)
EXTENDS PthreadPool, FiniteSetTheorems, TLAPS

\* The types that the arguments need.
PoolTypes ==
  /\ status \in BOOLEAN
  /\ process_num \in Int
  /\ task_num \in Int
  /\ ref_num \in Int
  /\ ring \in Seq(Tasks \cup {NoTask})
  /\ mine \in [Callers -> Tasks \cup {NoTask}]
  /\ proc \in [Processes -> ProcStates]
  /\ pc \in [Callers -> CallStates]

\* Nobody is in put_task, and no process exists, before the pool is started.
NothingBeforeStart ==
  ~status =>
    /\ ring = <<>>
    /\ \A p \in Processes : proc[p] = "none"
    /\ \A c \in Callers : pc[c] = "idle"

CountInv == PoolTypes /\ NothingBeforeStart /\ CountsAgree

-----------------------------------------------------------------------------
(* Counting *)

In(v, T) == IF v \in T THEN 1 ELSE 0

\* A count is a number.
LEMMA CountNat ==
  ASSUME NEW D, IsFiniteSet(D), NEW f, NEW T
  PROVE  Count(f, D, T) \in Nat
<1>1. IsFiniteSet({x \in D : f[x] \in T})
  BY FS_Subset
<1> QED
  BY <1>1, FS_CardinalityType DEF Count

\* Functions that agree on which elements count have the same count.
LEMMA CountSame ==
  ASSUME NEW D, NEW f, NEW g, NEW T, \A x \in D : f[x] \in T <=> g[x] \in T
  PROVE  Count(g, D, T) = Count(f, D, T)
<1>1. {x \in D : f[x] \in T} = {x \in D : g[x] \in T}
  OBVIOUS
<1> QED
  BY <1>1 DEF Count

\* Changing one element changes the count by what the element counted and counts.
LEMMA CountChange ==
  ASSUME NEW D, IsFiniteSet(D), NEW f, NEW g, NEW T, NEW d \in D,
         \A x \in D \ {d} : f[x] \in T <=> g[x] \in T
  PROVE  Count(g, D, T) = Count(f, D, T) + In(g[d], T) - In(f[d], T)
<1> DEFINE F == {x \in D : f[x] \in T}
           G == {x \in D : g[x] \in T}
<1>1. IsFiniteSet(F) /\ IsFiniteSet(G)
  BY FS_Subset
<1>2. Cardinality(F) \in Nat /\ Cardinality(G) \in Nat
  BY <1>1, FS_CardinalityType
<1>3. CASE f[d] \in T /\ g[d] \in T
  <2>1. F = G
    BY <1>3
  <2>2. Cardinality(G) = Cardinality(F)
    BY <2>1
  <2> QED
    BY <1>2, <1>3, <2>2 DEF Count, In
<1>4. CASE f[d] \notin T /\ g[d] \notin T
  <2>1. F = G
    BY <1>4
  <2>2. Cardinality(G) = Cardinality(F)
    BY <2>1
  <2> QED
    BY <1>2, <1>4, <2>2 DEF Count, In
<1>5. CASE f[d] \notin T /\ g[d] \in T
  <2>1. G = F \cup {d} /\ d \notin F
    BY <1>5
  <2>2. Cardinality(G) = Cardinality(F) + 1
    BY <1>1, <2>1, FS_AddElement
  <2> QED
    BY <1>2, <1>5, <2>2 DEF Count, In
<1>6. CASE f[d] \in T /\ g[d] \notin T
  <2>1. F = G \cup {d} /\ d \notin G
    BY <1>6
  <2>2. Cardinality(F) = Cardinality(G) + 1
    BY <1>1, <2>1, FS_AddElement
  <2> QED
    BY <1>2, <1>6, <2>2 DEF Count, In
<1> QED
  BY <1>3, <1>4, <1>5, <1>6

\* The counts of CountsAgree are natural numbers, before a step and after it.
LEMMA CountsNat ==
  /\ Count(pc, Callers, Growing) \in Nat
  /\ Count(pc, Callers, Undoing) \in Nat
  /\ Count(pc, Callers, Putting) \in Nat
  /\ Count(proc, Processes, LiveStates) \in Nat
  /\ Count(proc, Processes, BusyStates) \in Nat
  /\ Count(proc, Processes, UsingStates) \in Nat
BY CountNat, PoolAssumption

\* A step in which only caller c may begin or cease to count.
LEMMA CallersChange ==
  ASSUME NEW c \in Callers, NEW T, \A x \in Callers \ {c} : pc[x] \in T <=> pc'[x] \in T
  PROVE  Count(pc', Callers, T) = Count(pc, Callers, T) + In(pc'[c], T) - In(pc[c], T)
<1>1. IsFiniteSet(Callers)
  BY PoolAssumption
<1> QED
  BY <1>1, CountChange

\* A step in which only process p may begin or cease to count.
LEMMA ProcessesChange ==
  ASSUME NEW p \in Processes, NEW T, \A x \in Processes \ {p} : proc[x] \in T <=> proc'[x] \in T
  PROVE  Count(proc', Processes, T) = Count(proc, Processes, T) + In(proc'[p], T) - In(proc[p], T)
<1>1. IsFiniteSet(Processes)
  BY PoolAssumption
<1> QED
  BY <1>1, CountChange

-----------------------------------------------------------------------------
(* The counters *)

\* What a step of caller c does to the counts of CountsAgree.
CallerDelta(c) ==
  /\ Count(pc', Callers, Growing) =
       Count(pc, Callers, Growing) + In(pc'[c], Growing) - In(pc[c], Growing)
  /\ Count(pc', Callers, Undoing) =
       Count(pc, Callers, Undoing) + In(pc'[c], Undoing) - In(pc[c], Undoing)
  /\ Count(pc', Callers, Putting) =
       Count(pc, Callers, Putting)
         + In(pc'[c], Putting) - In(pc[c], Putting)

\* What a step of process p does to them.
ProcessDelta(p) ==
  /\ Count(proc', Processes, LiveStates) =
       Count(proc, Processes, LiveStates) + In(proc'[p], LiveStates) - In(proc[p], LiveStates)
  /\ Count(proc', Processes, BusyStates) =
       Count(proc, Processes, BusyStates) + In(proc'[p], BusyStates) - In(proc[p], BusyStates)
  /\ Count(proc', Processes, UsingStates) =
       Count(proc, Processes, UsingStates)
         + In(proc'[p], UsingStates) - In(proc[p], UsingStates)

\* What a caller counts where it is in put_task ...
LEMMA CallerWeights ==
  /\ In("idle", Growing) = 0 /\ In("idle", Undoing) = 0 /\ In("idle", Putting) = 0
  /\ In("create", Growing) = 1 /\ In("create", Undoing) = 0 /\ In("create", Putting) = 1
  /\ In("undo", Growing) = 1 /\ In("undo", Undoing) = 1 /\ In("undo", Putting) = 1
  /\ In("unref", Growing) = 0 /\ In("unref", Undoing) = 1 /\ In("unref", Putting) = 1
  /\ In("write", Growing) = 0 /\ In("write", Undoing) = 0 /\ In("write", Putting) = 1
  /\ In("uncount", Growing) = 0 /\ In("uncount", Undoing) = 0 /\ In("uncount", Putting) = 1
BY DEF In, Growing, Undoing, Putting, CallStates

\* ... and a process in process_func.
LEMMA ProcessWeights ==
  /\ In("none", LiveStates) = 0 /\ In("none", BusyStates) = 0 /\ In("none", UsingStates) = 0
  /\ In("read", LiveStates) = 1 /\ In("read", BusyStates) = 0 /\ In("read", UsingStates) = 1
  /\ In("wait", LiveStates) = 1 /\ In("wait", BusyStates) = 0 /\ In("wait", UsingStates) = 1
  /\ In("run", LiveStates) = 1 /\ In("run", BusyStates) = 1 /\ In("run", UsingStates) = 1
  /\ In("ran", LiveStates) = 1 /\ In("ran", BusyStates) = 1 /\ In("ran", UsingStates) = 1
  /\ In("timeout", LiveStates) = 1 /\ In("timeout", BusyStates) = 0 /\ In("timeout", UsingStates) = 1
  /\ In("quit", LiveStates) = 0 /\ In("quit", BusyStates) = 0 /\ In("quit", UsingStates) = 1
BY DEF In, LiveStates, BusyStates, UsingStates, ProcStates

\* The counts of callers change by the one caller that moves.
LEMMA CallerCounts ==
  ASSUME NEW c \in Callers, \A x \in Callers \ {c} : pc'[x] = pc[x]
  PROVE  CallerDelta(c)
<1>1. ASSUME NEW T PROVE Count(pc', Callers, T) = Count(pc, Callers, T) + In(pc'[c], T) - In(pc[c], T)
  BY CallersChange
<1> QED
  BY <1>1 DEF CallerDelta

\* The counts of processes change by the one process that moves.
LEMMA ProcessCounts ==
  ASSUME NEW p \in Processes, \A x \in Processes \ {p} : proc'[x] = proc[x]
  PROVE  ProcessDelta(p)
<1>1. ASSUME NEW T PROVE Count(proc', Processes, T) = Count(proc, Processes, T) + In(proc'[p], T) - In(proc[p], T)
  BY ProcessesChange
<1> QED
  BY <1>1 DEF ProcessDelta

\* No caller, no process, no task: all counts are 0.
LEMMA CountInit == Init => CountInv
<1> SUFFICES ASSUME Init PROVE CountInv
  OBVIOUS
<1>1. PoolTypes
  <2>1. status \in BOOLEAN
    BY Zenon DEF Init
  <2>2. process_num = 0 /\ task_num = 0 /\ ref_num = 0 /\ ring = <<>>
    BY DEF Init
  <2>3. /\ proc \in [Processes -> ProcStates] /\ pc \in [Callers -> CallStates]
        /\ mine \in [Callers -> Tasks \cup {NoTask}]
    BY DEF Init, ProcStates, CallStates
  <2> QED
    BY <2>1, <2>2, <2>3 DEF PoolTypes
<1>2. NothingBeforeStart
  BY DEF Init, NothingBeforeStart
<1>3. CountsAgree
  <2>1. ASSUME NEW T, "none" \notin T PROVE Count(proc, Processes, T) = 0
    <3>1. {x \in Processes : proc[x] \in T} = {}
      BY <2>1 DEF Init
    <3> QED
      BY <3>1, FS_EmptySet DEF Count
  <2>2. ASSUME NEW T, "idle" \notin T PROVE Count(pc, Callers, T) = 0
    <3>1. {x \in Callers : pc[x] \in T} = {}
      BY <2>2 DEF Init
    <3> QED
      BY <3>1, FS_EmptySet DEF Count
  <2>3. ProcessesCounted
    BY <2>1, <2>2 DEF ProcessesCounted, Init, LiveStates, Growing
  <2>4. TasksCounted
    BY <2>1, <2>2 DEF TasksCounted, Init, BusyStates, Putting
  <2>5. RefsCounted
    BY DEF RefsCounted, Init
  <2> QED
    BY <2>3, <2>4, <2>5 DEF CountsAgree
<1> QED
  BY <1>1, <1>2, <1>3 DEF CountInv

\* Every step keeps the counters right.
LEMMA CountStep == CountInv /\ [Next]_vars => CountInv'
<1> SUFFICES ASSUME CountInv, [Next]_vars PROVE CountInv'
  OBVIOUS
<1> USE DEF CountInv, CountsAgree
<1>1. CASE process_pool_start
  <2>1. PICK S \in SUBSET Processes :
          /\ process_num' = Cardinality(S)
          /\ ref_num' = 1 + Cardinality(S)
          /\ proc' = [p \in Processes |-> IF p \in S THEN "read" ELSE "none"]
    BY <1>1 DEF process_pool_start
  <2>2. /\ ~status /\ status' = TRUE
        /\ UNCHANGED <<task_num, ring, mine, pc>>
    BY <1>1 DEF process_pool_start, callVars
  <2>3. Cardinality(S) \in Nat
    BY PoolAssumption, FS_Subset, FS_CardinalityType
  <2>4. PoolTypes' /\ NothingBeforeStart'
    BY <2>1, <2>2, <2>3 DEF PoolTypes, NothingBeforeStart, ProcStates
  <2>5. ASSUME NEW T, "read" \in T, "none" \notin T PROVE Count(proc', Processes, T) = Cardinality(S)
    <3>1. {x \in Processes : proc'[x] \in T} = S
      BY <2>1, <2>5
    <3> QED
      BY <3>1 DEF Count
  <2>6. ASSUME NEW T, "idle" \notin T PROVE Count(pc, Callers, T) = 0
    <3>1. {x \in Callers : pc[x] \in T} = {}
      BY <2>2, <2>6 DEF NothingBeforeStart
    <3> QED
      BY <3>1, FS_EmptySet DEF Count
  <2>7. ProcessesCounted'
    BY <2>1, <2>2, <2>3, <2>5, <2>6 DEF ProcessesCounted, LiveStates, Growing
  <2>8. TasksCounted'
    <3>1. Count(proc, Processes, BusyStates) = Count(proc', Processes, BusyStates)
      <4>1. \A x \in Processes : proc'[x] \in BusyStates <=> proc[x] \in BusyStates
        BY <2>1, <2>2 DEF NothingBeforeStart, BusyStates
      <4> QED
        BY <4>1 DEF Count
    <3> QED
      BY <2>2, <3>1 DEF TasksCounted
  <2>9. RefsCounted'
    <3>1. Count(proc', Processes, UsingStates) = Cardinality(S)
      BY <2>5 DEF UsingStates, ProcStates
    <3>2. Count(pc', Callers, Undoing) = 0
      BY <2>2, <2>6 DEF Undoing
    <3> QED
      BY <2>1, <2>3, <3>1, <3>2 DEF RefsCounted
  <2> QED
    BY <2>4, <2>7, <2>8, <2>9
<1>2. ASSUME NEW c \in Callers, NEW t \in Tasks, _put_task(c, t)
      PROVE  CountInv'
  <2>1. /\ status /\ status' = status /\ UNCHANGED <<ring, ref_num, proc>>
        /\ pc[c] = "idle"
        /\ mine' = [mine EXCEPT ![c] = t]
        /\ task_num' = task_num + 1
        /\ process_num' = IF Grows THEN process_num + 1 ELSE process_num
        /\ pc' = [pc EXCEPT ![c] = IF Grows THEN "create" ELSE "write"]
    BY <1>2 DEF _put_task
  <2>2. CASE Grows
    <3>1. pc' = [pc EXCEPT ![c] = "create"] /\ process_num' = process_num + 1
      BY <2>1, <2>2
    <3>2. PoolTypes' /\ NothingBeforeStart'
      BY <2>1, <3>1 DEF PoolTypes, NothingBeforeStart, CallStates
    <3>3. pc'[c] = "create" /\ CallerDelta(c)
      BY <3>1, CallerCounts DEF PoolTypes
    <3>4. ProcessesCounted'
      BY <2>1, <3>1, <3>3, CountsNat, CallerWeights DEF CallerDelta, ProcessesCounted
    <3>5. TasksCounted'
      BY <2>1, <3>3, CountsNat, CallerWeights DEF CallerDelta, TasksCounted, PoolTypes
    <3>6. RefsCounted'
      BY <2>1, <3>3, CountsNat, CallerWeights DEF CallerDelta, RefsCounted
    <3> QED
      BY <3>2, <3>4, <3>5, <3>6
  <2>3. CASE ~Grows
    <3>1. pc' = [pc EXCEPT ![c] = "write"] /\ process_num' = process_num
      BY <2>1, <2>3
    <3>2. PoolTypes' /\ NothingBeforeStart'
      BY <2>1, <3>1 DEF PoolTypes, NothingBeforeStart, CallStates
    <3>3. pc'[c] = "write" /\ CallerDelta(c)
      BY <3>1, CallerCounts DEF PoolTypes
    <3>4. ProcessesCounted'
      BY <2>1, <3>1, <3>3, CountsNat, CallerWeights DEF CallerDelta, ProcessesCounted
    <3>5. TasksCounted'
      BY <2>1, <3>3, CountsNat, CallerWeights DEF CallerDelta, TasksCounted, PoolTypes
    <3>6. RefsCounted'
      BY <2>1, <3>3, CountsNat, CallerWeights DEF CallerDelta, RefsCounted
    <3> QED
      BY <3>2, <3>4, <3>5, <3>6
  <2> QED
    BY <2>2, <2>3
<1>3. ASSUME NEW c \in Callers, NEW p \in Processes, Create(c, p)
      PROVE  CountInv'
  <2>1. /\ pc[c] = "create" /\ proc[p] = "none"
        /\ UNCHANGED <<status, process_num, task_num, ring, mine>>
        /\ ref_num' = ref_num + 1
        /\ proc' = [proc EXCEPT ![p] = "read"]
        /\ pc' = [pc EXCEPT ![c] = "write"]
    BY <1>3 DEF Create, poolVars
  <2>2. PoolTypes' /\ NothingBeforeStart'
    BY <2>1 DEF PoolTypes, NothingBeforeStart, CallStates, ProcStates
  <2>3. pc'[c] = "write" /\ CallerDelta(c)
    BY <2>1, CallerCounts DEF PoolTypes
  <2>4. proc'[p] = "read" /\ ProcessDelta(p)
    BY <2>1, ProcessCounts DEF PoolTypes
  <2>5. ProcessesCounted'
    BY <2>1, <2>3, <2>4, CountsNat, CallerWeights, ProcessWeights DEF CallerDelta, ProcessDelta, ProcessesCounted
  <2>6. TasksCounted'
    BY <2>1, <2>3, <2>4, CountsNat, CallerWeights, ProcessWeights DEF CallerDelta, ProcessDelta, TasksCounted, PoolTypes
  <2>7. RefsCounted'
    BY <2>1, <2>3, <2>4, CountsNat, CallerWeights, ProcessWeights DEF CallerDelta, ProcessDelta, RefsCounted
  <2> QED
    BY <2>2, <2>5, <2>6, <2>7
<1>4. ASSUME NEW c \in Callers, CreateFails(c) \/ CreateUndo(c) \/ CreateUnref(c) \/ WriteFails(c) \/ Uncount(c)
      PROVE  CountInv'
  <2>1. PICK v \in CallStates : pc' = [pc EXCEPT ![c] = v]
    BY <1>4 DEF CreateFails, CreateUndo, CreateUnref, WriteFails, Uncount, CallStates
  <2>2. pc[c] # "idle" /\ UNCHANGED <<status, ring, proc>>
    BY <1>4 DEF CreateFails, CreateUndo, CreateUnref, WriteFails, Uncount, poolVars
  <2>3. PoolTypes' /\ NothingBeforeStart'
    <3>1. /\ process_num' \in Int /\ task_num' \in Int /\ ref_num' \in Int
          /\ mine' \in [Callers -> Tasks \cup {NoTask}]
      BY <1>4 DEF CreateFails, CreateUndo, CreateUnref, WriteFails, Uncount, poolVars, PoolTypes
    <3> QED
      BY <2>1, <2>2, <3>1 DEF PoolTypes, NothingBeforeStart
  <2>4. CallerDelta(c)
    BY <2>1, CallerCounts DEF PoolTypes
  <2>5. CASE CreateFails(c)
    <3>1. /\ pc[c] = "create" /\ pc'[c] = "undo"
          /\ ref_num' = ref_num + 1 /\ UNCHANGED <<process_num, task_num>>
      BY <2>5 DEF CreateFails, PoolTypes, poolVars
    <3>2. ProcessesCounted'
      BY <2>2, <2>4, <3>1, CountsNat, CallerWeights DEF CallerDelta, ProcessesCounted
    <3>3. TasksCounted'
      BY <2>2, <2>4, <3>1, CountsNat, CallerWeights DEF CallerDelta, TasksCounted, PoolTypes
    <3>4. RefsCounted'
      BY <2>2, <2>4, <3>1, CountsNat, CallerWeights DEF CallerDelta, RefsCounted
    <3> QED
      BY <2>3, <3>2, <3>3, <3>4
  <2>6. CASE CreateUndo(c)
    <3>1. /\ pc[c] = "undo" /\ pc'[c] = "unref"
          /\ process_num' = process_num - 1 /\ UNCHANGED <<task_num, ref_num>>
      BY <2>6 DEF CreateUndo, PoolTypes
    <3>2. ProcessesCounted'
      BY <2>2, <2>4, <3>1, CountsNat, CallerWeights DEF CallerDelta, ProcessesCounted
    <3>3. TasksCounted'
      BY <2>2, <2>4, <3>1, CountsNat, CallerWeights DEF CallerDelta, TasksCounted, PoolTypes
    <3>4. RefsCounted'
      BY <2>2, <2>4, <3>1, CountsNat, CallerWeights DEF CallerDelta, RefsCounted
    <3> QED
      BY <2>3, <3>2, <3>3, <3>4
  <2>7. CASE CreateUnref(c)
    <3>1. /\ pc[c] = "unref" /\ pc'[c] = "write"
          /\ ref_num' = ref_num - 1 /\ UNCHANGED <<process_num, task_num>>
      BY <2>7 DEF CreateUnref, PoolTypes, poolVars
    <3>2. ProcessesCounted'
      BY <2>2, <2>4, <3>1, CountsNat, CallerWeights DEF CallerDelta, ProcessesCounted
    <3>3. TasksCounted'
      BY <2>2, <2>4, <3>1, CountsNat, CallerWeights DEF CallerDelta, TasksCounted, PoolTypes
    <3>4. RefsCounted'
      BY <2>2, <2>4, <3>1, CountsNat, CallerWeights DEF CallerDelta, RefsCounted
    <3> QED
      BY <2>3, <3>2, <3>3, <3>4
  <2>8. CASE WriteFails(c)
    <3>1. /\ pc[c] = "write" /\ pc'[c] = "uncount"
          /\ UNCHANGED <<process_num, task_num, ref_num>>
      BY <2>8 DEF WriteFails, PoolTypes, poolVars
    <3>2. ProcessesCounted'
      BY <2>2, <2>4, <3>1, CountsNat, CallerWeights DEF CallerDelta, ProcessesCounted
    <3>3. TasksCounted'
      BY <2>2, <2>4, <3>1, CountsNat, CallerWeights DEF CallerDelta, TasksCounted, PoolTypes
    <3>4. RefsCounted'
      BY <2>2, <2>4, <3>1, CountsNat, CallerWeights DEF CallerDelta, RefsCounted
    <3> QED
      BY <2>3, <3>2, <3>3, <3>4
  <2>9. CASE Uncount(c)
    <3>1. /\ pc[c] = "uncount" /\ pc'[c] = "idle"
          /\ task_num' = task_num - 1 /\ UNCHANGED <<process_num, ref_num>>
      BY <2>9 DEF Uncount, PoolTypes
    <3>2. ProcessesCounted'
      BY <2>2, <2>4, <3>1, CountsNat, CallerWeights DEF CallerDelta, ProcessesCounted
    <3>3. TasksCounted'
      BY <2>2, <2>4, <3>1, CountsNat, CallerWeights DEF CallerDelta, TasksCounted, PoolTypes
    <3>4. RefsCounted'
      BY <2>2, <2>4, <3>1, CountsNat, CallerWeights DEF CallerDelta, RefsCounted
    <3> QED
      BY <2>3, <3>2, <3>3, <3>4
  <2> QED
    BY <1>4, <2>5, <2>6, <2>7, <2>8, <2>9
<1>5. ASSUME NEW p \in Processes, ReadWait(p) \/ ReadTimeout(p) \/ RunTask(p) \/ TaskDone(p) \/ Quit(p)
      PROVE  CountInv'
  <2>1. PICK v \in ProcStates : proc' = [proc EXCEPT ![p] = v]
    BY <1>5 DEF ReadWait, ReadTimeout, RunTask, TaskDone, Quit, ProcStates
  <2>2. proc[p] # "none" /\ UNCHANGED <<status, ring, pc, mine>>
    BY <1>5 DEF ReadWait, ReadTimeout, RunTask, TaskDone, Quit, poolVars, callVars
  <2>3. PoolTypes' /\ NothingBeforeStart'
    <3>1. process_num' \in Int /\ task_num' \in Int /\ ref_num' \in Int
      BY <1>5 DEF ReadWait, ReadTimeout, RunTask, TaskDone, Quit, poolVars, PoolTypes
    <3> QED
      BY <2>1, <2>2, <3>1 DEF PoolTypes, NothingBeforeStart
  <2>4. ProcessDelta(p)
    BY <2>1, ProcessCounts DEF PoolTypes
  <2>5. CASE ReadWait(p)
    <3>1. /\ proc[p] = "read" /\ proc'[p] = "wait"
          /\ UNCHANGED <<process_num, task_num, ref_num>>
      BY <2>5 DEF ReadWait, PoolTypes, poolVars
    <3>2. ProcessesCounted'
      BY <2>2, <2>4, <3>1, CountsNat, ProcessWeights DEF ProcessDelta, ProcessesCounted
    <3>3. TasksCounted'
      BY <2>2, <2>4, <3>1, CountsNat, ProcessWeights DEF ProcessDelta, TasksCounted, PoolTypes
    <3>4. RefsCounted'
      BY <2>2, <2>4, <3>1, CountsNat, ProcessWeights DEF ProcessDelta, RefsCounted
    <3> QED
      BY <2>3, <3>2, <3>3, <3>4
  <2>6. CASE ReadTimeout(p)
    <3>1. /\ proc[p] = "wait" /\ proc'[p] = "timeout"
          /\ UNCHANGED <<process_num, task_num, ref_num>>
      BY <2>6 DEF ReadTimeout, PoolTypes, poolVars
    <3>2. ProcessesCounted'
      BY <2>2, <2>4, <3>1, CountsNat, ProcessWeights DEF ProcessDelta, ProcessesCounted
    <3>3. TasksCounted'
      BY <2>2, <2>4, <3>1, CountsNat, ProcessWeights DEF ProcessDelta, TasksCounted, PoolTypes
    <3>4. RefsCounted'
      BY <2>2, <2>4, <3>1, CountsNat, ProcessWeights DEF ProcessDelta, RefsCounted
    <3> QED
      BY <2>3, <3>2, <3>3, <3>4
  <2>7. CASE RunTask(p)
    <3>1. /\ proc[p] = "run" /\ proc'[p] = "ran"
          /\ UNCHANGED <<process_num, task_num, ref_num>>
      BY <2>7 DEF RunTask, PoolTypes, poolVars
    <3>2. ProcessesCounted'
      BY <2>2, <2>4, <3>1, CountsNat, ProcessWeights DEF ProcessDelta, ProcessesCounted
    <3>3. TasksCounted'
      BY <2>2, <2>4, <3>1, CountsNat, ProcessWeights DEF ProcessDelta, TasksCounted, PoolTypes
    <3>4. RefsCounted'
      BY <2>2, <2>4, <3>1, CountsNat, ProcessWeights DEF ProcessDelta, RefsCounted
    <3> QED
      BY <2>3, <3>2, <3>3, <3>4
  <2>8. CASE TaskDone(p)
    <3>1. /\ proc[p] = "ran" /\ proc'[p] = "read"
          /\ task_num' = task_num - 1 /\ UNCHANGED <<process_num, ref_num>>
      BY <2>8 DEF TaskDone, PoolTypes
    <3>2. ProcessesCounted'
      BY <2>2, <2>4, <3>1, CountsNat, ProcessWeights DEF ProcessDelta, ProcessesCounted
    <3>3. TasksCounted'
      BY <2>2, <2>4, <3>1, CountsNat, ProcessWeights DEF ProcessDelta, TasksCounted, PoolTypes
    <3>4. RefsCounted'
      BY <2>2, <2>4, <3>1, CountsNat, ProcessWeights DEF ProcessDelta, RefsCounted
    <3> QED
      BY <2>3, <3>2, <3>3, <3>4
  <2>9. CASE Quit(p)
    <3>1. /\ proc[p] = "quit" /\ proc'[p] = "none"
          /\ ref_num' = ref_num - 1 /\ UNCHANGED <<process_num, task_num>>
      BY <2>9 DEF Quit, PoolTypes, poolVars
    <3>2. ProcessesCounted'
      BY <2>2, <2>4, <3>1, CountsNat, ProcessWeights DEF ProcessDelta, ProcessesCounted
    <3>3. TasksCounted'
      BY <2>2, <2>4, <3>1, CountsNat, ProcessWeights DEF ProcessDelta, TasksCounted, PoolTypes
    <3>4. RefsCounted'
      BY <2>2, <2>4, <3>1, CountsNat, ProcessWeights DEF ProcessDelta, RefsCounted
    <3> QED
      BY <2>3, <3>2, <3>3, <3>4
  <2> QED
    BY <1>5, <2>5, <2>6, <2>7, <2>8, <2>9
<1>6. ASSUME NEW p \in Processes, IdleCheck(p)
      PROVE  CountInv'
  <2>1. proc[p] = "timeout" /\ UNCHANGED <<status, task_num, ref_num, ring, pc, mine>>
    BY <1>6 DEF IdleCheck, callVars
  <2>2. \/ process_num' = process_num - 1 /\ proc' = [proc EXCEPT ![p] = "quit"]
        \/ process_num' = process_num /\ proc' = [proc EXCEPT ![p] = "read"]
    BY <1>6 DEF IdleCheck
  <2>3. PoolTypes' /\ NothingBeforeStart'
    BY <2>1, <2>2 DEF PoolTypes, NothingBeforeStart, ProcStates
  <2>4. ProcessDelta(p)
    BY <2>2, ProcessCounts DEF PoolTypes
  <2>5. \/ process_num' = process_num - 1 /\ proc'[p] = "quit"
        \/ process_num' = process_num /\ proc'[p] = "read"
    BY <2>2 DEF PoolTypes
  <2>6. ProcessesCounted'
    BY <2>1, <2>4, <2>5, CountsNat, ProcessWeights DEF ProcessDelta, ProcessesCounted
  <2>7. TasksCounted'
    BY <2>1, <2>4, <2>5, CountsNat, ProcessWeights DEF ProcessDelta, TasksCounted, PoolTypes
  <2>8. RefsCounted'
    BY <2>1, <2>4, <2>5, CountsNat, ProcessWeights DEF ProcessDelta, RefsCounted
  <2> QED
    BY <2>3, <2>6, <2>7, <2>8
<1>7. ASSUME NEW c \in Callers, WriteTask(c)
      PROVE  CountInv'
  <2>1. /\ pc[c] = "write" /\ ring' = Append(ring, mine[c])
        /\ UNCHANGED <<status, process_num, task_num, ref_num>>
        /\ mine' = [mine EXCEPT ![c] = NoTask]
        /\ pc' = [pc EXCEPT ![c] = "idle"]
    BY <1>7 DEF WriteTask, poolVars
  <2>2. PICK W \in Signal : proc' = [q \in Processes |-> IF q \in W THEN "read" ELSE proc[q]]
    BY <1>7 DEF WriteTask
  <2>3. \A q \in W : proc[q] = "wait"
    BY <2>2 DEF Signal
  <2>4. PoolTypes' /\ NothingBeforeStart'
    <3>1. proc' \in [Processes -> ProcStates]
      BY <2>2 DEF PoolTypes, ProcStates
    <3>2. ring' \in Seq(Tasks \cup {NoTask})
      BY <2>1 DEF PoolTypes
    <3>3. pc' \in [Callers -> CallStates] /\ mine' \in [Callers -> Tasks \cup {NoTask}]
      BY <2>1 DEF PoolTypes, CallStates
    <3>4. status
      BY <2>1 DEF NothingBeforeStart
    <3> QED
      BY <2>1, <3>1, <3>2, <3>3, <3>4 DEF PoolTypes, NothingBeforeStart
  <2>5. Len(ring') = Len(ring) + 1
    BY <2>1 DEF PoolTypes
  <2>6. pc'[c] = "idle" /\ CallerDelta(c)
    BY <2>1, CallerCounts DEF PoolTypes
  <2>7. /\ Count(proc', Processes, LiveStates) = Count(proc, Processes, LiveStates)
        /\ Count(proc', Processes, BusyStates) = Count(proc, Processes, BusyStates)
        /\ Count(proc', Processes, UsingStates) = Count(proc, Processes, UsingStates)
    <3>1. ASSUME NEW q \in Processes
          PROVE  proc'[q] = proc[q] \/ (proc[q] = "wait" /\ proc'[q] = "read")
      <4>1. CASE q \in W
        BY <2>2, <2>3, <4>1
      <4>2. CASE q \notin W
        BY <2>2, <4>2
      <4> QED
        BY <4>1, <4>2
    <3>2. \A q \in Processes : /\ proc[q] \in LiveStates <=> proc'[q] \in LiveStates
                               /\ proc[q] \in BusyStates <=> proc'[q] \in BusyStates
                               /\ proc[q] \in UsingStates <=> proc'[q] \in UsingStates
      BY <3>1 DEF LiveStates, BusyStates, UsingStates, ProcStates
    <3>3. Count(proc', Processes, LiveStates) = Count(proc, Processes, LiveStates)
      BY <3>2, CountSame
    <3>4. Count(proc', Processes, BusyStates) = Count(proc, Processes, BusyStates)
      BY <3>2, CountSame
    <3>5. Count(proc', Processes, UsingStates) = Count(proc, Processes, UsingStates)
      BY <3>2, CountSame
    <3> QED
      BY <3>3, <3>4, <3>5
  <2>8. ProcessesCounted'
    BY <2>1, <2>6, <2>7, CountsNat, CallerWeights DEF CallerDelta, ProcessesCounted
  <2>9. TasksCounted'
    <3>1. Len(ring) \in Nat
      BY DEF PoolTypes
    <3> QED
      BY <2>1, <2>5, <2>6, <2>7, <3>1, CountsNat, CallerWeights DEF CallerDelta, TasksCounted
  <2>10. RefsCounted'
    BY <2>1, <2>6, <2>7, CountsNat, CallerWeights DEF CallerDelta, RefsCounted
  <2> QED
    BY <2>4, <2>8, <2>9, <2>10
<1>8. ASSUME NEW p \in Processes, ReadTask(p)
      PROVE  CountInv'
  <2>1. /\ proc[p] = "read" /\ ring # <<>> /\ ring' = Tail(ring)
        /\ UNCHANGED <<status, process_num, task_num, ref_num, pc, mine>>
    BY <1>8 DEF ReadTask, poolVars, callVars
  <2>2. PICK W \in Woken :
          proc' = [q \in Processes |-> IF q = p THEN "run" ELSE IF q \in W THEN "read" ELSE proc[q]]
    BY <1>8 DEF ReadTask
  <2>3. \A q \in W : proc[q] = "wait"
    BY <2>2 DEF Woken, Signal
  <2>4. PoolTypes' /\ NothingBeforeStart'
    <3>1. proc' \in [Processes -> ProcStates]
      BY <2>2 DEF PoolTypes, ProcStates
    <3>2. ring' \in Seq(Tasks \cup {NoTask})
      BY <2>1 DEF PoolTypes
    <3> QED
      BY <2>1, <3>1, <3>2 DEF PoolTypes, NothingBeforeStart
  <2>5. Len(ring') = Len(ring) - 1
    BY <2>1 DEF PoolTypes
  <2>6. proc'[p] = "run" /\ ProcessDelta(p)
    <3>1. ASSUME NEW q \in Processes \ {p}
          PROVE  proc'[q] = proc[q] \/ (proc[q] = "wait" /\ proc'[q] = "read")
      <4>1. CASE q \in W
        BY <2>2, <2>3, <4>1
      <4>2. CASE q \notin W
        BY <2>2, <4>2
      <4> QED
        BY <4>1, <4>2
    <3>2. \A q \in Processes \ {p} : /\ proc[q] \in LiveStates <=> proc'[q] \in LiveStates
                                     /\ proc[q] \in BusyStates <=> proc'[q] \in BusyStates
                                     /\ proc[q] \in UsingStates <=> proc'[q] \in UsingStates
      BY <3>1 DEF LiveStates, BusyStates, UsingStates, ProcStates
    <3>3. proc'[p] = "run"
      BY <2>2
    <3>4. ProcessDelta(p)
      BY <3>2, ProcessesChange DEF ProcessDelta
    <3> QED
      BY <3>3, <3>4
  <2>7. ProcessesCounted'
    BY <2>1, <2>6, CountsNat, ProcessWeights DEF ProcessDelta, ProcessesCounted
  <2>8. TasksCounted'
    <3>1. Len(ring) \in Nat
      BY DEF PoolTypes
    <3> QED
      BY <2>1, <2>5, <2>6, <3>1, CountsNat, ProcessWeights DEF ProcessDelta, TasksCounted
  <2>9. RefsCounted'
    BY <2>1, <2>6, CountsNat, ProcessWeights DEF ProcessDelta, RefsCounted
  <2> QED
    BY <2>4, <2>7, <2>8, <2>9
<1>9. CASE UNCHANGED vars
  BY <1>9 DEF vars, poolVars, callVars, PoolTypes, NothingBeforeStart, ProcessesCounted, TasksCounted, RefsCounted, Count
<1>10. ASSUME NEW c \in Callers, CallStep(c)
       PROVE  CountInv'
  BY <1>10, <1>3, <1>4, <1>7 DEF CallStep
<1>11. ASSUME NEW p \in Processes, ProcStep(p) \/ ReadTimeout(p)
       PROVE  CountInv'
  BY <1>11, <1>5, <1>6, <1>8 DEF ProcStep
<1> QED
  BY <1>1, <1>2, <1>9, <1>10, <1>11 DEF Next

\* process_num, task_num and the references to the ring, though each is changed
\* in a critical section of its own, before or after what it counts, always
\* agree with the processes, the tasks and the users of the ring.
THEOREM CountersCorrect == Spec => []CountsAgree
<1>1. CountInv => CountsAgree
  BY DEF CountInv
<1> QED
  BY CountInit, CountStep, <1>1, PTL DEF Spec

-----------------------------------------------------------------------------
(* The size of the pool *)

NotNegative == task_num \in Nat

\* There is never less than no task, by the counting.
LEMMA TasksNotNegative == CountInv => NotNegative
<1> SUFFICES ASSUME CountInv PROVE task_num \in Nat
  BY DEF NotNegative
<1>1. Len(ring) \in Nat
  BY DEF CountInv, PoolTypes
<1> QED
  BY <1>1, CountsNat DEF CountInv, CountsAgree, TasksCounted

\* No caller undoes the creation of a thread.
NothingUndone == \A c \in Callers : pc[c] # "undo"

SizeInv ==
  ~failed =>
    /\ NothingUndone
    /\ process_num <= process_max
    /\ EnoughProcesses

\* At the start there is nothing to be large enough for.
LEMMA SizeInit == Init => SizeInv
BY PoolAssumption DEF Init, SizeInv, NothingUndone, EnoughProcesses

\* A failure is not forgotten.
LEMMA FailedStays == [Next]_vars /\ ~failed' => ~failed
<1> SUFFICES ASSUME [Next]_vars, failed PROVE failed'
  OBVIOUS
<1>1. CASE process_pool_start
  BY <1>1 DEF process_pool_start
<1>2. ASSUME NEW c \in Callers, NEW t \in Tasks, _put_task(c, t) PROVE failed'
  BY <1>2 DEF _put_task
<1>3. ASSUME NEW c \in Callers, CallStep(c) PROVE failed'
  BY <1>3 DEF CallStep, Create, CreateFails, CreateUndo, CreateUnref, WriteTask, WriteFails, Uncount, poolVars
<1>4. ASSUME NEW p \in Processes, ProcStep(p) \/ ReadTimeout(p) PROVE failed'
  BY <1>4 DEF ProcStep, ReadTask, ReadWait, ReadTimeout, RunTask, TaskDone, IdleCheck, Quit, poolVars
<1>5. CASE UNCHANGED vars
  BY <1>5 DEF vars, poolVars
<1> QED
  BY <1>1, <1>2, <1>3, <1>4, <1>5 DEF Next

\* Every step leaves enough processes: put_task adds one when the tasks are
\* more, and a process that quits leaves as many as there are tasks.
LEMMA SizeStep == CountInv /\ NotNegative' /\ SizeInv /\ [Next]_vars => SizeInv'
<1> SUFFICES ASSUME CountInv, NotNegative', SizeInv, [Next]_vars, ~failed, ~failed' PROVE SizeInv'
  BY FailedStays DEF SizeInv
<1>1. /\ process_num \in Int /\ task_num \in Nat /\ task_num' \in Nat
      /\ process_max \in Nat /\ idle_max \in Nat /\ idle_max >= 1 /\ idle_max <= process_max
  <2>1. task_num \in Nat
    BY TasksNotNegative DEF NotNegative
  <2>2. task_num' \in Nat
    BY DEF NotNegative
  <2>3. process_num \in Int
    BY DEF CountInv, PoolTypes
  <2> QED
    BY <2>1, <2>2, <2>3, PoolAssumption
<1>2. pc \in [Callers -> CallStates]
  BY DEF CountInv, PoolTypes
<1>3. CASE process_pool_start
  <2>1. PICK S \in SUBSET Processes : Cardinality(S) = idle_max /\ process_num' = Cardinality(S)
    BY <1>3 DEF process_pool_start
  <2>2. ~status /\ task_num' = task_num /\ pc' = pc
    BY <1>3 DEF process_pool_start, callVars
  <2>3. task_num = 0
    <3>1. ring = <<>> /\ \A T : "idle" \notin T => Count(pc, Callers, T) = 0
      <4>1. ASSUME NEW T, "idle" \notin T PROVE Count(pc, Callers, T) = 0
        <5>1. {x \in Callers : pc[x] \in T} = {}
          BY <2>2, <4>1 DEF CountInv, NothingBeforeStart
        <5> QED
          BY <5>1, FS_EmptySet DEF Count
      <4> QED
        BY <2>2, <4>1 DEF CountInv, NothingBeforeStart
    <3>2. Count(pc, Callers, Putting) = 0
      BY <3>1 DEF Putting
    <3>3. Count(proc, Processes, BusyStates) = 0
      <4>1. {x \in Processes : proc[x] \in BusyStates} = {}
        BY <2>2 DEF CountInv, NothingBeforeStart, BusyStates
      <4> QED
        BY <4>1, FS_EmptySet DEF Count
    <3> QED
      BY <3>1, <3>2, <3>3 DEF CountInv, CountsAgree, TasksCounted
  <2> QED
    BY <1>1, <2>1, <2>2, <2>3 DEF SizeInv, NothingUndone, EnoughProcesses
<1>4. ASSUME NEW c \in Callers, NEW t \in Tasks, _put_task(c, t)
      PROVE  SizeInv'
  <2>1. NothingUndone'
    BY <1>2, <1>4 DEF _put_task, SizeInv, NothingUndone
  <2>2. /\ status /\ task_num' = task_num + 1
        /\ process_num' = IF Grows THEN process_num + 1 ELSE process_num
    BY <1>4 DEF _put_task
  <2>3. process_num' <= process_max /\ EnoughProcesses'
    BY <1>1, <2>2 DEF Grows, SizeInv, EnoughProcesses
  <2> QED
    BY <2>1, <2>3 DEF SizeInv
<1>5. ASSUME NEW p \in Processes, IdleCheck(p)
      PROVE  SizeInv'
  <2>1. /\ UNCHANGED <<status, task_num, pc>>
        /\ \/ process_num > task_num + idle_max /\ process_num' = process_num - 1
           \/ process_num' = process_num
    BY <1>5 DEF IdleCheck, callVars, Superfluous
  <2> QED
    BY <1>1, <2>1 DEF SizeInv, NothingUndone, EnoughProcesses
<1>6. ASSUME NEW p \in Processes, TaskDone(p)
      PROVE  SizeInv'
  <2>1. UNCHANGED <<status, process_num, pc>> /\ task_num' = task_num - 1
    BY <1>6 DEF TaskDone, callVars
  <2> QED
    BY <1>1, <2>1 DEF SizeInv, NothingUndone, EnoughProcesses
<1>7. ASSUME NEW c \in Callers, Uncount(c)
      PROVE  SizeInv'
  <2>1. UNCHANGED <<status, process_num>> /\ task_num' = task_num - 1
    BY <1>7 DEF Uncount
  <2>2. NothingUndone'
    BY <1>2, <1>7 DEF Uncount, SizeInv, NothingUndone
  <2> QED
    BY <1>1, <2>1, <2>2 DEF SizeInv, EnoughProcesses
<1>8. ASSUME NEW c \in Callers, CreateUndo(c)
      PROVE  SizeInv'
  BY <1>8 DEF CreateUndo, SizeInv, NothingUndone
<1>9. ASSUME UNCHANGED poolVars, NothingUndone'
      PROVE  SizeInv'
  BY <1>9 DEF poolVars, SizeInv, EnoughProcesses
<1>10. ASSUME NEW c \in Callers, CallStep(c)
       PROVE  SizeInv'
  <2>1. ASSUME NEW p \in Processes, Create(c, p)
        PROVE  SizeInv'
    BY <1>2, <1>9, <2>1 DEF Create, SizeInv, NothingUndone
  <2>2. ASSUME CreateFails(c)
        PROVE  SizeInv'
    BY <2>2 DEF CreateFails
  <2>3. ASSUME CreateUnref(c) \/ WriteTask(c) \/ WriteFails(c)
        PROVE  SizeInv'
    <3>1. UNCHANGED poolVars
      BY <2>3 DEF CreateUnref, WriteTask, WriteFails
    <3>2. NothingUndone'
      BY <1>2, <2>3 DEF CreateUnref, WriteTask, WriteFails, SizeInv, NothingUndone
    <3> QED
      BY <1>9, <3>1, <3>2
  <2> QED
    BY <1>7, <1>8, <1>10, <2>1, <2>2, <2>3 DEF CallStep
<1>11. ASSUME NEW p \in Processes, ProcStep(p) \/ ReadTimeout(p)
       PROVE  SizeInv'
  <2>1. ASSUME ReadTask(p) \/ ReadWait(p) \/ ReadTimeout(p) \/ RunTask(p) \/ Quit(p)
        PROVE  SizeInv'
    <3>1. UNCHANGED poolVars /\ UNCHANGED pc
      BY <2>1 DEF ReadTask, ReadWait, ReadTimeout, RunTask, Quit, callVars
    <3> QED
      BY <1>9, <3>1 DEF SizeInv, NothingUndone
  <2> QED
    BY <1>5, <1>6, <1>11, <2>1 DEF ProcStep
<1>12. CASE UNCHANGED vars
  BY <1>9, <1>12 DEF vars, callVars, SizeInv, NothingUndone
<1> QED
  BY <1>3, <1>4, <1>10, <1>11, <1>12 DEF Next

\* As long as no pthread_create fails, the growth in put_task and the quitting
\* of idle processes, each deciding on counters that the other changes, never
\* leave fewer processes than tasks (up to process_max) or than idle_max.
THEOREM PoolLargeEnough == Spec => []EnoughProcesses
<1>1. SizeInv => EnoughProcesses
  BY DEF SizeInv, EnoughProcesses
<1> QED
  BY CountInit, CountStep, TasksNotNegative, SizeInit, SizeStep, <1>1, PTL DEF Spec

-----------------------------------------------------------------------------
(* Where the tasks are *)

InRing(t) == \E i \in 1 .. Len(ring) : ring[i] = t

Taken(t) == \E p \in Processes : job[p] = t

\* The types that CountInv does not have; who has a task to put or to run.
TaskTypes ==
  /\ process_num <= process_max
  /\ failed \in BOOLEAN
  /\ ~status => ref_num = 0
  /\ ring \in Seq(Tasks) /\ Len(ring) <= RingTasks
  /\ job \in [Processes -> Tasks \cup {NoTask}]
  /\ result \in [Tasks -> {"none", "accepted", "refused"}]
  /\ runs \in [Tasks -> Nat]
  /\ \A c \in Callers : pc[c] # "idle" => mine[c] \in Tasks
  /\ \A p \in Processes : proc[p] = "run" <=> job[p] # NoTask

\* A task is put by one caller, and once it is accepted it is in one place of
\* the ring, or with one process, or has been run.
TaskPlaces ==
  /\ \A i, j \in 1 .. Len(ring) : ring[i] = ring[j] => i = j
  /\ \A p, q \in Processes : job[p] # NoTask /\ job[p] = job[q] => p = q
  /\ \A c, d \in Callers : mine[c] # NoTask /\ mine[c] = mine[d] => c = d
  /\ \A c \in Callers : mine[c] # NoTask => result[mine[c]] = "none"
  /\ \A t \in Tasks :
       /\ ~(InRing(t) /\ Taken(t))
       /\ InRing(t) \/ Taken(t) <=> result[t] = "accepted" /\ runs[t] = 0
       /\ runs[t] \in {0, 1}
       /\ runs[t] = 1 => result[t] = "accepted"

TaskInv == TaskTypes /\ TaskPlaces

\* No task is anywhere at the start.
LEMMA TaskInit == Init => TaskInv
<1> SUFFICES ASSUME Init PROVE TaskInv
  OBVIOUS
<1>1. failed \in BOOLEAN
  BY Zenon DEF Init
<1>2. ring = <<>> /\ Len(ring) = 0 /\ ring \in Seq(Tasks)
  BY DEF Init
<1>3. /\ result \in [Tasks -> {"none", "accepted", "refused"}] /\ runs \in [Tasks -> Nat]
      /\ job \in [Processes -> Tasks \cup {NoTask}]
  BY DEF Init
<1>4. /\ \A p \in Processes : job[p] = NoTask /\ proc[p] = "none"
      /\ \A c \in Callers : mine[c] = NoTask /\ pc[c] = "idle"
      /\ \A t \in Tasks : result[t] = "none" /\ runs[t] = 0
  BY DEF Init
<1>5. TaskTypes
  BY <1>1, <1>2, <1>3, <1>4, PoolAssumption DEF Init, TaskTypes
<1>6. TaskPlaces
  BY <1>2, <1>4, TaskAssumption DEF TaskPlaces, InRing, Taken
<1> QED
  BY <1>5, <1>6 DEF TaskInv

\* Every step takes at most one task from one place to the next.
LEMMA TaskStep == CountInv /\ TaskInv /\ [Next]_vars => TaskInv'
<1> SUFFICES ASSUME CountInv, TaskInv, [Next]_vars PROVE TaskInv'
  OBVIOUS
<1> USE TaskAssumption DEF TaskInv
<1>t. /\ status \in BOOLEAN /\ process_num \in Int /\ ref_num \in Int
      /\ mine \in [Callers -> Tasks \cup {NoTask}]
      /\ proc \in [Processes -> ProcStates] /\ pc \in [Callers -> CallStates]
      /\ ring \in Seq(Tasks) /\ Len(ring) \in Nat
      /\ process_max \in Nat /\ idle_max \in Nat /\ idle_max <= process_max /\ RingTasks \in Nat
  BY PoolAssumption DEF CountInv, PoolTypes, TaskTypes

\* Most steps move no task.
<1>s. ASSUME UNCHANGED <<ring, job, mine, result, runs>>
      PROVE  TaskPlaces'
  BY <1>s DEF TaskPlaces, InRing, Taken
<1>1. CASE process_pool_start
  <2>1. /\ ~status /\ status' /\ UNCHANGED <<ring, job, pc, mine, result, runs>>
        /\ \A p \in Processes : proc'[p] # "run" /\ proc[p] # "run"
    BY <1>1 DEF process_pool_start, callVars, CountInv, NothingBeforeStart
  <2>2. PICK S \in SUBSET Processes :
          Cardinality(S) <= idle_max /\ process_num' = Cardinality(S)
    BY <1>1 DEF process_pool_start
  <2>3. Cardinality(S) \in Nat
    BY PoolAssumption, FS_Subset, FS_CardinalityType
  <2>4. process_num' <= process_max
    BY <1>t, <2>2, <2>3
  <2>5. failed' \in BOOLEAN
    BY <1>1, Zenon DEF process_pool_start
  <2> QED
    BY <1>s, <2>1, <2>4, <2>5 DEF TaskTypes
<1>2. ASSUME NEW c \in Callers, NEW t \in Tasks, _put_task(c, t)
      PROVE  TaskInv'
  <2>1. /\ UNCHANGED <<status, failed, ring, ref_num, proc, job, result, runs>>
        /\ result[t] = "none" /\ \A d \in Callers : mine[d] # t
        /\ mine' = [mine EXCEPT ![c] = t]
        /\ \A d \in Callers \ {c} : pc'[d] = pc[d]
    BY <1>2, <1>t DEF _put_task
  <2>2. process_num' <= process_max
    BY <1>2, <1>t DEF _put_task, Grows, TaskTypes
  <2>3. TaskTypes'
    BY <1>t, <2>1, <2>2 DEF TaskTypes
  <2>4. TaskPlaces'
    BY <1>t, <2>1 DEF TaskPlaces, InRing, Taken
  <2> QED
    BY <2>3, <2>4
<1>3. ASSUME NEW c \in Callers,
             \/ CreateFails(c) \/ CreateUndo(c) \/ CreateUnref(c) \/ WriteFails(c)
             \/ \E p \in Processes : Create(c, p)
      PROVE  TaskInv'
  <2>1. /\ UNCHANGED <<ring, job, mine, result, runs>>
        /\ pc[c] # "idle" /\ \A d \in Callers \ {c} : pc'[d] = pc[d]
        /\ process_num' \in {process_num, process_num - 1}
        /\ \A p \in Processes : proc'[p] = "run" <=> proc[p] = "run"
    BY <1>3, <1>t
    DEF Create, CreateFails, CreateUndo, CreateUnref, WriteFails, poolVars
  <2>2. status /\ status' = status
    BY <1>3, <2>1
    DEF Create, CreateFails, CreateUndo, CreateUnref, WriteFails, poolVars, CountInv, NothingBeforeStart
  <2>3. failed' = failed \/ failed' = TRUE
    BY <1>3 DEF Create, CreateFails, CreateUndo, CreateUnref, WriteFails, poolVars
  <2>4. failed' \in BOOLEAN
    BY <2>3, Zenon DEF TaskTypes
  <2> QED
    BY <1>s, <1>t, <2>1, <2>2, <2>4 DEF TaskTypes
<1>4. ASSUME NEW c \in Callers, WriteTask(c)
      PROVE  TaskInv'
  <2>1. /\ pc[c] = "write" /\ mine[c] \in Tasks /\ mine[c] # NoTask
        /\ Len(ring) < RingTasks /\ ring' = Append(ring, mine[c])
        /\ result' = [result EXCEPT ![mine[c]] = "accepted"]
        /\ mine' = [mine EXCEPT ![c] = NoTask]
        /\ pc' = [pc EXCEPT ![c] = "idle"]
        /\ UNCHANGED <<status, process_num, failed, ref_num, job, runs>>
    BY <1>4 DEF WriteTask, TaskTypes, poolVars
  <2>2. \A p \in Processes : proc'[p] = "run" <=> proc[p] = "run"
    BY <1>4, <1>t DEF WriteTask, Signal
  <2>3. TaskTypes'
    BY <1>t, <2>1, <2>2 DEF TaskTypes
  <2>4. /\ Len(ring') = Len(ring) + 1
        /\ \A i \in 1 .. Len(ring) : ring'[i] = ring[i]
        /\ ring'[Len(ring) + 1] = mine[c]
    BY <1>t, <2>1
  <2>5. /\ result[mine[c]] = "none" /\ runs[mine[c]] = 0
        /\ ~InRing(mine[c]) /\ ~Taken(mine[c])
    BY <2>1 DEF TaskPlaces
  <2>6. ASSUME NEW t \in Tasks PROVE InRing(t)' <=> InRing(t) \/ t = mine[c]
    BY <1>t, <2>4 DEF InRing
  <2>7. \A i, j \in 1 .. Len(ring') : ring'[i] = ring'[j] => i = j
    BY <1>t, <2>4, <2>5 DEF TaskPlaces, InRing
  <2>8. \A t \in Tasks : Taken(t)' <=> Taken(t)
    BY <2>1 DEF Taken
  <2>9. \A t \in Tasks : result'[t] = IF t = mine[c] THEN "accepted" ELSE result[t]
    BY <2>1 DEF TaskTypes
  <2>10. \A d \in Callers : mine'[d] = IF d = c THEN NoTask ELSE mine[d]
    BY <1>t, <2>1
  <2>11. TaskPlaces'
    BY <1>t, <2>1, <2>5, <2>6, <2>7, <2>8, <2>9, <2>10 DEF TaskPlaces
  <2> QED
    BY <2>3, <2>11
<1>5. ASSUME NEW c \in Callers, Uncount(c)
      PROVE  TaskInv'
  <2>1. /\ pc[c] = "uncount" /\ mine[c] \in Tasks /\ mine[c] # NoTask
        /\ result' = [result EXCEPT ![mine[c]] = "refused"]
        /\ mine' = [mine EXCEPT ![c] = NoTask]
        /\ pc' = [pc EXCEPT ![c] = "idle"]
        /\ UNCHANGED <<status, process_num, failed, ring, ref_num, proc, job, runs>>
    BY <1>5 DEF Uncount, TaskTypes
  <2>2. TaskTypes'
    BY <1>t, <2>1 DEF TaskTypes
  <2>3. result[mine[c]] = "none" /\ runs[mine[c]] = 0
    BY <2>1 DEF TaskPlaces
  <2>4. \A t \in Tasks : (InRing(t)' <=> InRing(t)) /\ (Taken(t)' <=> Taken(t))
    BY <2>1 DEF InRing, Taken
  <2>5. \A t \in Tasks : result'[t] = IF t = mine[c] THEN "refused" ELSE result[t]
    BY <2>1 DEF TaskTypes
  <2>6. \A d \in Callers : mine'[d] = IF d = c THEN NoTask ELSE mine[d]
    BY <1>t, <2>1
  <2>7. TaskPlaces'
    BY <1>t, <2>1, <2>3, <2>4, <2>5, <2>6 DEF TaskPlaces
  <2> QED
    BY <2>2, <2>7
<1>6. ASSUME NEW p \in Processes, ReadTask(p)
      PROVE  TaskInv'
  <2>1. /\ proc[p] = "read" /\ job[p] = NoTask
        /\ ring # <<>> /\ ring' = Tail(ring)
        /\ job' = [job EXCEPT ![p] = Head(ring)]
        /\ UNCHANGED <<status, process_num, failed, ref_num, pc, mine, result, runs>>
    BY <1>6 DEF ReadTask, TaskTypes, poolVars, callVars
  <2>2. \A q \in Processes : proc'[q] = "run" <=> (q = p \/ proc[q] = "run")
    BY <1>6, <1>t DEF ReadTask, Woken, Signal
  <2>3. /\ Len(ring) > 0 /\ Len(ring') = Len(ring) - 1 /\ ring' \in Seq(Tasks)
        /\ \A i \in 1 .. Len(ring') : ring'[i] = ring[i + 1]
        /\ Head(ring) = ring[1] /\ ring[1] \in Tasks
    BY <1>t, <2>1
  <2>4. \A q \in Processes : job'[q] = IF q = p THEN ring[1] ELSE job[q]
    BY <2>1, <2>3 DEF TaskTypes
  <2>5. TaskTypes'
    <3>1. job' \in [Processes -> Tasks \cup {NoTask}]
      BY <2>1, <2>3 DEF TaskTypes
    <3> QED
      BY <1>t, <2>1, <2>2, <2>3, <2>4, <3>1 DEF TaskTypes
  <2>6. InRing(ring[1]) /\ ~Taken(ring[1])
    BY <1>t, <2>3 DEF InRing, TaskPlaces
  <2>7. \A i, j \in 1 .. Len(ring') : ring'[i] = ring'[j] => i = j
    BY <1>t, <2>3 DEF TaskPlaces
  <2>8. ASSUME NEW t \in Tasks PROVE InRing(t)' <=> InRing(t) /\ t # ring[1]
    <3>1. ASSUME InRing(t)' PROVE InRing(t) /\ t # ring[1]
      <4>1. PICK i \in 1 .. Len(ring') : ring'[i] = t
        BY <3>1 DEF InRing
      <4>2. i + 1 \in 1 .. Len(ring) /\ ring[i + 1] = t /\ i + 1 # 1 /\ 1 \in 1 .. Len(ring)
        BY <1>t, <2>3, <4>1
      <4> QED
        BY <4>2 DEF InRing, TaskPlaces
    <3>2. ASSUME InRing(t), t # ring[1] PROVE InRing(t)'
      <4>1. PICK i \in 1 .. Len(ring) : ring[i] = t
        BY <3>2 DEF InRing
      <4>2. i - 1 \in 1 .. Len(ring') /\ ring'[i - 1] = t
        BY <1>t, <2>3, <3>2, <4>1
      <4> QED
        BY <4>2 DEF InRing
    <3> QED
      BY <3>1, <3>2
  <2>9. \A t \in Tasks : Taken(t)' <=> Taken(t) \/ t = ring[1]
    BY <2>1, <2>4 DEF Taken
  <2>10. \A q, r \in Processes : job'[q] # NoTask /\ job'[q] = job'[r] => q = r
    BY <2>3, <2>4, <2>6 DEF Taken, TaskPlaces
  <2>11. TaskPlaces'
    BY <2>1, <2>6, <2>7, <2>8, <2>9, <2>10 DEF TaskPlaces
  <2> QED
    BY <2>5, <2>11
<1>7. ASSUME NEW p \in Processes, RunTask(p)
      PROVE  TaskInv'
  <2>1. /\ proc[p] = "run" /\ job[p] \in Tasks /\ job[p] # NoTask
        /\ runs' = [runs EXCEPT ![job[p]] = @ + 1]
        /\ job' = [job EXCEPT ![p] = NoTask]
        /\ proc' = [proc EXCEPT ![p] = "ran"]
        /\ UNCHANGED <<status, process_num, failed, ring, ref_num, pc, mine, result>>
    BY <1>7 DEF RunTask, TaskTypes, poolVars, callVars
  <2>2. /\ Taken(job[p]) /\ ~InRing(job[p]) /\ runs[job[p]] = 0 /\ result[job[p]] = "accepted"
    BY <2>1 DEF TaskPlaces, Taken
  <2>3. /\ \A q \in Processes : job'[q] = IF q = p THEN NoTask ELSE job[q]
        /\ \A t \in Tasks : runs'[t] = IF t = job[p] THEN 1 ELSE runs[t]
    BY <2>1, <2>2 DEF TaskTypes
  <2>4. TaskTypes'
    BY <1>t, <2>1, <2>3 DEF TaskTypes
  <2>5. ASSUME NEW t \in Tasks
        PROVE  (InRing(t)' <=> InRing(t)) /\ (Taken(t)' <=> Taken(t) /\ t # job[p])
    BY <2>1, <2>3 DEF InRing, Taken, TaskPlaces
  <2>6. TaskPlaces'
    BY <2>1, <2>2, <2>3, <2>5 DEF TaskPlaces
  <2> QED
    BY <2>4, <2>6
<1>8. ASSUME NEW p \in Processes, ReadWait(p) \/ ReadTimeout(p) \/ TaskDone(p) \/ IdleCheck(p) \/ Quit(p)
      PROVE  TaskInv'
  <2>1. /\ UNCHANGED <<status, failed, ring, job, pc, mine, result, runs>>
        /\ process_num' \in {process_num, process_num - 1}
        /\ proc[p] # "none"
        /\ \A q \in Processes : proc'[q] = "run" <=> proc[q] = "run"
    BY <1>8, <1>t
    DEF ReadWait, ReadTimeout, TaskDone, IdleCheck, Quit, poolVars, callVars
  <2>2. status
    BY <2>1 DEF CountInv, NothingBeforeStart
  <2> QED
    BY <1>s, <1>t, <2>1, <2>2 DEF TaskTypes
<1>9. CASE UNCHANGED vars
  <2>1. UNCHANGED <<status, process_num, failed, ring, ref_num, proc, job, pc, mine, result, runs>>
    BY <1>9 DEF vars, poolVars, callVars
  <2> QED
    BY <1>s, <2>1 DEF TaskTypes
<1> QED
  BY <1>1, <1>2, <1>3, <1>4, <1>5, <1>6, <1>7, <1>8, <1>9 DEF Next, CallStep, ProcStep

\* The places of a task are counted by at most one element each.
LEMMA PlacesCounted ==
  ASSUME CountInv, TaskInv, NEW t \in Tasks
  PROVE  /\ Cardinality({i \in DOMAIN ring : ring[i] = t}) = IF InRing(t) THEN 1 ELSE 0
         /\ Cardinality({p \in Processes : job[p] = t}) = IF Taken(t) THEN 1 ELSE 0
<1> DEFINE R == {i \in DOMAIN ring : ring[i] = t}
           J == {p \in Processes : job[p] = t}
<1>1. DOMAIN ring = 1 .. Len(ring)
  BY DEF TaskInv, TaskTypes
<1>2. Cardinality(R) = IF InRing(t) THEN 1 ELSE 0
  <2>1. ASSUME NEW i \in 1 .. Len(ring), ring[i] = t PROVE R = {i}
    BY <1>1, <2>1 DEF TaskInv, TaskPlaces
  <2>2. ~InRing(t) => R = {}
    BY <1>1 DEF InRing
  <2> QED
    BY <2>1, <2>2, FS_Singleton, FS_EmptySet DEF InRing
<1>3. Cardinality(J) = IF Taken(t) THEN 1 ELSE 0
  <2>1. ASSUME NEW p \in Processes, job[p] = t PROVE J = {p}
    BY <2>1, TaskAssumption DEF TaskInv, TaskPlaces
  <2>2. ~Taken(t) => J = {}
    BY DEF Taken
  <2> QED
    BY <2>1, <2>2, FS_Singleton, FS_EmptySet DEF Taken
<1> QED
  BY <1>2, <1>3

\* The invariants give TypeOK and the places.
LEMMA TasksPlaced == CountInv /\ TaskInv => TaskOnce
<1> SUFFICES ASSUME CountInv, TaskInv PROVE TaskOnce
  OBVIOUS
<1>1. process_num \in 0 .. process_max
  BY CountsNat, PoolAssumption
  DEF CountInv, CountsAgree, ProcessesCounted, TaskInv, TaskTypes
<1>2. task_num \in Nat
  BY TasksNotNegative DEF NotNegative
<1>3. ref_num \in Nat
  BY CountsNat DEF CountInv, CountsAgree, RefsCounted, TaskInv, TaskTypes
<1>4. TypeOK
  BY <1>1, <1>2, <1>3 DEF CountInv, PoolTypes, TaskInv, TaskTypes, TypeOK
<1>5. ASSUME NEW t \in Tasks
      PROVE  Cardinality({i \in DOMAIN ring : ring[i] = t})
               + Cardinality({p \in Processes : job[p] = t}) + runs[t]
             = (IF result[t] = "accepted" THEN 1 ELSE 0)
  BY PlacesCounted DEF TaskInv, TaskPlaces
<1> QED
  BY <1>4, <1>5 DEF TaskOnce

\* Whatever the callers, processes and limits: no task is lost, run twice or in
\* two places at once, and none that was refused is run.
THEOREM TasksCorrect == Spec => []TaskOnce
BY CountInit, CountStep, TaskInit, TaskStep, TasksPlaced, PTL DEF Spec
=============================================================================
