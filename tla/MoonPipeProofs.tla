--------------------------- MODULE MoonPipeProofs ---------------------------
(***************************************************************************)
(* Proofs about MoonPipe for every finite set of threads that share the    *)
(* pipe: it is freed only after everybody has left it and its callbacks    *)
(* have run, the callbacks run once and are not lost, the objects of its   *)
(* points are alive while they are used, and its useing word and the one   *)
(* of its mutex are guarded resources.                                     *)
(*                                                                         *)
(* Every one of these rests on counting.  The pipe has three counters that *)
(* threads change in steps of their own (ref_num, useing and the users of  *)
(* the mutex) and each point has one; the invariant says whom they count.  *)
(***************************************************************************)
EXTENDS MoonPipe, FiniteSetTheorems, TLAPS

CbPcs == {"cb_notify", "cb_own", "cb_other"}

\* Where the one is that creates the pipe.
SetupPcs == {"setup", "i_ready", "i_unlock", "i_mclose", "i_mdel"}

\* Where threads deal with the mutex of the set-up.
MutexPcs == {"g_minc", "g_lock", "g_unlock", "g_mdec", "g_mdel", "i_mclose", "i_mdel"}

\* A call of pipe_get_other_point_ref has succeeded, but has not returned.
Succeeded(t) == cont[t] = "got" /\ pc[t] \notin {"g_ref", "g_dref"}

\* The threads with a reference to the pipe, those of them with a second one
\* for the data of the other point, and those with a reference to the object of
\* point i.
Holders == {t \in Threads : pc[t] # "none"}

DataHolders == {t \in Threads : pc[t] \in {"got", "put_data"} \/ Succeeded(t)}

AtPoint(t) == pc[t] \in {"g_dref", "got"} \/ Succeeded(t)

PointHolders(i) == {t \in Threads : Other(side[t]) = i /\ AtPoint(t)}

-----------------------------------------------------------------------------
(* The inductive invariant *)

\* TypeOK with integers for the counters, whose signs are what is to be shown.
PipeTypes ==
  /\ pipe \in {"none", "live", "freed"}
  /\ ref_num \in Int
  /\ status \in [ready : BOOLEAN, closed : SUBSET Points, useing : Int]
  /\ mutex_status \in [st : {0, 1, STATUS_CLOSED}, n : Int]
  /\ pipe_mutex \in {"none", "free", "destroyed"} \cup Threads
  /\ p_ref \in [Points -> BOOLEAN]
  /\ gc \in [Points -> Int]
  /\ owned \in [Points -> BOOLEAN]
  /\ pc \in [Threads -> Pcs]
  /\ cont \in [Threads -> {"idle", "got", "i_unlock"}]
  /\ side \in [Threads -> Points]
  /\ has_closed \in BOOLEAN
  /\ closing \in Int
  /\ notified \in [Points -> Int]
  /\ released \in [Points -> Int]

\* Where a thread may be with which continuation.
CallsRight ==
  \A t \in Threads :
    /\ cont[t] = "got" => pc[t] \in {"g_ref", "g_dref", "u_dec"} \cup CbPcs
    /\ pc[t] \in {"g_ref", "g_dref"} => cont[t] = "got"
    /\ cont[t] = "i_unlock" => pc[t] \in {"close", "i_ready", "i_unlock"}
    /\ pc[t] \in SetupPcs \/ cont[t] = "i_unlock" => t = Creator

\* useing, ref_num and the count of the mutex's users are right, and the pipe
\* is there as long as somebody has a reference to it.
CountersRight ==
  /\ status.useing = Cardinality(Users)
  /\ ref_num = Cardinality(Holders) + Cardinality(DataHolders)
  /\ mutex_status.n = Cardinality(MutexUsers)
  /\ pipe = "live" <=> ref_num > 0

\* What is known of the set-up.  The creator closes the pipe before it leaves;
\* a one-way pipe is its own until then, a two-way pipe is not ready.
SetupRight ==
  /\ pipe = "none" =>
       mutex_status.st = 0 /\ ~has_closed /\ ~Closed /\ \A t \in Threads : pc[t] = "none"
  /\ pipe # "none" /\ pc[Creator] = "none" => has_closed
  /\ has_closed => Closed
  /\ pc[Creator] = "setup" =>
       IF mutex_status = NO_MUTEX THEN \A t \in Threads \ {Creator} : pc[t] = "none"
       ELSE ~status.ready
  /\ ~status.ready =>
       \A t \in Threads : pc[t] \notin {"g_ref", "g_dref", "got", "put_data"} /\ cont[t] # "got"

\* The mutex is destroyed by one thread, when it is closed and has no users; a
\* one-way pipe has none.
MutexRight ==
  /\ mutex_status.st = 1 =>
       /\ mutex_status = NO_MUTEX /\ status.ready
       /\ \A t \in Threads : pc[t] \notin MutexPcs
  /\ pc[Creator] \in {"setup", "i_ready", "i_unlock", "i_mclose"} \/ cont[Creator] = "i_unlock" =>
       ~IsClosed(mutex_status)
  /\ pipe_mutex = "destroyed" =>
       /\ STATUS_LEGAL_CLOSED(mutex_status)
       /\ \A t \in Threads : pc[t] \notin {"i_mdel", "g_mdel"}
  /\ \A t \in Threads : pc[t] \in {"i_mdel", "g_mdel"} => STATUS_LEGAL_CLOSED(mutex_status)
  /\ \A t, u \in Threads :
       pc[t] \in {"i_mdel", "g_mdel"} /\ pc[u] \in {"i_mdel", "g_mdel"} => t = u

\* How far the callbacks are.
CallbackPhase ==
  /\ closing \in {0, 1}
  /\ \A t, u \in Threads : InCallbacks(t) /\ InCallbacks(u) => t = u
  /\ (closing = 1 \/ \E t \in Threads : InCallbacks(t)) <=> Closed /\ status.useing = 0
  /\ closing = 0 => \A i \in Points : notified[i] = 0 /\ released[i] = 0
  /\ closing = 1 => (\A i \in Points : released[i] = 1) \/ \E t \in Threads : InCallbacks(t)
  /\ \A t \in Threads :
       /\ pc[t] = "cb_notify" => closing = 0
       /\ pc[t] = "cb_own" => closing = 1 /\ \A i \in Points : released[i] = 0
       /\ pc[t] = "cb_other" => closing = 1 /\ released[side[t]] = 1 /\ released[Other(side[t])] = 0
  /\ \A i \in Points : notified[i] \in {0, 1} /\ (i \in status.closed => notified[i] = 0)

\* An object is referred to by its owner, by the pipe and by callers.
ObjectCounted(i) ==
  /\ ~p_ref[i] => owned[i]
  /\ gc[i] = (IF owned[i] THEN 1 ELSE 0)
             + IF p_ref[i]
               THEN (IF released[i] = 0 THEN 1 ELSE 0) + Cardinality(PointHolders(i))
               ELSE 0

ObjectsCounted == \A i \in Points : ObjectCounted(i)

IInv ==
  PipeTypes /\ CallsRight /\ CountersRight /\ SetupRight /\ MutexRight /\ CallbackPhase /\
     ObjectsCounted

-----------------------------------------------------------------------------
(* Counting *)

One(b) == IF b THEN 1 ELSE 0

\* Two sets that differ in one element at most.
LEMMA SetChange ==
  ASSUME NEW S, NEW T, IsFiniteSet(S), IsFiniteSet(T), NEW t,
         \A u : u # t => (u \in S <=> u \in T)
  PROVE  Cardinality(T) = Cardinality(S) + One(t \in T) - One(t \in S)
<1>1. Cardinality(S) \in Nat /\ Cardinality(T) \in Nat
  BY FS_CardinalityType
<1>2. CASE t \in S <=> t \in T
  <2>1. S = T
    BY <1>2
  <2> QED
    BY <1>1, <1>2, <2>1 DEF One
<1>3. CASE t \in T /\ t \notin S
  <2>1. T = S \cup {t}
    BY <1>3
  <2> QED
    BY <1>1, <1>3, <2>1, FS_AddElement DEF One
<1>4. CASE t \in S /\ t \notin T
  <2>1. S = T \cup {t}
    BY <1>4
  <2> QED
    BY <1>1, <1>4, <2>1, FS_AddElement DEF One
<1> QED
  BY <1>2, <1>3, <1>4

\* The counted sets are finite sets of threads.
LEMMA CountsNat ==
  /\ IsFiniteSet(Users) /\ Cardinality(Users) \in Nat
  /\ IsFiniteSet(Holders) /\ Cardinality(Holders) \in Nat
  /\ IsFiniteSet(DataHolders) /\ Cardinality(DataHolders) \in Nat
  /\ IsFiniteSet(MutexUsers) /\ Cardinality(MutexUsers) \in Nat
  /\ \A i \in Points : IsFiniteSet(PointHolders(i)) /\ Cardinality(PointHolders(i)) \in Nat
<1>1. ASSUME NEW S \in SUBSET Threads PROVE IsFiniteSet(S) /\ Cardinality(S) \in Nat
  BY PipeThreadsAssumption, FS_Subset, FS_CardinalityType
<1>2. /\ Users \in SUBSET Threads /\ Holders \in SUBSET Threads /\ DataHolders \in SUBSET Threads
      /\ MutexUsers \in SUBSET Threads /\ \A i \in Points : PointHolders(i) \in SUBSET Threads
  BY DEF Users, Holders, DataHolders, MutexUsers, PointHolders
<1> QED
  BY <1>1, <1>2

\* A set with a member is not empty.
LEMMA SomebodyCounts ==
  ASSUME NEW t
  PROVE  /\ t \in Users => Cardinality(Users) > 0
         /\ t \in Holders => Cardinality(Holders) > 0
         /\ t \in DataHolders => Cardinality(DataHolders) > 0
         /\ t \in MutexUsers => Cardinality(MutexUsers) > 0
         /\ \A i \in Points : t \in PointHolders(i) => Cardinality(PointHolders(i)) > 0
BY CountsNat, FS_EmptySet

\* How the counts change when thread t alone moves.
Moved(t) ==
  /\ Cardinality(Users') = Cardinality(Users) + One(t \in Users') - One(t \in Users)
  /\ Cardinality(Holders') = Cardinality(Holders) + One(t \in Holders') - One(t \in Holders)
  /\ Cardinality(DataHolders') =
       Cardinality(DataHolders) + One(t \in DataHolders') - One(t \in DataHolders)
  /\ Cardinality(MutexUsers') =
       Cardinality(MutexUsers) + One(t \in MutexUsers') - One(t \in MutexUsers)
  /\ \A i \in Points :
       Cardinality(PointHolders(i)') =
         Cardinality(PointHolders(i)) + One(t \in PointHolders(i)') - One(t \in PointHolders(i))

\* When one thread moves, nobody else enters or leaves a counted set.
LEMMA OneMoves ==
  ASSUME NEW t \in Threads, \A u \in Threads \ {t} : pc'[u] = pc[u] /\ cont'[u] = cont[u],
         side' = side
  PROVE  Moved(t)
<1>1. /\ \A u : u # t => (u \in Users <=> u \in Users')
      /\ \A u : u # t => (u \in Holders <=> u \in Holders')
      /\ \A u : u # t => (u \in DataHolders <=> u \in DataHolders')
      /\ \A u : u # t => (u \in MutexUsers <=> u \in MutexUsers')
      /\ \A i \in Points : \A u : u # t => (u \in PointHolders(i) <=> u \in PointHolders(i)')
  BY DEF Users, Holders, DataHolders, MutexUsers, PointHolders, AtPoint, Succeeded
<1>2. CountsNat /\ CountsNat'
  BY CountsNat, PTL
<1> QED
  BY <1>1, <1>2, SetChange DEF Moved

\* Who is inside keeps the callbacks from running.
LEMMA UserKeepsOpen ==
  ASSUME IInv, NEW t \in Users
  PROVE  /\ status.useing > 0 /\ closing = 0
         /\ \A u \in Threads : ~InCallbacks(u)
         /\ \A i \in Points : released[i] = 0 /\ notified[i] = 0
<1>1. status.useing > 0
  BY SomebodyCounts DEF IInv, CountersRight
<1> QED
  BY <1>1 DEF IInv, CallbackPhase

\* A step in which nobody gets or gives up a reference to a point's object.
LEMMA SameObjects ==
  ASSUME ObjectsCounted, \A u \in Threads : AtPoint(u)' <=> AtPoint(u),
         UNCHANGED <<side, p_ref, gc, owned, released>>
  PROVE  ObjectsCounted'
<1>1. \A i \in Points : PointHolders(i)' = PointHolders(i)
  BY DEF PointHolders
<1> QED
  BY <1>1 DEF ObjectsCounted, ObjectCounted

\* A step in which no thread enters or leaves the callbacks and the pipe is
\* neither closed nor left by its last user.
LEMMA SameCallbacks ==
  ASSUME CallbackPhase,
         \A u \in Threads : pc'[u] = pc[u] \/ (~InCallbacks(u) /\ ~InCallbacks(u)'),
         status'.closed = status.closed, status'.useing = 0 <=> status.useing = 0,
         UNCHANGED <<side, closing, notified, released>>
  PROVE  CallbackPhase'
BY DEF CallbackPhase, InCallbacks, Closed

-----------------------------------------------------------------------------
(* Every action keeps the invariant *)

\* pipe_new: the creator is the first user and has the first reference.
LEMMA pipe_newKeeps ==
  ASSUME IInv, NEW t \in Threads, NEW is_two_way \in BOOLEAN, pipe_new(t, is_two_way)
  PROVE  IInv'
<1> USE DEF IInv, pipe_new, Goto, ReadyWhenNew, pointVars, history
<1>a. /\ t = Creator /\ pipe = "none" /\ pipe' = "live" /\ ref_num' = 1
      /\ pc' = [pc EXCEPT ![t] = "setup"] /\ UNCHANGED <<cont, side, has_closed>>
      /\ UNCHANGED <<p_ref, gc, owned, closing, notified, released>>
  OBVIOUS
<1>b. /\ status' \in [ready : BOOLEAN, closed : {{}}, useing : {1}]
      /\ \/ mutex_status' = [st |-> 0, n |-> 0] /\ pipe_mutex' = t /\ ~status'.ready
         \/ mutex_status' = NO_MUTEX /\ pipe_mutex' = "none" /\ status'.ready
  OBVIOUS
<1>c. \A u \in Threads : pc[u] = "none" /\ cont[u] = "idle"
  BY <1>a DEF SetupRight, CallsRight, PipeTypes, CbPcs
<1>d. Users = {} /\ Holders = {} /\ DataHolders = {} /\ MutexUsers = {}
  BY <1>c DEF Users, Holders, DataHolders, MutexUsers, Succeeded
<1>e. closing = 0 /\ ~Closed /\ ~has_closed
  BY <1>a DEF SetupRight, CallbackPhase
<1>1. PipeTypes'
  BY PipeThreadsAssumption, <1>a, <1>b DEF PipeTypes, Pcs, NO_MUTEX
<1>2. CallsRight'
  BY DEF PipeTypes, CallsRight, CbPcs, SetupPcs
<1>3. Moved(t)
  BY OneMoves DEF PipeTypes
<1>4. CountersRight'
  <2>1. /\ t \in Users' /\ t \in Holders' /\ t \notin DataHolders' /\ t \notin MutexUsers'
    BY <1>a, <1>c DEF PipeTypes, Users, Holders, DataHolders, MutexUsers, Succeeded
  <2>2. /\ Cardinality(Users') = 1 /\ Cardinality(Holders') = 1
        /\ Cardinality(DataHolders') = 0 /\ Cardinality(MutexUsers') = 0
    BY <1>3, <1>d, <2>1, FS_EmptySet DEF Moved, One
  <2> QED
    BY <1>a, <1>b, <2>2 DEF CountersRight, NO_MUTEX
<1>5. SetupRight'
  BY <1>a, <1>b, <1>c, <1>e, PipeThreadsAssumption DEF SetupRight, Closed, PipeTypes, NO_MUTEX
<1>6. MutexRight'
  BY <1>a, <1>b, <1>c, PipeThreadsAssumption
  DEF MutexRight, MutexPcs, PipeTypes, NO_MUTEX, IsClosed, STATUS_CLOSED
<1>7. CallbackPhase'
  BY <1>a, <1>b, <1>c, <1>e DEF CallbackPhase, InCallbacks, Closed, PipeTypes
<1>8. ObjectsCounted'
  BY SameObjects DEF PipeTypes, CallsRight, AtPoint, Succeeded, CbPcs
<1> QED
  BY <1>1, <1>2, <1>4, <1>5, <1>6, <1>7, <1>8

\* set_point_ref: nobody has got at the object before the pipe refers to it.
LEMMA pipe_set_point_refKeeps ==
  ASSUME IInv, NEW t \in Threads, NEW i \in Points, pipe_set_point_ref(t, i)
  PROVE  IInv'
<1> USE DEF IInv, pipe_set_point_ref, pipeVars, threadVars, history
<1>1. PipeTypes'
  BY PipeThreadsAssumption DEF PipeTypes, Pcs
<1>2. CallsRight'
  BY DEF PipeTypes, CallsRight, CbPcs, SetupPcs
<1>3. Moved(t)
  BY OneMoves DEF PipeTypes
<1>4. CountersRight'
  BY <1>3, CountsNat
  DEF PipeTypes, CallsRight, Moved, One, CountersRight, Users, Holders, DataHolders, MutexUsers,
      Succeeded, SetupPcs, CbPcs
<1>5. SetupRight'
  BY PipeThreadsAssumption
  DEF PipeTypes, CallsRight, SetupRight, Closed, NO_MUTEX, SetupPcs, MutexRight, MutexPcs
<1>6. MutexRight'
  BY PipeThreadsAssumption
  DEF PipeTypes, CallsRight, MutexRight, MutexPcs, STATUS_LEGAL_CLOSED, IsClosed, NoUser, NO_MUTEX,
      SetupPcs, SetupRight, STATUS_CLOSED
<1>7. CallbackPhase'
  BY SameCallbacks DEF PipeTypes, CallsRight, InCallbacks
<1>8. ObjectsCounted'
  <2>1. t \in Users /\ t = Creator
    BY DEF Users, CallsRight, SetupPcs
  <2>2. released[i] = 0
    BY <2>1, UserKeepsOpen
  <2>3. PointHolders(i) = {}
    BY <2>1 DEF PointHolders, AtPoint, Succeeded, SetupRight, CallsRight, CbPcs
  <2>4. \A j \in Points : PointHolders(j)' = PointHolders(j)
    BY DEF PointHolders, AtPoint, Succeeded
  <2>5. Cardinality(PointHolders(i)) = 0
    BY <2>3, FS_EmptySet
  <2>6. /\ ~p_ref[i] /\ p_ref'[i] /\ gc'[i] = gc[i] + 1 /\ UNCHANGED <<owned, released>>
        /\ \A j \in Points \ {i} : p_ref'[j] = p_ref[j] /\ gc'[j] = gc[j]
    BY DEF PipeTypes
  <2>7. ObjectCounted(i)'
    BY <2>2, <2>4, <2>5, <2>6 DEF ObjectsCounted, ObjectCounted
  <2>8. ASSUME NEW j \in Points \ {i} PROVE ObjectCounted(j)'
    BY <2>4, <2>6 DEF ObjectsCounted, ObjectCounted
  <2> QED
    BY <2>7, <2>8 DEF ObjectsCounted
<1> QED
  BY <1>1, <1>2, <1>4, <1>5, <1>6, <1>7, <1>8

\* ref_inc: a thread with a reference keeps the pipe alive for another one.
LEMMA pipe_ref_incKeeps ==
  ASSUME IInv, NEW t \in Threads, NEW u \in Threads, pipe_ref_inc(t, u)
  PROVE  IInv'
<1> USE DEF IInv, pipe_ref_inc, pointVars, history
<1>1. PipeTypes'
  BY PipeThreadsAssumption DEF PipeTypes, Pcs
<1>2. CallsRight'
  BY DEF PipeTypes, CallsRight, CbPcs, SetupPcs
<1>3. Moved(u)
  BY OneMoves DEF PipeTypes
<1>4. CountersRight'
  <2>1. /\ u \notin Users /\ u \notin Users'
        /\ u \notin Holders /\ u \in Holders'
        /\ u \notin DataHolders /\ u \notin DataHolders'
        /\ u \notin MutexUsers /\ u \notin MutexUsers'
    BY DEF PipeTypes, CallsRight, Users, Holders, DataHolders, MutexUsers, Succeeded, CbPcs
  <2>2. t \in Holders
    BY DEF Holders
  <2> QED
    BY <1>3, <2>1, <2>2, CountsNat, SomebodyCounts DEF Moved, One, CountersRight, PipeTypes
<1>5. SetupRight'
  BY PipeThreadsAssumption
  DEF PipeTypes, CallsRight, SetupRight, Closed, NO_MUTEX, SetupPcs, MutexRight, MutexPcs
<1>6. MutexRight'
  BY PipeThreadsAssumption
  DEF PipeTypes, CallsRight, MutexRight, MutexPcs, STATUS_LEGAL_CLOSED, IsClosed, NoUser, NO_MUTEX,
      SetupPcs, SetupRight, STATUS_CLOSED
<1>7. CallbackPhase'
  BY SameCallbacks DEF PipeTypes, CallsRight, InCallbacks
<1>8. ObjectsCounted'
  BY SameObjects DEF PipeTypes, CallsRight, AtPoint, Succeeded, CbPcs
<1> QED
  BY <1>1, <1>2, <1>4, <1>5, <1>6, <1>7, <1>8

\* The reference of the owner is one of those that are counted.
LEMMA OwnerDropsKeeps ==
  ASSUME IInv, NEW i \in Points, OwnerDrops(i)
  PROVE  IInv'
<1> USE DEF IInv, OwnerDrops, pipeVars, threadVars, history
<1>1. PipeTypes'
  BY PipeThreadsAssumption DEF PipeTypes, Pcs
<1>2. CallsRight'
  BY DEF PipeTypes, CallsRight, CbPcs, SetupPcs
<1>3. Moved(Creator)
  BY OneMoves, PipeThreadsAssumption
<1>4. CountersRight'
  BY <1>3, CountsNat
  DEF PipeTypes, CallsRight, Moved, One, CountersRight, Users, Holders, DataHolders, MutexUsers,
      Succeeded, SetupPcs, CbPcs
<1>5. SetupRight'
  BY PipeThreadsAssumption
  DEF PipeTypes, CallsRight, SetupRight, Closed, NO_MUTEX, SetupPcs, MutexRight, MutexPcs
<1>6. MutexRight'
  BY PipeThreadsAssumption
  DEF PipeTypes, CallsRight, MutexRight, MutexPcs, STATUS_LEGAL_CLOSED, IsClosed, NoUser, NO_MUTEX,
      SetupPcs, SetupRight, STATUS_CLOSED
<1>7. CallbackPhase'
  BY SameCallbacks DEF PipeTypes, CallsRight, InCallbacks
<1>8. ObjectsCounted'
  <2>1. \A j \in Points : PointHolders(j)' = PointHolders(j)
    BY DEF PointHolders, AtPoint, Succeeded
  <2>2. /\ p_ref[i] /\ owned[i] /\ ~owned'[i] /\ gc'[i] = gc[i] - 1 /\ UNCHANGED <<p_ref, released>>
        /\ \A j \in Points \ {i} : owned'[j] = owned[j] /\ gc'[j] = gc[j]
    BY DEF PipeTypes
  <2>3. ObjectCounted(i)'
    BY <2>1, <2>2, CountsNat DEF ObjectsCounted, ObjectCounted
  <2>4. ASSUME NEW j \in Points \ {i} PROVE ObjectCounted(j)'
    BY <2>1, <2>2 DEF ObjectsCounted, ObjectCounted
  <2> QED
    BY <2>3, <2>4 DEF ObjectsCounted
<1> QED
  BY <1>1, <1>2, <1>4, <1>5, <1>6, <1>7, <1>8

\* pipe_close: the thread that closes a pipe without users owes the callbacks.
LEMMA CloseCasKeeps ==
  ASSUME IInv, NEW t \in Threads, CloseCas(t)
  PROVE  IInv'
<1> USE DEF IInv, CloseCas, GotoOrReturn, Goto, pointVars, history, Closed, NobodyInside
<1>a. /\ pc[t] = "close" /\ cont[t] \in {"idle", "i_unlock"}
      /\ cont[t] = "i_unlock" => t \in Users
  BY DEF PipeTypes, CallsRight, CbPcs, Users
<1>b. cont[t] = "i_unlock" => status.useing > 0
  BY <1>a, UserKeepsOpen
<1>1. PipeTypes'
  BY PipeThreadsAssumption DEF PipeTypes, Pcs
<1>2. CallsRight'
  BY <1>a, <1>b DEF PipeTypes, CallsRight, CbPcs, SetupPcs
<1>3. Moved(t)
  BY OneMoves DEF PipeTypes
<1>4. CountersRight'
  <2>1. /\ t \in Users <=> t \in Users'
        /\ t \in Holders /\ t \in Holders'
        /\ t \notin DataHolders /\ t \notin DataHolders'
        /\ t \notin MutexUsers /\ t \notin MutexUsers'
    BY <1>a, <1>b DEF PipeTypes, Users, Holders, DataHolders, MutexUsers, Succeeded
  <2>2. status'.useing = status.useing
    BY DEF PipeTypes
  <2> QED
    BY <1>3, <2>1, <2>2, CountsNat DEF Moved, One, CountersRight, PipeTypes
<1>5. SetupRight'
  <2>1. pc'[t] \in {"cb_notify", "idle", "i_unlock"} /\ cont'[t] # "got"
    BY <1>a DEF PipeTypes
  <2>2. \A u \in Threads \ {t} : pc'[u] = pc[u] /\ cont'[u] = cont[u]
    BY DEF PipeTypes
  <2>3. Closed' /\ status'.ready = status.ready
    BY DEF PipeTypes
  <2> QED
    BY PipeThreadsAssumption, <1>a, <2>1, <2>2, <2>3 DEF SetupRight
<1>6. MutexRight'
  BY PipeThreadsAssumption
  DEF PipeTypes, CallsRight, MutexRight, MutexPcs, STATUS_LEGAL_CLOSED, IsClosed, NoUser, NO_MUTEX,
      SetupPcs, SetupRight, STATUS_CLOSED
<1>7. CallbackPhase'
  <2>1. \A u \in Threads \ {t} : pc'[u] = pc[u]
    BY DEF PipeTypes
  <2>2. UNCHANGED <<side, closing, notified, released>>
    OBVIOUS
  <2>3. CASE Closed
    <3>1. pc'[t] \in {"idle", "i_unlock"} /\ status' = status
      BY <1>a, <2>3 DEF PipeTypes
    <3> QED
      BY SameCallbacks, <1>a, <2>1, <2>2, <3>1 DEF InCallbacks
  <2>4. CASE ~Closed
    <3>1. status'.closed = {side[t]} /\ status'.useing = status.useing /\ Closed'
      BY <2>4 DEF PipeTypes
    <3>2. closing = 0 /\ \A u \in Threads : ~InCallbacks(u)
      BY <2>4 DEF CallbackPhase
    <3>3. pc'[t] = IF status.useing = 0 THEN "cb_notify" ELSE cont[t]
      BY <2>4 DEF PipeTypes
    <3> QED
      BY <1>a, <2>1, <2>2, <3>1, <3>2, <3>3 DEF CallbackPhase, InCallbacks
  <2> QED
    BY <2>3, <2>4
<1>8. ObjectsCounted'
  BY SameObjects DEF PipeTypes, CallsRight, AtPoint, Succeeded, CbPcs
<1> QED
  BY <1>1, <1>2, <1>4, <1>5, <1>6, <1>7, <1>8

\* pipe_useing_ref_dec: the last one out of a closed pipe owes the callbacks.
LEMMA UseingDecKeeps ==
  ASSUME IInv, NEW t \in Threads, UseingDec(t)
  PROVE  IInv'
<1> USE DEF IInv, UseingDec, GotoOrReturn, Goto, pointVars, history, Closed, LastOneOut
<1>1. PipeTypes'
  BY PipeThreadsAssumption DEF PipeTypes, Pcs
<1>2. CallsRight'
  BY DEF PipeTypes, CallsRight, CbPcs, SetupPcs
<1>3. Moved(t)
  BY OneMoves DEF PipeTypes
<1>4. CountersRight'
  BY <1>3, CountsNat
  DEF PipeTypes, CallsRight, Moved, One, CountersRight, Users, Holders, DataHolders, MutexUsers,
      Succeeded, SetupPcs, CbPcs
<1>5. SetupRight'
  BY PipeThreadsAssumption
  DEF PipeTypes, CallsRight, SetupRight, NO_MUTEX, SetupPcs, MutexRight, MutexPcs
<1>6. MutexRight'
  BY PipeThreadsAssumption
  DEF PipeTypes, CallsRight, MutexRight, MutexPcs, STATUS_LEGAL_CLOSED, IsClosed, NoUser, NO_MUTEX,
      SetupPcs, SetupRight, STATUS_CLOSED
<1>7. CallbackPhase'
  <2>1. t \in Users
    BY DEF Users
  <2>2. /\ status.useing > 0 /\ closing = 0 /\ \A u \in Threads : ~InCallbacks(u)
    BY <2>1, UserKeepsOpen
  <2>3. status'.closed = status.closed /\ status'.useing = status.useing - 1
    BY DEF PipeTypes
  <2>4. /\ \A u \in Threads \ {t} : pc'[u] = pc[u]
        /\ IF Closed /\ status.useing = 1 THEN pc'[t] = "cb_notify" ELSE pc'[t] \in {"idle", "got"}
    BY DEF PipeTypes, CallsRight
  <2> QED
    BY <2>2, <2>3, <2>4 DEF CallbackPhase, InCallbacks, PipeTypes
<1>8. ObjectsCounted'
  BY SameObjects DEF PipeTypes, CallsRight, AtPoint, Succeeded, CbPcs
<1> QED
  BY <1>1, <1>2, <1>4, <1>5, <1>6, <1>7, <1>8

\* The listener is told once: the callbacks have not been started before.
LEMMA CbNotifyKeeps ==
  ASSUME IInv, NEW t \in Threads, CbNotify(t)
  PROVE  IInv'
<1> USE DEF IInv, CbNotify, Goto, pipeVars, pointVars
<1>1. PipeTypes'
  BY PipeThreadsAssumption DEF PipeTypes, Pcs
<1>2. CallsRight'
  BY DEF PipeTypes, CallsRight, CbPcs, SetupPcs
<1>3. Moved(t)
  BY OneMoves DEF PipeTypes
<1>4. CountersRight'
  BY <1>3, CountsNat
  DEF PipeTypes, CallsRight, Moved, One, CountersRight, Users, Holders, DataHolders, MutexUsers,
      Succeeded, SetupPcs, CbPcs
<1>5. SetupRight'
  BY PipeThreadsAssumption
  DEF PipeTypes, CallsRight, SetupRight, Closed, NO_MUTEX, SetupPcs, MutexRight, MutexPcs
<1>6. MutexRight'
  BY PipeThreadsAssumption
  DEF PipeTypes, CallsRight, MutexRight, MutexPcs, STATUS_LEGAL_CLOSED, IsClosed, NoUser, NO_MUTEX,
      SetupPcs, SetupRight, STATUS_CLOSED
<1>7. CallbackPhase'
  <2>1. closing = 0 /\ \A i \in Points : notified[i] = 0 /\ released[i] = 0
    BY DEF CallbackPhase
  <2>2. closing' = 1 /\ \A i \in Points : notified'[i] \in {0, 1} /\ (i \in status.closed =>
     notified'[i] = 0)
    BY <2>1
  <2>3. pc[t] = "cb_notify" /\ pc'[t] = "cb_own" /\ \A u \in Threads \ {t} : pc'[u] = pc[u]
    BY DEF PipeTypes
  <2> QED
    BY <2>1, <2>2, <2>3 DEF CallbackPhase, InCallbacks, Closed
<1>8. ObjectsCounted'
  BY SameObjects DEF PipeTypes, CallsRight, AtPoint, Succeeded, CbPcs
<1> QED
  BY <1>1, <1>2, <1>4, <1>5, <1>6, <1>7, <1>8

\* The object of the point that was closed is given up once ...
LEMMA CbReleaseOwnKeeps ==
  ASSUME IInv, NEW t \in Threads, CbReleaseOwn(t)
  PROVE  IInv'
<1> USE DEF IInv, CbReleaseOwn, GotoOrReturn, Goto, ReleasePoint, pipeVars
<1>a. /\ pc[t] = "cb_own" /\ pc' = [pc EXCEPT ![t] = "cb_other"] /\ cont' = cont
      /\ side[t] \in Points /\ side' = side
  BY DEF PipeTypes
<1>r. released[side[t]] = 0
  BY <1>a DEF CallbackPhase
<1>b. /\ released' = [released EXCEPT ![side[t]] = 1]
      /\ gc' = IF p_ref[side[t]] THEN [gc EXCEPT ![side[t]] = @ - 1] ELSE gc
  BY <1>a, <1>r DEF PipeTypes
<1>1. PipeTypes'
  BY PipeThreadsAssumption DEF PipeTypes, Pcs
<1>2. CallsRight'
  BY DEF PipeTypes, CallsRight, CbPcs, SetupPcs
<1>3. Moved(t)
  BY OneMoves DEF PipeTypes
<1>4. CountersRight'
  BY <1>3, CountsNat
  DEF PipeTypes, CallsRight, Moved, One, CountersRight, Users, Holders, DataHolders, MutexUsers,
      Succeeded, SetupPcs, CbPcs
<1>5. SetupRight'
  BY PipeThreadsAssumption
  DEF PipeTypes, CallsRight, SetupRight, Closed, NO_MUTEX, SetupPcs, MutexRight, MutexPcs
<1>6. MutexRight'
  BY PipeThreadsAssumption
  DEF PipeTypes, CallsRight, MutexRight, MutexPcs, STATUS_LEGAL_CLOSED, IsClosed, NoUser, NO_MUTEX,
      SetupPcs, SetupRight, STATUS_CLOSED
<1>7. CallbackPhase'
  BY <1>a, <1>b, <1>r DEF CallbackPhase, InCallbacks, Closed, PipeTypes, Points, Other
<1>8. ObjectsCounted'
  <2>1. \A i \in Points : PointHolders(i)' = PointHolders(i)
    BY <1>a DEF PointHolders, AtPoint, Succeeded, PipeTypes
  <2>2. UNCHANGED <<p_ref, owned>>
    OBVIOUS
  <2>3. ASSUME NEW i \in Points PROVE ObjectCounted(i)'
    BY <1>a, <1>b, <1>r, <2>1, <2>2, CountsNat DEF ObjectsCounted, ObjectCounted, PipeTypes
  <2> QED
    BY <2>3 DEF ObjectsCounted
<1> QED
  BY <1>1, <1>2, <1>4, <1>5, <1>6, <1>7, <1>8

\* ... and so is the other one, with which the callbacks end.
LEMMA CbReleaseOtherKeeps ==
  ASSUME IInv, NEW t \in Threads, CbReleaseOther(t)
  PROVE  IInv'
<1> USE DEF IInv, CbReleaseOther, GotoOrReturn, Goto, ReleasePoint, pipeVars
<1>a. /\ pc[t] = "cb_other" /\ pc' = [pc EXCEPT ![t] = cont[t]]
      /\ cont' = [cont EXCEPT ![t] = "idle"]
      /\ side[t] \in Points /\ side' = side /\ Other(side[t]) \in Points /\ Other(side[t]) # side[t]
      /\ cont[t] \in {"idle", "got"}
  BY DEF PipeTypes, Points, Other, CallsRight
<1>r. released[Other(side[t])] = 0 /\ released[side[t]] = 1 /\ closing = 1
  BY <1>a DEF CallbackPhase
<1>b. /\ released' = [released EXCEPT ![Other(side[t])] = 1]
      /\ gc' = IF p_ref[Other(side[t])] THEN [gc EXCEPT ![Other(side[t])] = @ - 1] ELSE gc
  BY <1>a, <1>r DEF PipeTypes
<1>1. PipeTypes'
  BY <1>a, <1>b, <1>r DEF PipeTypes, Pcs
<1>2. CallsRight'
  BY DEF PipeTypes, CallsRight, CbPcs, SetupPcs
<1>3. Moved(t)
  BY OneMoves DEF PipeTypes
<1>4. CountersRight'
  BY <1>3, CountsNat
  DEF PipeTypes, CallsRight, Moved, One, CountersRight, Users, Holders, DataHolders, MutexUsers,
      Succeeded, SetupPcs, CbPcs
<1>5. SetupRight'
  BY PipeThreadsAssumption
  DEF PipeTypes, CallsRight, SetupRight, Closed, NO_MUTEX, SetupPcs, MutexRight, MutexPcs
<1>6. MutexRight'
  BY PipeThreadsAssumption
  DEF PipeTypes, CallsRight, MutexRight, MutexPcs, STATUS_LEGAL_CLOSED, IsClosed, NoUser, NO_MUTEX,
      SetupPcs, SetupRight, STATUS_CLOSED
<1>7. CallbackPhase'
  <2>1. \A i \in Points : released'[i] = 1
    BY <1>a, <1>b, <1>r DEF PipeTypes, Points, Other
  <2>2. \A u \in Threads : ~InCallbacks(u)'
    BY <1>a DEF CallbackPhase, InCallbacks, PipeTypes
  <2> QED
    BY <1>a, <1>b, <1>r, <2>1, <2>2 DEF CallbackPhase, InCallbacks, Closed
<1>8. ObjectsCounted'
  <2>1. \A i \in Points : PointHolders(i)' = PointHolders(i)
    BY <1>a DEF PointHolders, AtPoint, Succeeded, PipeTypes
  <2>2. UNCHANGED <<p_ref, owned>>
    OBVIOUS
  <2>3. ASSUME NEW i \in Points PROVE ObjectCounted(i)'
    BY <1>a, <1>b, <1>r, <2>1, <2>2, CountsNat DEF ObjectsCounted, ObjectCounted, PipeTypes
  <2> QED
    BY <2>3 DEF ObjectsCounted
<1> QED
  BY <1>1, <1>2, <1>4, <1>5, <1>6, <1>7, <1>8

\* A call of pipe_close begins.
LEMMA pipe_closeKeeps ==
  ASSUME IInv, NEW t \in Threads, pipe_close(t)
  PROVE  IInv'
<1> USE DEF IInv, pipe_close, Goto, Call, pipeVars, pointVars, history
<1>1. PipeTypes'
  BY PipeThreadsAssumption DEF PipeTypes, Pcs
<1>2. CallsRight'
  BY DEF PipeTypes, CallsRight, CbPcs, SetupPcs
<1>3. Moved(t)
  BY OneMoves DEF PipeTypes
<1>4. CountersRight'
  BY <1>3, CountsNat
  DEF PipeTypes, CallsRight, Moved, One, CountersRight, Users, Holders, DataHolders, MutexUsers,
      Succeeded, SetupPcs, CbPcs
<1>5. SetupRight'
  BY PipeThreadsAssumption
  DEF PipeTypes, CallsRight, SetupRight, Closed, NO_MUTEX, SetupPcs, MutexRight, MutexPcs
<1>6. MutexRight'
  BY PipeThreadsAssumption
  DEF PipeTypes, CallsRight, MutexRight, MutexPcs, STATUS_LEGAL_CLOSED, IsClosed, NoUser, NO_MUTEX,
      SetupPcs, SetupRight, STATUS_CLOSED
<1>7. CallbackPhase'
  BY SameCallbacks DEF PipeTypes, CallsRight, InCallbacks
<1>8. ObjectsCounted'
  BY SameObjects DEF PipeTypes, CallsRight, AtPoint, Succeeded, CbPcs
<1> QED
  BY <1>1, <1>2, <1>4, <1>5, <1>6, <1>7, <1>8

\* pipe_init_done, and with it the set-up, goes on in one of two ways.
LEMMA pipe_init_doneKeeps ==
  ASSUME IInv, NEW t \in Threads, NEW is_fail \in BOOLEAN, pipe_init_done(t, is_fail)
  PROVE  IInv'
<1> USE DEF IInv, pipe_init_done, Call, Goto, pipeVars, pointVars, history
<1>1. PipeTypes'
  BY PipeThreadsAssumption DEF PipeTypes, Pcs
<1>2. CallsRight'
  BY DEF PipeTypes, CallsRight, CbPcs, SetupPcs
<1>3. Moved(t)
  BY OneMoves DEF PipeTypes
<1>4. CountersRight'
  BY <1>3, CountsNat
  DEF PipeTypes, CallsRight, Moved, One, CountersRight, Users, Holders, DataHolders, MutexUsers,
      Succeeded, SetupPcs, CbPcs
<1>5. SetupRight'
  BY PipeThreadsAssumption
  DEF PipeTypes, CallsRight, SetupRight, Closed, NO_MUTEX, SetupPcs, MutexRight, MutexPcs
<1>6. MutexRight'
  BY PipeThreadsAssumption
  DEF PipeTypes, CallsRight, MutexRight, MutexPcs, STATUS_LEGAL_CLOSED, IsClosed, NoUser, NO_MUTEX,
      SetupPcs, SetupRight, STATUS_CLOSED
<1>7. CallbackPhase'
  BY SameCallbacks DEF PipeTypes, CallsRight, InCallbacks
<1>8. ObjectsCounted'
  BY SameObjects DEF PipeTypes, CallsRight, AtPoint, Succeeded, CbPcs
<1> QED
  BY <1>1, <1>2, <1>4, <1>5, <1>6, <1>7, <1>8

\* pipe_init_done: the pipe is ready.
LEMMA InitReadyKeeps ==
  ASSUME IInv, NEW t \in Threads, InitReady(t)
  PROVE  IInv'
<1> USE DEF IInv, InitReady, Goto, pointVars, history
<1>1. PipeTypes'
  BY PipeThreadsAssumption DEF PipeTypes, Pcs
<1>2. CallsRight'
  BY DEF PipeTypes, CallsRight, CbPcs, SetupPcs
<1>3. Moved(t)
  BY OneMoves DEF PipeTypes
<1>4. CountersRight'
  BY <1>3, CountsNat
  DEF PipeTypes, CallsRight, Moved, One, CountersRight, Users, Holders, DataHolders, MutexUsers,
      Succeeded, SetupPcs, CbPcs
<1>5. SetupRight'
  BY PipeThreadsAssumption
  DEF PipeTypes, CallsRight, SetupRight, Closed, NO_MUTEX, SetupPcs, MutexRight, MutexPcs
<1>6. MutexRight'
  BY PipeThreadsAssumption
  DEF PipeTypes, CallsRight, MutexRight, MutexPcs, STATUS_LEGAL_CLOSED, IsClosed, NoUser, NO_MUTEX,
      SetupPcs, SetupRight, STATUS_CLOSED
<1>7. CallbackPhase'
  BY SameCallbacks DEF PipeTypes, CallsRight, InCallbacks
<1>8. ObjectsCounted'
  BY SameObjects DEF PipeTypes, CallsRight, AtPoint, Succeeded, CbPcs
<1> QED
  BY <1>1, <1>2, <1>4, <1>5, <1>6, <1>7, <1>8

\* pipe_init_done: the waiters may go; the mutex is not destroyed yet.
LEMMA InitUnlockKeeps ==
  ASSUME IInv, NEW t \in Threads, InitUnlock(t)
  PROVE  IInv'
<1> USE DEF IInv, InitUnlock, Goto, Call, pointVars, history
<1>1. PipeTypes'
  BY PipeThreadsAssumption DEF PipeTypes, Pcs
<1>2. CallsRight'
  BY DEF PipeTypes, CallsRight, CbPcs, SetupPcs
<1>3. Moved(t)
  BY OneMoves DEF PipeTypes
<1>4. CountersRight'
  BY <1>3, CountsNat
  DEF PipeTypes, CallsRight, Moved, One, CountersRight, Users, Holders, DataHolders, MutexUsers,
      Succeeded, SetupPcs, CbPcs
<1>5. SetupRight'
  BY PipeThreadsAssumption
  DEF PipeTypes, CallsRight, SetupRight, Closed, NO_MUTEX, SetupPcs, MutexRight, MutexPcs
<1>6. MutexRight'
  BY PipeThreadsAssumption
  DEF PipeTypes, CallsRight, MutexRight, MutexPcs, STATUS_LEGAL_CLOSED, IsClosed, NoUser, NO_MUTEX,
      SetupPcs, SetupRight, STATUS_CLOSED
<1>7. CallbackPhase'
  BY SameCallbacks DEF PipeTypes, CallsRight, InCallbacks
<1>8. ObjectsCounted'
  BY SameObjects DEF PipeTypes, CallsRight, AtPoint, Succeeded, CbPcs
<1> QED
  BY <1>1, <1>2, <1>4, <1>5, <1>6, <1>7, <1>8

\* pipe_init_done: the mutex is closed, and deleted here if nobody uses it.
LEMMA InitMutexCloseKeeps ==
  ASSUME IInv, NEW t \in Threads, InitMutexClose(t)
  PROVE  IInv'
<1> USE DEF IInv, InitMutexClose, Goto, pointVars, history, IsClosed, NoUser, MarkClosed
<1>1. PipeTypes'
  BY PipeThreadsAssumption DEF PipeTypes, Pcs
<1>2. CallsRight'
  BY DEF PipeTypes, CallsRight, CbPcs, SetupPcs
<1>3. Moved(t)
  BY OneMoves DEF PipeTypes
<1>4. CountersRight'
  BY <1>3, CountsNat
  DEF PipeTypes, CallsRight, Moved, One, CountersRight, Users, Holders, DataHolders, MutexUsers,
      Succeeded, SetupPcs, CbPcs
<1>5. SetupRight'
  BY PipeThreadsAssumption
  DEF PipeTypes, CallsRight, SetupRight, Closed, NO_MUTEX, SetupPcs, MutexRight, MutexPcs
<1>6. MutexRight'
  BY PipeThreadsAssumption
  DEF PipeTypes, CallsRight, MutexRight, MutexPcs, STATUS_LEGAL_CLOSED, NO_MUTEX, SetupPcs,
      SetupRight, STATUS_CLOSED
<1>7. CallbackPhase'
  BY SameCallbacks DEF PipeTypes, CallsRight, InCallbacks
<1>8. ObjectsCounted'
  BY SameObjects DEF PipeTypes, CallsRight, AtPoint, Succeeded, CbPcs
<1> QED
  BY <1>1, <1>2, <1>4, <1>5, <1>6, <1>7, <1>8

\* The mutex is destroyed by the one thread that has to.
LEMMA MutexDelKeeps ==
  ASSUME IInv, NEW t \in Threads, MutexDel(t)
  PROVE  IInv'
<1> USE DEF IInv, MutexDel, Goto, pointVars, history
<1>1. PipeTypes'
  BY PipeThreadsAssumption DEF PipeTypes, Pcs
<1>2. CallsRight'
  BY DEF PipeTypes, CallsRight, CbPcs, SetupPcs
<1>3. Moved(t)
  BY OneMoves DEF PipeTypes
<1>4. CountersRight'
  BY <1>3, CountsNat
  DEF PipeTypes, CallsRight, Moved, One, CountersRight, Users, Holders, DataHolders, MutexUsers,
      Succeeded, SetupPcs, CbPcs
<1>5. SetupRight'
  <2>1. \A u \in Threads \ {t} : pc'[u] = pc[u]
    BY DEF PipeTypes
  <2>2. pc[t] \in {"i_mdel", "g_mdel"} /\ pc'[t] \in {"u_dec", "g_check"}
    BY DEF PipeTypes
  <2> QED
    BY PipeThreadsAssumption, <2>1, <2>2 DEF SetupRight, Closed
<1>6. MutexRight'
  BY PipeThreadsAssumption
  DEF PipeTypes, CallsRight, MutexRight, MutexPcs, STATUS_LEGAL_CLOSED, IsClosed, NoUser, NO_MUTEX,
      SetupPcs, SetupRight, STATUS_CLOSED
<1>7. CallbackPhase'
  BY SameCallbacks DEF PipeTypes, CallsRight, InCallbacks
<1>8. ObjectsCounted'
  BY SameObjects DEF PipeTypes, CallsRight, AtPoint, Succeeded, CbPcs
<1> QED
  BY <1>1, <1>2, <1>4, <1>5, <1>6, <1>7, <1>8

\* pipe_useing_ref_inc: nobody enters a closed pipe.
LEMMA GetEnterKeeps ==
  ASSUME IInv, NEW t \in Threads, GetEnter(t)
  PROVE  IInv'
<1> USE DEF IInv, GetEnter, Goto, pointVars, history, Refused, Closed
<1>1. PipeTypes'
  BY PipeThreadsAssumption DEF PipeTypes, Pcs
<1>2. CallsRight'
  BY DEF PipeTypes, CallsRight, CbPcs, SetupPcs
<1>3. Moved(t)
  BY OneMoves DEF PipeTypes
<1>4. CountersRight'
  BY <1>3, CountsNat
  DEF PipeTypes, CallsRight, Moved, One, CountersRight, Users, Holders, DataHolders, MutexUsers,
      Succeeded, SetupPcs, CbPcs
<1>5. SetupRight'
  BY PipeThreadsAssumption
  DEF PipeTypes, CallsRight, SetupRight, NO_MUTEX, SetupPcs, MutexRight, MutexPcs
<1>6. MutexRight'
  BY PipeThreadsAssumption
  DEF PipeTypes, CallsRight, MutexRight, MutexPcs, STATUS_LEGAL_CLOSED, IsClosed, NoUser, NO_MUTEX,
      SetupPcs, SetupRight, STATUS_CLOSED
<1>7. CallbackPhase'
  <2>1. status.useing \in Nat
    BY CountsNat DEF CountersRight
  <2> QED
    BY <2>1 DEF PipeTypes, CallbackPhase, InCallbacks
<1>8. ObjectsCounted'
  BY SameObjects DEF PipeTypes, CallsRight, AtPoint, Succeeded, CbPcs
<1> QED
  BY <1>1, <1>2, <1>4, <1>5, <1>6, <1>7, <1>8

\* pipe_get_other_point_ref reads the ready bit.
LEMMA GetReadyKeeps ==
  ASSUME IInv, NEW t \in Threads, GetReady(t)
  PROVE  IInv'
<1> USE DEF IInv, GetReady, Goto, pipeVars, pointVars, history
<1>1. PipeTypes'
  BY PipeThreadsAssumption DEF PipeTypes, Pcs
<1>2. CallsRight'
  BY DEF PipeTypes, CallsRight, CbPcs, SetupPcs
<1>3. Moved(t)
  BY OneMoves DEF PipeTypes
<1>4. CountersRight'
  BY <1>3, CountsNat
  DEF PipeTypes, CallsRight, Moved, One, CountersRight, Users, Holders, DataHolders, MutexUsers,
      Succeeded, SetupPcs, CbPcs
<1>5. SetupRight'
  BY PipeThreadsAssumption
  DEF PipeTypes, CallsRight, SetupRight, Closed, NO_MUTEX, SetupPcs, MutexRight, MutexPcs
<1>6. MutexRight'
  BY PipeThreadsAssumption
  DEF PipeTypes, CallsRight, MutexRight, MutexPcs, STATUS_LEGAL_CLOSED, IsClosed, NoUser, NO_MUTEX,
      SetupPcs, SetupRight, STATUS_CLOSED
<1>7. CallbackPhase'
  BY SameCallbacks DEF PipeTypes, CallsRight, InCallbacks
<1>8. ObjectsCounted'
  BY SameObjects DEF PipeTypes, CallsRight, AtPoint, Succeeded, CbPcs
<1> QED
  BY <1>1, <1>2, <1>4, <1>5, <1>6, <1>7, <1>8

\* A thread that finds the pipe not ready becomes a user of the mutex.
LEMMA GetMutexIncKeeps ==
  ASSUME IInv, NEW t \in Threads, GetMutexInc(t)
  PROVE  IInv'
<1> USE DEF IInv, GetMutexInc, Goto, pointVars, history, IsClosed, AddUser
<1>1. PipeTypes'
  BY PipeThreadsAssumption DEF PipeTypes, Pcs
<1>2. CallsRight'
  BY DEF PipeTypes, CallsRight, CbPcs, SetupPcs
<1>3. Moved(t)
  BY OneMoves DEF PipeTypes
<1>4. CountersRight'
  BY <1>3, CountsNat
  DEF PipeTypes, CallsRight, Moved, One, CountersRight, Users, Holders, DataHolders, MutexUsers,
      Succeeded, SetupPcs, CbPcs
<1>5. SetupRight'
  BY PipeThreadsAssumption
  DEF PipeTypes, CallsRight, SetupRight, Closed, NO_MUTEX, SetupPcs, MutexRight, MutexPcs
<1>6. MutexRight'
  BY PipeThreadsAssumption
  DEF PipeTypes, CallsRight, MutexRight, MutexPcs, STATUS_LEGAL_CLOSED, NoUser, NO_MUTEX, SetupPcs,
      SetupRight, STATUS_CLOSED
<1>7. CallbackPhase'
  BY SameCallbacks DEF PipeTypes, CallsRight, InCallbacks
<1>8. ObjectsCounted'
  BY SameObjects DEF PipeTypes, CallsRight, AtPoint, Succeeded, CbPcs
<1> QED
  BY <1>1, <1>2, <1>4, <1>5, <1>6, <1>7, <1>8

\* It waits for the set-up ...
LEMMA GetLockKeeps ==
  ASSUME IInv, NEW t \in Threads, GetLock(t)
  PROVE  IInv'
<1> USE DEF IInv, GetLock, Goto, pointVars, history
<1>1. PipeTypes'
  BY PipeThreadsAssumption DEF PipeTypes, Pcs
<1>2. CallsRight'
  BY DEF PipeTypes, CallsRight, CbPcs, SetupPcs
<1>3. Moved(t)
  BY OneMoves DEF PipeTypes
<1>4. CountersRight'
  BY <1>3, CountsNat
  DEF PipeTypes, CallsRight, Moved, One, CountersRight, Users, Holders, DataHolders, MutexUsers,
      Succeeded, SetupPcs, CbPcs
<1>5. SetupRight'
  BY PipeThreadsAssumption
  DEF PipeTypes, CallsRight, SetupRight, Closed, NO_MUTEX, SetupPcs, MutexRight, MutexPcs
<1>6. MutexRight'
  BY PipeThreadsAssumption
  DEF PipeTypes, CallsRight, MutexRight, MutexPcs, STATUS_LEGAL_CLOSED, IsClosed, NoUser, NO_MUTEX,
      SetupPcs, SetupRight, STATUS_CLOSED
<1>7. CallbackPhase'
  BY SameCallbacks DEF PipeTypes, CallsRight, InCallbacks
<1>8. ObjectsCounted'
  BY SameObjects DEF PipeTypes, CallsRight, AtPoint, Succeeded, CbPcs
<1> QED
  BY <1>1, <1>2, <1>4, <1>5, <1>6, <1>7, <1>8

\* ... and goes on.
LEMMA GetUnlockKeeps ==
  ASSUME IInv, NEW t \in Threads, GetUnlock(t)
  PROVE  IInv'
<1> USE DEF IInv, GetUnlock, Goto, pointVars, history
<1>1. PipeTypes'
  BY PipeThreadsAssumption DEF PipeTypes, Pcs
<1>2. CallsRight'
  BY DEF PipeTypes, CallsRight, CbPcs, SetupPcs
<1>3. Moved(t)
  BY OneMoves DEF PipeTypes
<1>4. CountersRight'
  BY <1>3, CountsNat
  DEF PipeTypes, CallsRight, Moved, One, CountersRight, Users, Holders, DataHolders, MutexUsers,
      Succeeded, SetupPcs, CbPcs
<1>5. SetupRight'
  BY PipeThreadsAssumption
  DEF PipeTypes, CallsRight, SetupRight, Closed, NO_MUTEX, SetupPcs, MutexRight, MutexPcs
<1>6. MutexRight'
  BY PipeThreadsAssumption
  DEF PipeTypes, CallsRight, MutexRight, MutexPcs, STATUS_LEGAL_CLOSED, IsClosed, NoUser, NO_MUTEX,
      SetupPcs, SetupRight, STATUS_CLOSED
<1>7. CallbackPhase'
  BY SameCallbacks DEF PipeTypes, CallsRight, InCallbacks
<1>8. ObjectsCounted'
  BY SameObjects DEF PipeTypes, CallsRight, AtPoint, Succeeded, CbPcs
<1> QED
  BY <1>1, <1>2, <1>4, <1>5, <1>6, <1>7, <1>8

\* The last user of the closed mutex is the one that deletes it.
LEMMA GetMutexDecKeeps ==
  ASSUME IInv, NEW t \in Threads, GetMutexDec(t)
  PROVE  IInv'
<1> USE DEF IInv, GetMutexDec, Goto, pointVars, history, SubUser, STATUS_LEGAL_CLOSED, IsClosed,
   NoUser
<1>1. PipeTypes'
  BY PipeThreadsAssumption DEF PipeTypes, Pcs
<1>2. CallsRight'
  BY DEF PipeTypes, CallsRight, CbPcs, SetupPcs
<1>3. Moved(t)
  BY OneMoves DEF PipeTypes
<1>4. CountersRight'
  BY <1>3, CountsNat
  DEF PipeTypes, CallsRight, Moved, One, CountersRight, Users, Holders, DataHolders, MutexUsers,
      Succeeded, SetupPcs, CbPcs
<1>5. SetupRight'
  BY PipeThreadsAssumption
  DEF PipeTypes, CallsRight, SetupRight, Closed, NO_MUTEX, SetupPcs, MutexRight, MutexPcs
<1>6. MutexRight'
  <2>1. t \in MutexUsers
    BY DEF MutexUsers
  <2>2. mutex_status.n > 0
    BY <2>1, CountsNat, FS_EmptySet DEF CountersRight
  <2>3. pipe_mutex # "destroyed" /\ \A u \in Threads : pc[u] \notin {"i_mdel", "g_mdel"}
    BY <2>2 DEF MutexRight
  <2> QED
    BY <2>3, PipeThreadsAssumption
    DEF PipeTypes, CallsRight, MutexRight, MutexPcs, NO_MUTEX
<1>7. CallbackPhase'
  BY SameCallbacks DEF PipeTypes, CallsRight, InCallbacks
<1>8. ObjectsCounted'
  BY SameObjects DEF PipeTypes, CallsRight, AtPoint, Succeeded, CbPcs
<1> QED
  BY <1>1, <1>2, <1>4, <1>5, <1>6, <1>7, <1>8

\* Only a pipe that is ready and open is used.
LEMMA GetCheckKeeps ==
  ASSUME IInv, NEW t \in Threads, GetCheck(t)
  PROVE  IInv'
<1> USE DEF IInv, GetCheck, Goto, Call, pipeVars, pointVars, history, Closed
<1>1. PipeTypes'
  BY PipeThreadsAssumption DEF PipeTypes, Pcs
<1>2. CallsRight'
  BY DEF PipeTypes, CallsRight, CbPcs, SetupPcs
<1>3. Moved(t)
  BY OneMoves DEF PipeTypes
<1>4. CountersRight'
  BY <1>3, CountsNat
  DEF PipeTypes, CallsRight, Moved, One, CountersRight, Users, Holders, DataHolders, MutexUsers,
      Succeeded, SetupPcs, CbPcs
<1>5. SetupRight'
  <2>1. status.ready \/ (pc'[t] = "u_dec" /\ cont'[t] = "idle")
    BY DEF PipeTypes
  <2>2. \A u \in Threads \ {t} : pc'[u] = pc[u] /\ cont'[u] = cont[u]
    BY DEF PipeTypes
  <2>3. pc[t] = "g_check" /\ pc'[t] \in {"u_dec", "g_ref"}
    BY DEF PipeTypes
  <2> QED
    BY PipeThreadsAssumption, <2>1, <2>2, <2>3 DEF SetupRight
<1>6. MutexRight'
  BY PipeThreadsAssumption
  DEF PipeTypes, CallsRight, MutexRight, MutexPcs, STATUS_LEGAL_CLOSED, IsClosed, NoUser, NO_MUTEX,
      SetupPcs, SetupRight, STATUS_CLOSED
<1>7. CallbackPhase'
  BY SameCallbacks DEF PipeTypes, CallsRight, InCallbacks
<1>8. ObjectsCounted'
  BY SameObjects DEF PipeTypes, CallsRight, AtPoint, Succeeded, CbPcs
<1> QED
  BY <1>1, <1>2, <1>4, <1>5, <1>6, <1>7, <1>8

\* The caller gets a reference to the object of the other point ...
LEMMA GetPointRefKeeps ==
  ASSUME IInv, NEW t \in Threads, GetPointRef(t)
  PROVE  IInv'
<1> USE DEF IInv, GetPointRef, Goto, pipeVars, history
<1>1. PipeTypes'
  BY PipeThreadsAssumption DEF PipeTypes, Pcs
<1>2. CallsRight'
  BY DEF PipeTypes, CallsRight, CbPcs, SetupPcs
<1>3. Moved(t)
  BY OneMoves DEF PipeTypes
<1>4. CountersRight'
  BY <1>3, CountsNat
  DEF PipeTypes, CallsRight, Moved, One, CountersRight, Users, Holders, DataHolders, MutexUsers,
      Succeeded, SetupPcs, CbPcs
<1>5. SetupRight'
  BY PipeThreadsAssumption
  DEF PipeTypes, CallsRight, SetupRight, Closed, NO_MUTEX, SetupPcs, MutexRight, MutexPcs
<1>6. MutexRight'
  BY PipeThreadsAssumption
  DEF PipeTypes, CallsRight, MutexRight, MutexPcs, STATUS_LEGAL_CLOSED, IsClosed, NoUser, NO_MUTEX,
      SetupPcs, SetupRight, STATUS_CLOSED
<1>7. CallbackPhase'
  BY SameCallbacks DEF PipeTypes, CallsRight, InCallbacks
<1>8. ObjectsCounted'
  <2> SUFFICES ASSUME NEW i \in Points PROVE ObjectCounted(i)'
    BY DEF ObjectsCounted
  <2>1. t \notin PointHolders(i) /\ (t \in PointHolders(i)' <=> i = Other(side[t]))
    BY DEF PipeTypes, PointHolders, AtPoint, Succeeded
  <2>2. Cardinality(PointHolders(i)') = Cardinality(PointHolders(i)) + One(i = Other(side[t]))
    BY <1>3, <2>1, CountsNat DEF Moved, One
  <2>3. gc'[i] = gc[i] + IF i = Other(side[t]) /\ p_ref[i] THEN 1 ELSE 0
    OBVIOUS
  <2> QED
    BY <2>2, <2>3, CountsNat DEF ObjectsCounted, ObjectCounted, One, PipeTypes
<1> QED
  BY <1>1, <1>2, <1>4, <1>5, <1>6, <1>7, <1>8

\* ... and one to the pipe for its data.
LEMMA GetDataRefKeeps ==
  ASSUME IInv, NEW t \in Threads, GetDataRef(t)
  PROVE  IInv'
<1> USE DEF IInv, GetDataRef, Goto, pointVars, history
<1>1. PipeTypes'
  BY PipeThreadsAssumption DEF PipeTypes, Pcs
<1>2. CallsRight'
  BY DEF PipeTypes, CallsRight, CbPcs, SetupPcs
<1>3. Moved(t)
  BY OneMoves DEF PipeTypes
<1>4. CountersRight'
  <2>1. /\ t \in Users /\ t \in Users'
        /\ t \in Holders /\ t \in Holders'
        /\ t \notin DataHolders /\ t \in DataHolders'
        /\ t \notin MutexUsers /\ t \notin MutexUsers'
    BY DEF PipeTypes, CallsRight, Users, Holders, DataHolders, MutexUsers, Succeeded
  <2>2. /\ Cardinality(Users') = Cardinality(Users) /\ Cardinality(Holders') = Cardinality(Holders)
        /\ Cardinality(DataHolders') = Cardinality(DataHolders) + 1
        /\ Cardinality(MutexUsers') = Cardinality(MutexUsers)
    BY <1>3, <2>1, CountsNat DEF Moved, One
  <2>3. ref_num > 0
    BY <2>1, CountsNat, SomebodyCounts DEF CountersRight
  <2> QED
    BY <2>2, <2>3, CountsNat DEF Moved, One, CountersRight, PipeTypes
<1>5. SetupRight'
  BY PipeThreadsAssumption
  DEF PipeTypes, CallsRight, SetupRight, Closed, NO_MUTEX, SetupPcs, MutexRight, MutexPcs
<1>6. MutexRight'
  BY PipeThreadsAssumption
  DEF PipeTypes, CallsRight, MutexRight, MutexPcs, STATUS_LEGAL_CLOSED, IsClosed, NoUser, NO_MUTEX,
      SetupPcs, SetupRight, STATUS_CLOSED
<1>7. CallbackPhase'
  BY SameCallbacks DEF PipeTypes, CallsRight, InCallbacks
<1>8. ObjectsCounted'
  BY SameObjects DEF PipeTypes, CallsRight, AtPoint, Succeeded, CbPcs
<1> QED
  BY <1>1, <1>2, <1>4, <1>5, <1>6, <1>7, <1>8

\* The caller gives back the object ...
LEMMA PutPointKeeps ==
  ASSUME IInv, NEW t \in Threads, PutPoint(t)
  PROVE  IInv'
<1> USE DEF IInv, PutPoint, Goto, pipeVars, history
<1>1. PipeTypes'
  BY PipeThreadsAssumption DEF PipeTypes, Pcs
<1>2. CallsRight'
  BY DEF PipeTypes, CallsRight, CbPcs, SetupPcs
<1>3. Moved(t)
  BY OneMoves DEF PipeTypes
<1>4. CountersRight'
  BY <1>3, CountsNat
  DEF PipeTypes, CallsRight, Moved, One, CountersRight, Users, Holders, DataHolders, MutexUsers,
      Succeeded, SetupPcs, CbPcs
<1>5. SetupRight'
  BY PipeThreadsAssumption
  DEF PipeTypes, CallsRight, SetupRight, Closed, NO_MUTEX, SetupPcs, MutexRight, MutexPcs
<1>6. MutexRight'
  BY PipeThreadsAssumption
  DEF PipeTypes, CallsRight, MutexRight, MutexPcs, STATUS_LEGAL_CLOSED, IsClosed, NoUser, NO_MUTEX,
      SetupPcs, SetupRight, STATUS_CLOSED
<1>7. CallbackPhase'
  BY SameCallbacks DEF PipeTypes, CallsRight, InCallbacks
<1>8. ObjectsCounted'
  <2> SUFFICES ASSUME NEW i \in Points PROVE ObjectCounted(i)'
    BY DEF ObjectsCounted
  <2>1. t \notin PointHolders(i)' /\ (t \in PointHolders(i) <=> i = Other(side[t]))
    BY DEF PipeTypes, PointHolders, AtPoint, Succeeded, CallsRight, CbPcs
  <2>2. Cardinality(PointHolders(i)') = Cardinality(PointHolders(i)) - One(i = Other(side[t]))
    BY <1>3, <2>1, CountsNat DEF Moved, One
  <2>3. gc'[i] = gc[i] - IF i = Other(side[t]) /\ p_ref[i] THEN 1 ELSE 0
    OBVIOUS
  <2> QED
    BY <2>2, <2>3, CountsNat DEF ObjectsCounted, ObjectCounted, One, PipeTypes
<1> QED
  BY <1>1, <1>2, <1>4, <1>5, <1>6, <1>7, <1>8

\* ... and the data, which may be the last reference to the pipe.
LEMMA PutDataKeeps ==
  ASSUME IInv, NEW t \in Threads, PutData(t)
  PROVE  IInv'
<1> USE DEF IInv, PutData, Goto, RefDec, pointVars, history
<1>1. PipeTypes'
  BY PipeThreadsAssumption DEF PipeTypes, Pcs
<1>2. CallsRight'
  BY DEF PipeTypes, CallsRight, CbPcs, SetupPcs
<1>3. Moved(t)
  BY OneMoves DEF PipeTypes
<1>4. CountersRight'
  BY <1>3, CountsNat
  DEF PipeTypes, CallsRight, Moved, One, CountersRight, Users, Holders, DataHolders, MutexUsers,
      Succeeded, SetupPcs, CbPcs
<1>5. SetupRight'
  BY PipeThreadsAssumption
  DEF PipeTypes, CallsRight, SetupRight, Closed, NO_MUTEX, SetupPcs, MutexRight, MutexPcs
<1>6. MutexRight'
  BY PipeThreadsAssumption
  DEF PipeTypes, CallsRight, MutexRight, MutexPcs, STATUS_LEGAL_CLOSED, IsClosed, NoUser, NO_MUTEX,
      SetupPcs, SetupRight, STATUS_CLOSED
<1>7. CallbackPhase'
  BY SameCallbacks DEF PipeTypes, CallsRight, InCallbacks
<1>8. ObjectsCounted'
  BY SameObjects DEF PipeTypes, CallsRight, AtPoint, Succeeded, CbPcs
<1> QED
  BY <1>1, <1>2, <1>4, <1>5, <1>6, <1>7, <1>8

\* pipe_ref_dec: the pipe is freed with its last reference.
LEMMA pipe_ref_decKeeps ==
  ASSUME IInv, NEW t \in Threads, pipe_ref_dec(t)
  PROVE  IInv'
<1> USE DEF IInv, pipe_ref_dec, Goto, RefDec, pointVars, history
<1>1. PipeTypes'
  BY PipeThreadsAssumption DEF PipeTypes, Pcs
<1>2. CallsRight'
  BY DEF PipeTypes, CallsRight, CbPcs, SetupPcs
<1>3. Moved(t)
  BY OneMoves DEF PipeTypes
<1>4. CountersRight'
  BY <1>3, CountsNat
  DEF PipeTypes, CallsRight, Moved, One, CountersRight, Users, Holders, DataHolders, MutexUsers,
      Succeeded, SetupPcs, CbPcs
<1>5. SetupRight'
  BY PipeThreadsAssumption
  DEF PipeTypes, CallsRight, SetupRight, Closed, NO_MUTEX, SetupPcs, MutexRight, MutexPcs
<1>6. MutexRight'
  BY PipeThreadsAssumption
  DEF PipeTypes, CallsRight, MutexRight, MutexPcs, STATUS_LEGAL_CLOSED, IsClosed, NoUser, NO_MUTEX,
      SetupPcs, SetupRight, STATUS_CLOSED
<1>7. CallbackPhase'
  BY SameCallbacks DEF PipeTypes, CallsRight, InCallbacks
<1>8. ObjectsCounted'
  BY SameObjects DEF PipeTypes, CallsRight, AtPoint, Succeeded, CbPcs
<1> QED
  BY <1>1, <1>2, <1>4, <1>5, <1>6, <1>7, <1>8

-----------------------------------------------------------------------------
(* The invariant holds *)

\* The invariant holds before the pipe is created.
LEMMA InitIInv == Init => IInv
<1> SUFFICES ASSUME Init PROVE IInv
  OBVIOUS
<1>1. PipeTypes
  <2>1. side \in [Threads -> Points]
    BY DEF Init
  <2>2. pc \in [Threads -> Pcs]
    BY DEF Init, Pcs
  <2>3. /\ status \in [ready : BOOLEAN, closed : SUBSET Points, useing : Int]
        /\ mutex_status \in [st : {0, 1, STATUS_CLOSED}, n : Int]
    BY DEF Init
  <2>4. /\ p_ref \in [Points -> BOOLEAN] /\ owned \in [Points -> BOOLEAN]
        /\ gc \in [Points -> Int] /\ notified \in [Points -> Int] /\ released \in [Points -> Int]
    BY DEF Init
  <2>5. cont \in [Threads -> {"idle", "got", "i_unlock"}] /\ pipe_mutex = "none"
    BY DEF Init
  <2> QED
    BY <2>1, <2>2, <2>3, <2>4, <2>5 DEF Init, PipeTypes
<1>2. \A t \in Threads : pc[t] = "none" /\ cont[t] = "idle"
  BY DEF Init
<1>3. CallsRight
  BY <1>2 DEF CallsRight, SetupPcs
<1>4. /\ Users = {} /\ Holders = {} /\ DataHolders = {} /\ MutexUsers = {}
      /\ \A i \in Points : PointHolders(i) = {}
  BY <1>2 DEF Users, Holders, DataHolders, MutexUsers, PointHolders, AtPoint, Succeeded
<1>5. CountersRight
  BY <1>4, FS_EmptySet DEF Init, CountersRight
<1>6. SetupRight
  BY <1>2, PipeThreadsAssumption DEF Init, SetupRight, Closed
<1>7. MutexRight
  BY <1>2, PipeThreadsAssumption DEF Init, MutexRight, MutexPcs, IsClosed, STATUS_CLOSED
<1>8. CallbackPhase
  BY <1>2 DEF Init, CallbackPhase, InCallbacks, Closed, Points
<1>9. ObjectsCounted
  BY <1>4, FS_EmptySet DEF Init, ObjectsCounted, ObjectCounted, Points
<1> QED
  BY <1>1, <1>3, <1>5, <1>6, <1>7, <1>8, <1>9 DEF IInv

\* Every step keeps the invariant.
LEMMA NextKeeps == IInv /\ [Next]_vars => IInv'
<1> SUFFICES ASSUME IInv, [Next]_vars PROVE IInv'
  OBVIOUS
<1>1. ASSUME NEW t \in Threads, CloseCas(t) \/ UseingDec(t) \/ CbStep(t) PROVE IInv'
  BY <1>1, CloseCasKeeps, UseingDecKeeps, CbNotifyKeeps, CbReleaseOwnKeeps, CbReleaseOtherKeeps
  DEF CbStep
<1>2. ASSUME NEW t \in Threads,
             InitStep(t) \/ MutexDel(t) \/ \E is_fail \in BOOLEAN : pipe_init_done(t, is_fail)
      PROVE  IInv'
  BY <1>2, InitReadyKeeps, InitUnlockKeeps, InitMutexCloseKeeps, MutexDelKeeps, pipe_init_doneKeeps
  DEF InitStep
<1>3. ASSUME NEW t \in Threads, GetStep(t) PROVE IInv'
  BY <1>3, GetReadyKeeps, GetMutexIncKeeps, GetLockKeeps, GetUnlockKeeps, GetMutexDecKeeps,
     GetCheckKeeps, GetPointRefKeeps, GetDataRefKeeps, PutPointKeeps, PutDataKeeps
  DEF GetStep
<1>4. ASSUME NEW t \in Threads, Begin(t) PROVE IInv'
  BY <1>4, pipe_newKeeps, pipe_set_point_refKeeps, pipe_ref_incKeeps, pipe_closeKeeps,
     GetEnterKeeps, pipe_ref_decKeeps
  DEF Begin
<1>5. CASE UNCHANGED vars
  BY <1>5
  DEF vars, pipeVars, pointVars, threadVars, history, IInv, PipeTypes, CallsRight, CountersRight,
      SetupRight, MutexRight, CallbackPhase, ObjectsCounted, ObjectCounted, Users, Holders,
      DataHolders, MutexUsers, PointHolders, AtPoint, Succeeded, InCallbacks, Closed
<1> QED
  BY <1>1, <1>2, <1>3, <1>4, <1>5, OwnerDropsKeeps DEF Next, Progress

\* The counters of a pipe count whom they should, and what follows from it.
THEOREM Inductive == Spec => []IInv
BY InitIInv, NextKeeps, PTL DEF Spec

-----------------------------------------------------------------------------
(* What the invariant is for *)

\* The counters are never negative, and so the types are the ones of TypeOK.
LEMMA InvTypes == IInv => TypeOK
<1> SUFFICES ASSUME IInv PROVE TypeOK
  OBVIOUS
<1> USE DEF IInv
<1>1. status.useing \in Nat /\ ref_num \in Nat /\ mutex_status.n \in Nat
  BY CountsNat DEF CountersRight
<1>2. closing \in Nat /\ \A i \in Points : notified[i] \in Nat
  BY DEF CallbackPhase
<1>3. \A i \in Points : released[i] \in Nat
  BY DEF CallbackPhase, Points, Other, InCallbacks, PipeTypes
<1>4. \A i \in Points : gc[i] \in Nat
  BY CountsNat DEF ObjectsCounted, ObjectCounted, PipeTypes
<1>5. status \in [ready : BOOLEAN, closed : SUBSET Points, useing : Nat]
  BY <1>1 DEF PipeTypes
<1>6. mutex_status \in StatusWord
  BY <1>1 DEF PipeTypes, StatusWord, STATUS_MASK, STATUS_CLOSED
<1>7. gc \in [Points -> Nat] /\ notified \in [Points -> Nat] /\ released \in [Points -> Nat]
  BY <1>2, <1>3, <1>4 DEF PipeTypes
<1> QED
  BY <1>1, <1>2, <1>5, <1>6, <1>7 DEF PipeTypes, TypeOK

\* A pipe without references has been closed by its creator, has no users and
\* has had its callbacks.
LEMMA InvFreed == IInv => NoUseAfterFree
<1> SUFFICES ASSUME IInv, pipe = "freed" PROVE NoUseAfterFree
  BY DEF NoUseAfterFree
<1> USE DEF IInv
<1>1. Cardinality(Holders) = 0
  BY CountsNat DEF CountersRight
<1>2. \A t \in Threads : pc[t] = "none"
  BY <1>1, SomebodyCounts, CountsNat DEF Holders
<1>3. Closed
  BY <1>2, PipeThreadsAssumption DEF SetupRight
<1>4. Users = {}
  BY <1>2 DEF Users
<1>5. status.useing = 0
  BY <1>4, FS_EmptySet DEF CountersRight
<1>6. \A i \in Points : released[i] = 1
  BY <1>2, <1>3, <1>5 DEF CallbackPhase, InCallbacks
<1> QED
  BY <1>2, <1>3, <1>5, <1>6 DEF NoUseAfterFree

\* The callbacks are owed by one thread or have run.
LEMMA InvCallbacks == IInv => CallbacksRight
<1> SUFFICES ASSUME IInv PROVE CallbacksRight
  OBVIOUS
<1> USE DEF IInv
<1>1. ASSUME closing = 1 \/ \E t \in Threads : InCallbacks(t) PROVE Users = {} /\ Closed
  <2>1. Closed /\ status.useing = 0
    BY <1>1 DEF CallbackPhase
  <2> QED
    BY <2>1, SomebodyCounts, CountsNat DEF CountersRight
<1>2. \A i \in Points : notified[i] <= 1
  BY DEF CallbackPhase
<1>3. \A i \in Points : released[i] <= 1
  BY DEF CallbackPhase, Points, Other, InCallbacks, PipeTypes
<1>4. \A i \in status.closed : notified[i] = 0
  BY DEF CallbackPhase, PipeTypes
<1>5. closing <= 1 /\ \A t, u \in Threads : InCallbacks(t) /\ InCallbacks(u) => t = u
  BY DEF CallbackPhase
<1>6. CallbacksOnce
  BY <1>1, <1>2, <1>3, <1>4, <1>5 DEF CallbacksOnce
<1>7. CallbacksNotLost
  BY DEF CallbackPhase, CallbacksNotLost
<1> QED
  BY <1>6, <1>7 DEF CallbacksRight

\* Who works with an object has one of the references that its counter counts,
\* or the reference of the pipe has not been given up.
LEMMA InvReferences == IInv => ReferencesRight
<1> SUFFICES ASSUME IInv PROVE ReferencesRight
  OBVIOUS
<1> USE DEF IInv
<1>1. TypeOK
  BY InvTypes
<1>2. ASSUME NEW i \in Points, released[i] = 0, p_ref[i] PROVE gc[i] > 0
  BY <1>2, CountsNat DEF ObjectsCounted, ObjectCounted
<1>3. ASSUME NEW t \in Threads, pc[t] = "g_ref", NEW i \in Points PROVE released[i] = 0
  <2>1. t \in Users
    BY <1>3 DEF Users
  <2> QED
    BY <2>1, UserKeepsOpen
<1>4. ASSUME NEW t \in Threads, NEW i \in Points, pc[t] \in {"g_dref", "got"}, i = Other(side[t]),
             p_ref[i]
      PROVE  gc[i] > 0
  <2>1. t \in PointHolders(i)
    BY <1>4 DEF PointHolders, AtPoint
  <2>2. Cardinality(PointHolders(i)) > 0
    BY <2>1, SomebodyCounts
  <2> QED
    BY <1>4, <2>2, CountsNat DEF ObjectsCounted, ObjectCounted
<1>5. \A t \in Threads : \A i \in Points :
        \/ pc[t] = "cb_notify"
        \/ pc[t] = "cb_own" /\ i = side[t]
        \/ pc[t] = "cb_other" /\ i = Other(side[t])
        => released[i] = 0
  BY DEF CallbackPhase
<1>6. ObjectsAlive
  BY <1>2, <1>3, <1>4, <1>5 DEF ObjectsAlive
<1>7. NoLeak
  <2> SUFFICES ASSUME Closed, \A t \in Threads : pc[t] \in {"none", "idle"}, NEW i \in Points
               PROVE  gc[i] = IF owned[i] THEN 1 ELSE 0
    BY DEF NoLeak
  <2>1. Users = {} /\ PointHolders(i) = {}
    BY DEF Users, PointHolders, AtPoint, Succeeded, CallsRight, CbPcs
  <2>2. status.useing = 0 /\ Cardinality(PointHolders(i)) = 0
    BY <2>1, FS_EmptySet DEF CountersRight
  <2>3. released[i] = 1
    BY <2>2 DEF CallbackPhase, InCallbacks
  <2> QED
    BY <2>2, <2>3 DEF ObjectsCounted, ObjectCounted
<1>8. GotAfterInit
  BY DEF SetupRight, GotAfterInit
<1> QED
  BY <1>1, <1>6, <1>7, <1>8 DEF ReferencesRight

\* Whatever threads share a pipe, its memory is given up only when nobody is in
\* it any more, it is closed and its callbacks have run to the end.
THEOREM FreeCorrect == Spec => []NoUseAfterFree
BY Inductive, InvFreed, PTL

\* The close callbacks of a pipe run once, by one thread, when nobody is inside,
\* and are not lost between the close and the last user's leaving.
THEOREM CallbacksCorrect == Spec => []CallbacksRight
BY Inductive, InvCallbacks, PTL

\* The objects of the points are alive while the pipe or a caller works with
\* them, and every reference that is taken is given back.
THEOREM ReferencesCorrect == Spec => []ReferencesRight
BY Inductive, InvReferences, PTL

-----------------------------------------------------------------------------
(* Refinement *)

\* A step that leaves the guarded points alone.
LEMMA PipeSame ==
  ASSUME closing' = closing, status'.closed = status.closed,
         \A u \in Threads : u \in Users' <=> u \in Users
  PROVE  UNCHANGED PipeResource!gvars
<1>1. Users' = Users
  BY DEF Users
<1> QED
  BY <1>1 DEF PipeResource!gvars, PipeGate, Closed

\* A step that leaves the guarded mutex alone.
LEMMA MutexSame ==
  ASSUME pipe_mutex' = "destroyed" <=> pipe_mutex = "destroyed", mutex_status'.st = mutex_status.st,
         \A u \in Threads : u \in MutexUsers' <=> u \in MutexUsers
  PROVE  UNCHANGED MutexResource!gvars
<1>1. MutexUsers' = MutexUsers
  BY DEF MutexUsers
<1> QED
  BY <1>1 DEF MutexResource!gvars, MutexGate, IsClosed

\* Every step enters, leaves, shuts or releases the points, or leaves them alone.
LEMMA PipeStepRefines ==
  IInv /\ [Next]_vars => [PipeResource!GNext]_(PipeResource!gvars)
<1> SUFFICES ASSUME IInv, [Next]_vars PROVE [PipeResource!GNext]_(PipeResource!gvars)
  OBVIOUS
<1> USE DEF IInv
<1>1. ASSUME NEW t \in Threads, NEW is_two_way \in BOOLEAN, pipe_new(t, is_two_way)
      PROVE  PipeResource!Enter(t)
  <2>1. ~Closed /\ closing = 0
    BY <1>1 DEF pipe_new, SetupRight, CallbackPhase
  <2>2. ~Closed' /\ closing' = 0
    BY <1>1, <2>1 DEF pipe_new, Closed, history
  <2>3. t \notin Users /\ Users' = Users \cup {t}
    BY <1>1 DEF pipe_new, Goto, Users, PipeTypes
  <2> QED
    BY <2>1, <2>2, <2>3 DEF PipeResource!Enter, PipeGate
<1>2. ASSUME NEW t \in Threads, GetEnter(t), ~Closed
      PROVE  PipeResource!Enter(t)
  <2>1. closing = 0
    BY <1>2 DEF CallbackPhase
  <2>2. ~Closed' /\ closing' = 0
    BY <1>2, <2>1 DEF GetEnter, Refused, Closed, history, PipeTypes
  <2>3. t \notin Users /\ Users' = Users \cup {t}
    BY <1>2 DEF GetEnter, Refused, Goto, Users, PipeTypes
  <2> QED
    BY <1>2, <2>1, <2>2, <2>3 DEF PipeResource!Enter, PipeGate
<1>3. ASSUME NEW t \in Threads, GetEnter(t), Closed
      PROVE  UNCHANGED PipeResource!gvars
  BY <1>3, PipeSame DEF GetEnter, Refused, Goto, Users, PipeTypes, history
<1>4. ASSUME NEW t \in Threads, UseingDec(t)
      PROVE  PipeResource!Leave(t)
  <2>1. status'.closed = status.closed /\ closing' = closing
    BY <1>4 DEF UseingDec, history, PipeTypes
  <2>2. pc[t] = "u_dec" /\ pc'[t] \in {"cb_notify", "idle", "got"} /\ UNCHANGED side
        /\ \A u \in Threads \ {t} : pc'[u] = pc[u] /\ cont'[u] = cont[u]
    BY <1>4 DEF UseingDec, GotoOrReturn, Goto, PipeTypes, CallsRight
  <2>3. t \in Users /\ Users' = Users \ {t}
    BY <2>2 DEF Users
  <2> QED
    BY <2>1, <2>3 DEF PipeResource!Leave, PipeGate, Closed
<1>5. ASSUME NEW t \in Threads, CloseCas(t)
      PROVE  IF Closed THEN UNCHANGED PipeResource!gvars ELSE PipeResource!Shut
  <2>1. /\ pc[t] = "close" /\ cont[t] \in {"idle", "i_unlock"}
        /\ cont[t] = "i_unlock" => t \in Users
    BY <1>5 DEF CloseCas, GotoOrReturn, Goto, PipeTypes, CallsRight, CbPcs, Users
  <2>2. cont[t] = "i_unlock" => status.useing > 0
    BY <2>1, UserKeepsOpen
  <2>3. \A u \in Threads : u \in Users' <=> u \in Users
    BY <1>5, <2>1, <2>2 DEF CloseCas, GotoOrReturn, Goto, NobodyInside, PipeTypes, Users
  <2>4. CASE Closed
    BY <1>5, <2>3, <2>4, PipeSame DEF CloseCas, history
  <2>5. CASE ~Closed
    <3>1. closing = 0 /\ closing' = 0 /\ Closed'
      BY <1>5, <2>5 DEF CallbackPhase, CloseCas, Closed, history, PipeTypes
    <3>2. Users' = Users
      BY <2>3 DEF Users
    <3> QED
      BY <2>5, <3>1, <3>2 DEF PipeResource!Shut, PipeGate
  <2> QED
    BY <2>4, <2>5
<1>6. ASSUME NEW t \in Threads, CbNotify(t)
      PROVE  PipeResource!Release
  <2>1. closing = 0 /\ InCallbacks(t)
    BY <1>6 DEF CbNotify, Goto, CallbackPhase, InCallbacks
  <2>2. Closed /\ Users = {}
    BY <2>1, InvCallbacks DEF CallbacksRight, CallbacksOnce
  <2>3. closing' = 1 /\ UNCHANGED status
    BY <1>6, <2>1 DEF CbNotify, pipeVars
  <2>4. Users' = Users
    BY <1>6 DEF CbNotify, Goto, Users, PipeTypes
  <2> QED
    BY <2>1, <2>2, <2>3, <2>4 DEF PipeResource!Release, PipeGate, Closed
<1>7. ASSUME NEW t \in Threads, CbReleaseOwn(t) \/ CbReleaseOther(t)
      PROVE  UNCHANGED PipeResource!gvars
  BY <1>7, PipeSame
  DEF CbReleaseOwn, CbReleaseOther, GotoOrReturn, Goto, ReleasePoint, pipeVars, PipeTypes, Users,
      CallsRight
<1>8. ASSUME NEW t \in Threads, InitStep(t) \/ MutexDel(t)
      PROVE  UNCHANGED PipeResource!gvars
  BY <1>8, PipeSame
  DEF InitStep, InitReady, InitUnlock, InitMutexClose, MutexDel, Call, Goto, history, PipeTypes, Users
<1>9. ASSUME NEW t \in Threads, NEW is_fail \in BOOLEAN, pipe_init_done(t, is_fail)
      PROVE  UNCHANGED PipeResource!gvars
  BY <1>9, PipeSame DEF pipe_init_done, Call, Goto, pipeVars, history, PipeTypes, Users
<1>10. ASSUME NEW t \in Threads,
              GetReady(t) \/ GetMutexInc(t) \/ GetLock(t) \/ GetUnlock(t) \/ GetMutexDec(t)
       PROVE  UNCHANGED PipeResource!gvars
  BY <1>10, PipeSame
  DEF GetReady, GetMutexInc, GetLock, GetUnlock, GetMutexDec, Goto, pipeVars, history, PipeTypes, Users
<1>11. ASSUME NEW t \in Threads,
              GetCheck(t) \/ GetPointRef(t) \/ GetDataRef(t) \/ PutPoint(t) \/ PutData(t)
       PROVE  UNCHANGED PipeResource!gvars
  BY <1>11, PipeSame
  DEF GetCheck, GetPointRef, GetDataRef, PutPoint, PutData, RefDec, Call, Goto, pipeVars, history,
      PipeTypes, Users
<1>12. ASSUME NEW t \in Threads, pipe_close(t) \/ pipe_ref_dec(t)
       PROVE  UNCHANGED PipeResource!gvars
  BY <1>12, PipeSame
  DEF pipe_close, pipe_ref_dec, RefDec, Call, Goto, pipeVars, history, PipeTypes, Users, CallsRight
<1>13. ASSUME NEW t \in Threads, NEW u \in Threads, pipe_ref_inc(t, u)
       PROVE  UNCHANGED PipeResource!gvars
  BY <1>13, PipeSame DEF pipe_ref_inc, history, PipeTypes, Users
<1>14. ASSUME NEW i \in Points, OwnerDrops(i) \/ \E t \in Threads : pipe_set_point_ref(t, i)
       PROVE  UNCHANGED PipeResource!gvars
  BY <1>14, PipeSame DEF OwnerDrops, pipe_set_point_ref, pipeVars, threadVars, history, Users
<1>15. CASE UNCHANGED vars
  BY <1>15, PipeSame DEF vars, pipeVars, threadVars, history, Users
<1>16. ASSUME NEW t \in Threads, Progress(t)
       PROVE  [PipeResource!GNext]_(PipeResource!gvars)
  BY <1>16, <1>4, <1>5, <1>6, <1>7, <1>8, <1>9, <1>10, <1>11
  DEF Progress, CbStep, GetStep, PipeResource!GNext
<1>17. ASSUME NEW t \in Threads, Begin(t)
       PROVE  [PipeResource!GNext]_(PipeResource!gvars)
  BY <1>17, <1>1, <1>2, <1>3, <1>12, <1>13, <1>14 DEF Begin, PipeResource!GNext
<1> QED
  BY <1>14, <1>15, <1>16, <1>17 DEF Next

\* Every step enters, leaves, shuts or releases the mutex, or leaves it alone.
LEMMA MutexStepRefines ==
  IInv /\ [Next]_vars => [MutexResource!GNext]_(MutexResource!gvars)
<1> SUFFICES ASSUME IInv, [Next]_vars PROVE [MutexResource!GNext]_(MutexResource!gvars)
  OBVIOUS
<1> USE DEF IInv
<1>1. ASSUME NEW t \in Threads, NEW is_two_way \in BOOLEAN, pipe_new(t, is_two_way)
      PROVE  UNCHANGED MutexResource!gvars
  <2>1. mutex_status.st = 0
    BY <1>1 DEF pipe_new, SetupRight
  <2>2. pipe_mutex # "destroyed" /\ pipe_mutex' # "destroyed"
    BY <1>1, <2>1, PipeThreadsAssumption
    DEF pipe_new, MutexRight, STATUS_LEGAL_CLOSED, IsClosed, STATUS_CLOSED
  <2>3. ~IsClosed(mutex_status) /\ ~IsClosed(mutex_status')
    BY <1>1, <2>1 DEF pipe_new, IsClosed, STATUS_CLOSED, NO_MUTEX
  <2>4. MutexUsers' = MutexUsers
    BY <1>1 DEF pipe_new, Goto, MutexUsers, PipeTypes
  <2> QED
    BY <2>2, <2>3, <2>4 DEF MutexResource!gvars, MutexGate
<1>2. ASSUME NEW t \in Threads, GetMutexInc(t), ~IsClosed(mutex_status)
      PROVE  MutexResource!Enter(t)
  <2>1. UNCHANGED pipe_mutex /\ pipe_mutex # "destroyed" /\ ~IsClosed(mutex_status')
    BY <1>2 DEF GetMutexInc, AddUser, MutexRight, STATUS_LEGAL_CLOSED, IsClosed, PipeTypes
  <2>2. t \notin MutexUsers /\ MutexUsers' = MutexUsers \cup {t}
    BY <1>2 DEF GetMutexInc, Goto, MutexUsers, PipeTypes
  <2> QED
    BY <1>2, <2>1, <2>2 DEF MutexResource!Enter, MutexGate
<1>3. ASSUME NEW t \in Threads, GetMutexInc(t), IsClosed(mutex_status)
      PROVE  UNCHANGED MutexResource!gvars
  BY <1>3, MutexSame DEF GetMutexInc, Goto, MutexUsers, PipeTypes
<1>4. ASSUME NEW t \in Threads, GetMutexDec(t)
      PROVE  MutexResource!Leave(t)
  <2>1. UNCHANGED pipe_mutex /\ mutex_status'.st = mutex_status.st
    BY <1>4 DEF GetMutexDec, SubUser, PipeTypes
  <2>2. t \in MutexUsers /\ MutexUsers' = MutexUsers \ {t}
    BY <1>4 DEF GetMutexDec, Goto, MutexUsers, PipeTypes
  <2> QED
    BY <2>1, <2>2 DEF MutexResource!Leave, MutexGate, IsClosed
<1>5. ASSUME NEW t \in Threads, InitMutexClose(t)
      PROVE  MutexResource!Shut
  <2>1. t = Creator /\ pc[Creator] = "i_mclose"
    BY <1>5 DEF InitMutexClose, Goto, CallsRight, SetupPcs
  <2>2. ~IsClosed(mutex_status) /\ pipe_mutex # "destroyed"
    BY <2>1 DEF MutexRight, STATUS_LEGAL_CLOSED
  <2>3. UNCHANGED pipe_mutex /\ IsClosed(mutex_status')
    BY <1>5 DEF InitMutexClose, MarkClosed, IsClosed, PipeTypes
  <2>4. MutexUsers' = MutexUsers
    BY <1>5 DEF InitMutexClose, Goto, MutexUsers, PipeTypes
  <2> QED
    BY <2>2, <2>3, <2>4 DEF MutexResource!Shut, MutexGate
<1>6. ASSUME NEW t \in Threads, MutexDel(t)
      PROVE  MutexResource!Release
  <2>1. STATUS_LEGAL_CLOSED(mutex_status) /\ pipe_mutex # "destroyed"
    BY <1>6 DEF MutexDel, Goto, MutexRight
  <2>2. MutexUsers = {}
    BY <2>1, SomebodyCounts, CountsNat DEF CountersRight, STATUS_LEGAL_CLOSED, NoUser
  <2>3. pipe_mutex' = "destroyed" /\ UNCHANGED mutex_status
    BY <1>6 DEF MutexDel
  <2>4. MutexUsers' = MutexUsers
    BY <1>6 DEF MutexDel, Goto, MutexUsers, PipeTypes
  <2> QED
    BY <2>1, <2>2, <2>3, <2>4 DEF MutexResource!Release, MutexGate, STATUS_LEGAL_CLOSED
<1>7. ASSUME NEW t \in Threads, InitUnlock(t)
      PROVE  UNCHANGED MutexResource!gvars
  <2>1. t = Creator /\ pc[Creator] = "i_unlock"
    BY <1>7 DEF InitUnlock, Call, Goto, CallsRight, SetupPcs
  <2>2. pipe_mutex # "destroyed" /\ pipe_mutex' # "destroyed"
    BY <1>7, <2>1 DEF InitUnlock, MutexRight, STATUS_LEGAL_CLOSED
  <2> QED
    BY <1>7, <2>2, MutexSame DEF InitUnlock, Call, Goto, MutexUsers, PipeTypes
<1>8. ASSUME NEW t \in Threads, GetLock(t) \/ GetUnlock(t)
      PROVE  UNCHANGED MutexResource!gvars
  <2>1. pc[t] \in {"g_lock", "g_unlock"} /\ t \in MutexUsers
    BY <1>8 DEF GetLock, GetUnlock, Goto, MutexUsers
  <2>2. mutex_status.n > 0
    BY <2>1, SomebodyCounts DEF CountersRight
  <2>3. pipe_mutex # "destroyed"
    BY <2>2 DEF MutexRight, STATUS_LEGAL_CLOSED, NoUser
  <2>4. pipe_mutex' # "destroyed"
    BY <1>8, PipeThreadsAssumption DEF GetLock, GetUnlock
  <2> QED
    BY <1>8, <2>3, <2>4, MutexSame DEF GetLock, GetUnlock, Goto, MutexUsers, PipeTypes
<1>9. ASSUME NEW t \in Threads, CloseCas(t) \/ UseingDec(t) \/ CbStep(t) \/ InitReady(t)
      PROVE  UNCHANGED MutexResource!gvars
  BY <1>9, MutexSame
  DEF CloseCas, UseingDec, CbStep, CbNotify, CbReleaseOwn, CbReleaseOther, InitReady, GotoOrReturn,
      Goto, ReleasePoint, pipeVars, PipeTypes, MutexUsers
<1>10. ASSUME NEW t \in Threads, NEW is_fail \in BOOLEAN, pipe_init_done(t, is_fail)
       PROVE  UNCHANGED MutexResource!gvars
  BY <1>10, MutexSame DEF pipe_init_done, Call, Goto, pipeVars, PipeTypes, MutexUsers
<1>11. ASSUME NEW t \in Threads,
              \/ GetReady(t) \/ GetCheck(t) \/ GetPointRef(t) \/ GetDataRef(t)
              \/ PutPoint(t) \/ PutData(t)
       PROVE  UNCHANGED MutexResource!gvars
  BY <1>11, MutexSame
  DEF GetReady, GetCheck, GetPointRef, GetDataRef, PutPoint, PutData, RefDec, Call, Goto, pipeVars,
      PipeTypes, MutexUsers
<1>12. ASSUME NEW t \in Threads, GetEnter(t) \/ pipe_close(t) \/ pipe_ref_dec(t)
       PROVE  UNCHANGED MutexResource!gvars
  BY <1>12, MutexSame
  DEF GetEnter, pipe_close, pipe_ref_dec, RefDec, Call, Goto, pipeVars, PipeTypes, MutexUsers
<1>13. ASSUME NEW t \in Threads, NEW u \in Threads, pipe_ref_inc(t, u)
       PROVE  UNCHANGED MutexResource!gvars
  BY <1>13, MutexSame DEF pipe_ref_inc, PipeTypes, MutexUsers
<1>14. ASSUME NEW i \in Points, OwnerDrops(i) \/ \E t \in Threads : pipe_set_point_ref(t, i)
       PROVE  UNCHANGED MutexResource!gvars
  BY <1>14, MutexSame DEF OwnerDrops, pipe_set_point_ref, pipeVars, threadVars, MutexUsers
<1>15. CASE UNCHANGED vars
  BY <1>15, MutexSame DEF vars, pipeVars, threadVars, MutexUsers
<1>16. ASSUME NEW t \in Threads, Progress(t)
       PROVE  [MutexResource!GNext]_(MutexResource!gvars)
  BY <1>16, <1>2, <1>3, <1>4, <1>5, <1>6, <1>7, <1>8, <1>9, <1>10, <1>11
  DEF Progress, InitStep, GetStep, MutexResource!GNext
<1>17. ASSUME NEW t \in Threads, Begin(t)
       PROVE  [MutexResource!GNext]_(MutexResource!gvars)
  BY <1>17, <1>1, <1>12, <1>13, <1>14 DEF Begin
<1> QED
  BY <1>14, <1>15, <1>16, <1>17 DEF Next

\* A pipe's useing word guards its points and mutex_status guards the mutex of
\* the set-up, the way GuardedResource promises it.
THEOREM Refinement == Spec => ImplementsResources
<1>1. Init => PipeResource!GInit
  BY DEF Init, PipeResource!GInit, PipeGate, Closed, Users
<1>2. Init => MutexResource!GInit
  BY DEF Init, MutexResource!GInit, MutexGate, IsClosed, STATUS_CLOSED, MutexUsers
<1>3. Spec => PipeResource!GSpec
  BY <1>1, PipeStepRefines, Inductive, PTL DEF Spec, PipeResource!GSpec
<1>4. Spec => MutexResource!GSpec
  BY <1>2, MutexStepRefines, Inductive, PTL DEF Spec, MutexResource!GSpec
<1> QED
  BY <1>3, <1>4 DEF ImplementsResources
=============================================================================
