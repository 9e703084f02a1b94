-------------------------- MODULE UseingRefProofs ---------------------------
(***************************************************************************)
(* Proofs that the useing status word does what UseingRef says of it, for  *)
(* every finite set of threads.                                            *)
(***************************************************************************)
EXTENDS UseingRef, FiniteSetTheorems, TLAPS

(***************************************************************************)
(* The inductive invariant: the word counts its users, and being closed    *)
(* without users is the same as having been released or being about to be. *)
(***************************************************************************)
IInv ==
  /\ TypeOK
  /\ CountIsUsers
  /\ ClosedOnce
  /\ CloseNotLost
  /\ (Closers # {} \/ closed > 0) => STATUS_LEGAL_CLOSED(status)
  /\ \A t \in Threads : pc[t] = "close_fun" => ~user[t]
  /\ \A t \in Threads : pc[t] \in {"inc_cas", "set_cas"} => ~IsClosed(tmp[t])
  /\ \A t \in Threads : pc[t] = "inc_cas" => ~user[t]

\* The users are a finite set, so that their number is a natural number that
\* is 0 for the empty set only.
LEMMA UsersFinite ==
  /\ IsFiniteSet(Users)
  /\ Cardinality(Users) \in Nat
  /\ Cardinality(Users) = 0 <=> Users = {}
<1>1. IsFiniteSet(Users)
  BY ThreadsAssumption, FS_Subset DEF Users
<1> QED
  BY <1>1, FS_CardinalityType, FS_EmptySet

\* useing_ref_inc that succeeds makes the users one more.
LEMMA UserJoins ==
  ASSUME TypeOK, NEW t \in Threads, ~user[t], user' = [user EXCEPT ![t] = TRUE]
  PROVE  /\ Users' = Users \cup {t}
         /\ Cardinality(Users') = Cardinality(Users) + 1
<1>1. Users' = Users \cup {t} /\ t \notin Users
  BY DEF Users, TypeOK
<1> QED
  BY <1>1, UsersFinite, FS_AddElement

\* useing_ref_dec makes the users one fewer.
LEMMA UserLeaves ==
  ASSUME TypeOK, NEW t \in Threads, user[t], user' = [user EXCEPT ![t] = FALSE]
  PROVE  /\ Users' = Users \ {t}
         /\ t \in Users
         /\ Cardinality(Users') = Cardinality(Users) - 1
<1>1. Users' = Users \ {t} /\ t \in Users
  BY DEF Users, TypeOK
<1> QED
  BY <1>1, UsersFinite, FS_RemoveElement

\* The word is well typed and open when it is first shared.
LEMMA InitIInv == Init => IInv
<1> SUFFICES ASSUME Init PROVE IInv
  OBVIOUS
<1>1. TypeOK
  BY InitStatusAssumption DEF Init, TypeOK, Pcs, StatusWord, STATUS_MASK, STATUS_CLOSED
<1>2. Users = {} /\ Closers = {}
  BY DEF Init, Users, Closers
<1>3. ~IsClosed(status)
  BY InitStatusAssumption DEF Init, IsClosed, STATUS_MASK, STATUS_CLOSED
<1>4. CountIsUsers
  BY <1>2, UsersFinite DEF Init, CountIsUsers
<1> QED
  BY <1>1, <1>2, <1>3, <1>4
  DEF Init, IInv, ClosedOnce, CloseNotLost, STATUS_LEGAL_CLOSED

\* Steps that only load: the word, its users and its closers stay as they are.
LEMMA LoadKeepsIInv ==
  ASSUME IInv, NEW t \in Threads, NEW pcNext \in {"idle", "inc_cas", "set_cas"},
         pc[t] # "close_fun", pc' = [pc EXCEPT ![t] = pcNext],
         pcNext # "idle" => ~IsClosed(tmp'[t]),
         pcNext = "inc_cas" => ~user[t],
         tmp' = tmp \/ tmp' = [tmp EXCEPT ![t] = status],
         UNCHANGED <<status, user, closed>>
  PROVE  IInv'
<1>1. TypeOK'
  BY DEF IInv, TypeOK, Pcs
<1>2. Users' = Users /\ Closers' = Closers
  BY DEF IInv, TypeOK, Users, Closers
<1>3. \A u \in Threads : pc'[u] \in {"inc_cas", "set_cas"} => ~IsClosed(tmp'[u])
  <2> SUFFICES ASSUME NEW u \in Threads, pc'[u] \in {"inc_cas", "set_cas"}
               PROVE  ~IsClosed(tmp'[u])
    OBVIOUS
  <2>1. CASE u = t
    BY <2>1 DEF IInv, TypeOK
  <2>2. CASE u # t
    <3>1. pc'[u] = pc[u] /\ tmp'[u] = tmp[u]
      BY <2>2 DEF IInv, TypeOK
    <3> QED
      BY <3>1 DEF IInv
  <2> QED
    BY <2>1, <2>2
<1>4. \A u \in Threads : pc'[u] = "close_fun" => pc[u] = "close_fun"
  BY DEF IInv, TypeOK
<1>5. \A u \in Threads : pc'[u] = "inc_cas" => ~user[u]
  BY DEF IInv, TypeOK
<1> QED
  BY <1>1, <1>2, <1>3, <1>4, <1>5
  DEF IInv, CountIsUsers, ClosedOnce, CloseNotLost, IsClosed, STATUS_LEGAL_CLOSED, NoUser

\* A use is counted in the same step in which the thread becomes a user, and
\* the compare-and-swap has found the word open.
LEMMA IncCasKeepsIInv ==
  ASSUME IInv, NEW t \in Threads, IncCas(t)
  PROVE  IInv'
<1>1. ~IsClosed(status) /\ ~user[t]
  BY DEF IInv, IncCas, Goto
<1>2. Closers = {} /\ closed = 0
  BY <1>1 DEF IInv, STATUS_LEGAL_CLOSED, TypeOK
<1>3. Users' = Users \cup {t} /\ Cardinality(Users') = Cardinality(Users) + 1
  BY <1>1, UserJoins DEF IInv, IncCas
<1>4. status' = [st |-> status.st, n |-> status.n + 1] /\ ~IsClosed(status')
  BY <1>1 DEF IInv, TypeOK, IncCas, AddUser, StatusWord, IsClosed
<1>5. TypeOK'
  BY <1>4 DEF IInv, TypeOK, IncCas, Goto, Pcs, StatusWord
<1>6. CountIsUsers'
  BY <1>3, <1>4 DEF IInv, CountIsUsers
<1>7. Closers' = {} /\ closed' = 0
  BY <1>2 DEF IInv, TypeOK, IncCas, Goto, Closers
<1>8. \A u \in Threads : pc'[u] \in {"inc_cas", "set_cas"} => u # t /\ pc'[u] = pc[u]
  BY DEF IInv, TypeOK, IncCas, Goto
<1>9. \A u \in Threads : u # t => user'[u] = user[u]
  BY DEF IInv, TypeOK, IncCas
<1>10. \A u \in Threads : pc'[u] # "close_fun"
  BY <1>7 DEF Closers
<1> QED
  BY <1>4, <1>5, <1>6, <1>7, <1>8, <1>9, <1>10
  DEF IInv, ClosedOnce, CloseNotLost, STATUS_LEGAL_CLOSED, IncCas

\* The subtraction that makes a closed word free of users elects its thread,
\* and only it, to call close_fun.
LEMMA DecSubKeepsIInv ==
  ASSUME IInv, NEW t \in Threads, DecSub(t)
  PROVE  IInv'
<1>1. /\ Users' = Users \ {t}
      /\ t \in Users
      /\ Cardinality(Users') = Cardinality(Users) - 1
  BY UserLeaves DEF IInv, DecSub
<1>2. status.n \in Nat /\ status.n # 0
  BY <1>1, UsersFinite DEF IInv, TypeOK, StatusWord, CountIsUsers
<1>3. Closers = {} /\ closed = 0
  BY <1>2 DEF IInv, STATUS_LEGAL_CLOSED, NoUser, TypeOK
<1>4. status' = [st |-> status.st, n |-> status.n - 1] /\ status'.n \in Nat
  BY <1>2 DEF IInv, TypeOK, DecSub, SubUser, StatusWord
<1>5. TypeOK'
  BY <1>4 DEF IInv, TypeOK, DecSub, Goto, Pcs, StatusWord
<1>6. CountIsUsers'
  BY <1>1, <1>4 DEF IInv, CountIsUsers
<1>7. Closers' = IF STATUS_LEGAL_CLOSED(status') THEN {t} ELSE {}
  BY <1>3 DEF IInv, TypeOK, DecSub, Goto, Closers
<1>8. \A u \in Threads : u # t => pc'[u] = pc[u] /\ user'[u] = user[u]
  BY DEF IInv, TypeOK, DecSub, Goto
<1>9. pc'[t] \in {"idle", "close_fun"} /\ ~user'[t]
  BY DEF IInv, TypeOK, DecSub, Goto
<1>10. ClosedOnce' /\ CloseNotLost'
  BY <1>3, <1>7 DEF ClosedOnce, CloseNotLost, DecSub
<1>11. (Closers' # {} \/ closed' > 0) => STATUS_LEGAL_CLOSED(status')
  BY <1>3, <1>7 DEF DecSub
<1>12. \A u \in Threads : pc'[u] = "close_fun" => ~user'[u]
  BY <1>8, <1>9 DEF IInv
<1>13. \A u \in Threads : pc'[u] \in {"inc_cas", "set_cas"} => ~IsClosed(tmp'[u])
  BY <1>8, <1>9 DEF IInv, DecSub
<1>14. \A u \in Threads : pc'[u] = "inc_cas" => ~user'[u]
  BY <1>8, <1>9 DEF IInv
<1> QED
  BY <1>5, <1>6, <1>10, <1>11, <1>12, <1>13, <1>14 DEF IInv

\* Closing an open word without users elects the closing thread; closing one
\* with users leaves the call to the last of them.
LEMMA SetCasKeepsIInv ==
  ASSUME IInv, NEW t \in Threads, SetCas(t)
  PROVE  IInv'
<1>1. ~IsClosed(status) /\ status = tmp[t]
  BY DEF IInv, SetCas, Goto
<1>2. Closers = {} /\ closed = 0
  BY <1>1 DEF IInv, STATUS_LEGAL_CLOSED, TypeOK
<1>3. status' = [st |-> STATUS_CLOSED, n |-> status.n] /\ IsClosed(status')
  BY <1>1 DEF IInv, TypeOK, SetCas, MarkClosed, StatusWord, IsClosed
<1>4. TypeOK'
  BY <1>3 DEF IInv, TypeOK, SetCas, Goto, Pcs, StatusWord, STATUS_MASK, STATUS_CLOSED
<1>5. Users' = Users
  BY DEF Users, SetCas
<1>6. CountIsUsers'
  BY <1>3, <1>5 DEF IInv, CountIsUsers
<1>7. Closers' = IF NoUser(status) THEN {t} ELSE {}
  BY <1>1, <1>2 DEF IInv, TypeOK, SetCas, Goto, Closers
<1>8. STATUS_LEGAL_CLOSED(status') <=> NoUser(status)
  BY <1>3 DEF STATUS_LEGAL_CLOSED, NoUser
<1>9. \A u \in Threads : u # t => pc'[u] = pc[u]
  BY DEF IInv, TypeOK, SetCas, Goto
<1>10. pc'[t] = IF NoUser(status) THEN "close_fun" ELSE "idle"
  BY <1>1 DEF IInv, TypeOK, SetCas, Goto
<1>11. NoUser(status) => ~user[t]
  BY UsersFinite DEF IInv, NoUser, CountIsUsers, Users
<1>12. ClosedOnce' /\ CloseNotLost'
  BY <1>2, <1>7, <1>8 DEF ClosedOnce, CloseNotLost, SetCas
<1>13. (Closers' # {} \/ closed' > 0) => STATUS_LEGAL_CLOSED(status')
  BY <1>2, <1>7, <1>8 DEF SetCas
<1>14. \A u \in Threads : pc'[u] = "close_fun" => ~user'[u]
  BY <1>9, <1>10, <1>11 DEF IInv, SetCas
<1>15. \A u \in Threads : pc'[u] \in {"inc_cas", "set_cas"} => ~IsClosed(tmp'[u])
  BY <1>9, <1>10 DEF IInv, SetCas
<1>16. \A u \in Threads : pc'[u] = "inc_cas" => ~user'[u]
  BY <1>9, <1>10 DEF IInv, SetCas
<1> QED
  BY <1>4, <1>6, <1>12, <1>13, <1>14, <1>15, <1>16 DEF IInv

\* The elected thread is the only one, and calls close_fun once.
LEMMA CloseFunKeepsIInv ==
  ASSUME IInv, NEW t \in Threads, CloseFun(t)
  PROVE  IInv'
<1>1. t \in Closers
  BY DEF CloseFun, Goto, Closers
<1>2. closed = 0 /\ STATUS_LEGAL_CLOSED(status)
  BY <1>1 DEF IInv, TypeOK, ClosedOnce
<1>3. closed' = 1 /\ UNCHANGED <<status, tmp, user>>
  BY <1>2 DEF CloseFun
<1>4. TypeOK'
  BY <1>3 DEF IInv, TypeOK, CloseFun, Goto, Pcs
<1>5. Closers' = {}
  BY <1>1 DEF IInv, TypeOK, ClosedOnce, CloseFun, Goto, Closers
<1>6. CountIsUsers'
  BY <1>3 DEF IInv, CountIsUsers, Users
<1>7. \A u \in Threads : pc'[u] # "idle" => pc'[u] = pc[u]
  BY DEF IInv, TypeOK, CloseFun, Goto
<1>8. ClosedOnce' /\ CloseNotLost'
  BY <1>3, <1>5 DEF ClosedOnce, CloseNotLost
<1>9. STATUS_LEGAL_CLOSED(status')
  BY <1>2, <1>3
<1> QED
  BY <1>3, <1>4, <1>6, <1>7, <1>8, <1>9 DEF IInv

\* Every step of every thread keeps the invariant.
LEMMA NextIInv == IInv /\ [Next]_vars => IInv'
<1> SUFFICES ASSUME IInv, [Next]_vars PROVE IInv'
  OBVIOUS
<1>1. ASSUME NEW t \in Threads, IncLoad(t) PROVE IInv'
  <2>1. tmp'[t] = status
    BY <1>1 DEF IncLoad, IInv, TypeOK
  <2> QED
    BY <1>1, <2>1, LoadKeepsIInv DEF IncLoad, Goto
<1>2. ASSUME NEW t \in Threads, IncCas(t) PROVE IInv'
  BY <1>2, IncCasKeepsIInv
<1>3. ASSUME NEW t \in Threads, IncRetry(t) PROVE IInv'
  BY <1>3, LoadKeepsIInv DEF IncRetry, Goto
<1>4. ASSUME NEW t \in Threads, DecSub(t) PROVE IInv'
  BY <1>4, DecSubKeepsIInv
<1>5. ASSUME NEW t \in Threads, SetLoad(t) PROVE IInv'
  <2>1. tmp'[t] = status
    BY <1>5 DEF SetLoad, IInv, TypeOK
  <2> QED
    BY <1>5, <2>1, LoadKeepsIInv DEF SetLoad, Goto
<1>6. ASSUME NEW t \in Threads, SetCas(t) PROVE IInv'
  BY <1>6, SetCasKeepsIInv
<1>7. ASSUME NEW t \in Threads, SetRetry(t) PROVE IInv'
  BY <1>7, LoadKeepsIInv DEF SetRetry, Goto
<1>8. ASSUME NEW t \in Threads, CloseFun(t) PROVE IInv'
  BY <1>8, CloseFunKeepsIInv
<1>9. CASE UNCHANGED vars
  <2>1. Users' = Users /\ Closers' = Closers
    BY <1>9 DEF vars, Users, Closers
  <2> QED
    BY <1>9, <2>1
    DEF vars, IInv, TypeOK, CountIsUsers, ClosedOnce, CloseNotLost,
        STATUS_LEGAL_CLOSED, IsClosed, NoUser
<1> QED
  BY <1>1, <1>2, <1>3, <1>4, <1>5, <1>6, <1>7, <1>8, <1>9
  DEF Next, Step, IncStep, SetStep

\* The invariant contains what the runs check.
LEMMA IInvImplies == IInv => NoUserWhenClosing
BY UsersFinite
DEF IInv, NoUserWhenClosing, STATUS_LEGAL_CLOSED, NoUser, CountIsUsers

\* The strengthened invariant holds in every reachable state.
LEMMA Inductive == Spec => []IInv
BY InitIInv, NextIInv, PTL DEF Spec

\* The status word and the locals of moon_common.h's three functions keep
\* their types; in particular the count never goes below 0.
THEOREM TypeCorrect == Spec => []TypeOK
<1>1. IInv => TypeOK
  BY DEF IInv
<1> QED
  BY <1>1, Inductive, PTL

\* The count in the high bits is the number of users, for any threads.
THEOREM CountCorrect == Spec => []CountIsUsers
<1>1. IInv => CountIsUsers
  BY DEF IInv
<1> QED
  BY <1>1, Inductive, PTL

\* close_fun is called at most once, never while a thread uses the resource,
\* and a closed word without users always has somebody to call it.
THEOREM ReleaseCorrect == Spec => []ReleasedProperly
<1>1. IInv => ReleasedProperly
  BY IInvImplies DEF IInv, ReleasedProperly
<1> QED
  BY <1>1, Inductive, PTL

-----------------------------------------------------------------------------
(* Refinement *)

\* Every step is a step of the guarded resource or leaves it alone.
LEMMA StepRefines ==
  IInv /\ IInv' /\ [Next]_vars => [Resource!GNext]_(Resource!gvars)
<1> SUFFICES ASSUME IInv, IInv', [Next]_vars
             PROVE  [Resource!GNext]_(Resource!gvars)
  OBVIOUS
<1> USE DEF Resource!GNext, Resource!gvars
<1>1. ASSUME NEW t \in Threads,
             IncLoad(t) \/ IncRetry(t) \/ SetLoad(t) \/ SetRetry(t)
      PROVE  UNCHANGED Resource!gvars
  BY <1>1 DEF IncLoad, IncRetry, SetLoad, SetRetry, Gate, Users
<1>2. ASSUME NEW t \in Threads, IncCas(t)
      PROVE  Resource!Enter(t)
  <2>1. ~IsClosed(status) /\ ~user[t]
    BY <1>2 DEF IInv, IncCas, Goto
  <2>2. closed = 0 /\ closed' = 0
    BY <1>2, <2>1 DEF IInv, TypeOK, STATUS_LEGAL_CLOSED, IncCas
  <2>3. ~IsClosed(status')
    BY <1>2, <2>1 DEF IInv, TypeOK, IncCas, AddUser, StatusWord, IsClosed
  <2>4. Users' = Users \cup {t} /\ t \notin Users
    BY <1>2, <2>1, UserJoins DEF IInv, IncCas, Users
  <2> QED
    BY <2>1, <2>2, <2>3, <2>4 DEF Resource!Enter, Gate
<1>3. ASSUME NEW t \in Threads, DecSub(t)
      PROVE  Resource!Leave(t)
  <2>1. Users' = Users \ {t} /\ t \in Users
    BY <1>3, UserLeaves DEF IInv, DecSub
  <2>2. IsClosed(status') <=> IsClosed(status)
    BY <1>3 DEF IInv, TypeOK, DecSub, SubUser, StatusWord, IsClosed
  <2> QED
    BY <1>3, <2>1, <2>2 DEF Resource!Leave, Gate, DecSub
<1>4. ASSUME NEW t \in Threads, SetCas(t)
      PROVE  Resource!Shut
  <2>1. ~IsClosed(status)
    BY <1>4 DEF IInv, SetCas, Goto
  <2>2. closed = 0 /\ closed' = 0
    BY <1>4, <2>1 DEF IInv, TypeOK, STATUS_LEGAL_CLOSED, SetCas
  <2>3. IsClosed(status')
    BY <1>4 DEF IInv, TypeOK, SetCas, MarkClosed, StatusWord, IsClosed
  <2>4. Users' = Users
    BY <1>4 DEF SetCas, Users
  <2> QED
    BY <2>1, <2>2, <2>3, <2>4 DEF Resource!Shut, Gate
<1>5. ASSUME NEW t \in Threads, CloseFun(t)
      PROVE  Resource!Release
  <2>1. t \in Closers
    BY <1>5 DEF CloseFun, Goto, Closers
  <2>2. closed = 0 /\ IsClosed(status) /\ Users = {}
    BY <2>1, IInvImplies
    DEF IInv, TypeOK, ClosedOnce, STATUS_LEGAL_CLOSED, NoUserWhenClosing
  <2>3. closed' = 1 /\ Users' = Users
    BY <1>5, <2>2 DEF CloseFun, Users
  <2> QED
    BY <2>2, <2>3 DEF Resource!Release, Gate
<1>6. CASE UNCHANGED vars
  BY <1>6 DEF vars, Gate, Users
<1> QED
  BY <1>1, <1>2, <1>3, <1>4, <1>5, <1>6 DEF Next, Step, IncStep, SetStep

\* The three functions implement the guarded resource: the abstract promise
\* that pipes, timers, sockets and DNS queries are built on.
THEOREM Refinement == Spec => ImplementsResource
<1>1. Init => Resource!GInit
  <2>1. Init => ~IsClosed(status)
    BY InitStatusAssumption DEF Init, IsClosed, STATUS_MASK, STATUS_CLOSED
  <2> QED
    BY <2>1 DEF Init, Resource!GInit, Gate, Users
<1> QED
  BY <1>1, StepRefines, Inductive, PTL DEF Spec, ImplementsResource, Resource!GSpec
=============================================================================
