------------------------- MODULE SessionStreamProofs -------------------------
(***************************************************************************)
(* Proofs about a stream of a session: PipesFreedOnce and WaitsKept, for   *)
(* every set of pipes that may be closed and any number of waits and       *)
(* packets.  What a thread has still to do is a sequence that the handlers *)
(* put jobs in front of; the lemmas on Turn say what becomes of a job that *)
(* somebody has to do, and the invariants say for which jobs there is at   *)
(* most one.                                                               *)
(***************************************************************************)
EXTENDS SessionStream, SequenceTheorems, TLAPS

-----------------------------------------------------------------------------
(* Types *)

Dirs == {"recv", "send"}

Statuses == Opening \cup {"RST_SEND", "RST_RECV", "SHUT_RECV", "CLOSED"}

\* What a thread may have to do.
Jobs ==
  ({"event"} \X Dirs) \cup ({"free"} \X Pipes) \cup ({"stop"} \X Timers)
  \cup ({"set"} \X {"recv_timer", "send_timer"} \X Nat) \cup ({"unset"} \X Dirs \X Nat)
  \cup ({"times_up"} \X Timers \X Nat) \cup ({"add", "recv", "rst"} \X Nat)
  \cup {<<"remote_close">>, <<"local_close">>, <<"close_func">>}

Streams ==
  [status : Statuses, flags : SUBSET Dirs, recv_hub : Seq(Nat), mark : [Timers -> Nat],
   pipe : [Pipes -> {"ACTIVE", "STOP", "DEL"}], held : SUBSET Pipes]

StreamTypes ==
  /\ s \in Streams
  /\ freed \in [Pipes -> Nat]
  /\ shut \subseteq Pipes
  /\ armed \in [Timers -> Nat]
  /\ owed \in [Dirs -> {"no", "timed", "endless"}]
  /\ todo \in [Threads -> Seq(Jobs)]

-----------------------------------------------------------------------------
(* What the threads have to do *)

\* Nobody has to do x; exactly one has, once.
None(x) == \A t \in Threads : \A i \in 1 .. Len(todo[t]) : todo[t][i] # x

One(x) ==
  \E t \in Threads : \E i \in 1 .. Len(todo[t]) :
    /\ todo[t][i] = x
    /\ \A u \in Threads : \A j \in 1 .. Len(todo[u]) : todo[u][j] = x => u = t /\ j = i

Lacks(new, x) == \A i \in 1 .. Len(new) : new[i] # x

HasOne(new, x) ==
  \E i \in 1 .. Len(new) : new[i] = x /\ \A j \in 1 .. Len(new) : new[j] = x => j = i

\* Thread t does its first k things, none or one, and has new to do before the rest.
Turn(t, k, new) ==
  /\ k \in {0, 1} /\ k <= Len(todo[t]) /\ new \in Seq(Jobs)
  /\ todo' \in [Threads -> Seq(Jobs)]
  /\ Len(todo'[t]) = Len(new) + (Len(todo[t]) - k)
  /\ \A i \in 1 .. Len(new) : todo'[t][i] = new[i]
  /\ \A i \in 1 .. Len(todo[t]) - k : todo'[t][Len(new) + i] = todo[t][k + i]
  /\ \A u \in Threads \ {t} : todo'[u] = todo[u]

\* A thread that had nothing to do.
LEMMA TurnIdle ==
  ASSUME StreamTypes, NEW t \in Threads, NEW new \in Seq(Jobs), Idle(t),
         todo' = [todo EXCEPT ![t] = new]
  PROVE  Turn(t, 0, new)
<1>1. Len(todo[t]) = 0 /\ todo'[t] = new /\ todo' \in [Threads -> Seq(Jobs)]
  BY DEF Idle, StreamTypes
<1> QED
  BY <1>1 DEF Turn, StreamTypes

\* A thread that has done the first thing.
LEMMA TurnHead ==
  ASSUME StreamTypes, NEW t \in Threads, NEW new \in Seq(Jobs), ~Idle(t),
         todo' = [todo EXCEPT ![t] = new \o Tail(@)]
  PROVE  Turn(t, 1, new) /\ Head(todo[t]) = todo[t][1] /\ Head(todo[t]) \in Jobs /\ Len(todo[t]) >= 1
<1>1. todo[t] \in Seq(Jobs) /\ todo[t] # <<>>
  BY DEF Idle, StreamTypes
<1>2. /\ Tail(todo[t]) \in Seq(Jobs) /\ Len(Tail(todo[t])) = Len(todo[t]) - 1
      /\ \A i \in 1 .. Len(todo[t]) - 1 : Tail(todo[t])[i] = todo[t][1 + i]
      /\ Head(todo[t]) = todo[t][1] /\ Len(todo[t]) >= 1 /\ Head(todo[t]) \in Jobs
  BY <1>1
<1>3. /\ new \o Tail(todo[t]) \in Seq(Jobs)
      /\ Len(new \o Tail(todo[t])) = Len(new) + Len(Tail(todo[t]))
  BY <1>2
<1>4. /\ \A i \in 1 .. Len(new) : (new \o Tail(todo[t]))[i] = new[i]
      /\ \A i \in 1 .. Len(Tail(todo[t])) : (new \o Tail(todo[t]))[Len(new) + i] = Tail(todo[t])[i]
  BY <1>2
<1>5. todo'[t] = new \o Tail(todo[t]) /\ todo' \in [Threads -> Seq(Jobs)]
      /\ \A u \in Threads \ {t} : todo'[u] = todo[u]
  BY <1>3 DEF StreamTypes
<1> QED
  BY <1>2, <1>3, <1>4, <1>5 DEF Turn

\* Where the jobs after a turn come from.
LEMMA TurnFrom ==
  ASSUME StreamTypes, NEW t \in Threads, NEW k, NEW new, Turn(t, k, new),
         NEW u \in Threads, NEW j \in 1 .. Len(todo'[u])
  PROVE  \/ u # t /\ todo'[u] = todo[u] /\ j \in 1 .. Len(todo[u])
         \/ u = t /\ j \in 1 .. Len(new) /\ todo'[u][j] = new[j]
         \/ /\ u = t /\ j - Len(new) + k \in k + 1 .. Len(todo[u]) /\ j > Len(new)
            /\ todo'[u][j] = todo[u][j - Len(new) + k]
<1>1. Len(todo[u]) \in Nat /\ Len(new) \in Nat /\ k \in {0, 1} /\ Len(todo[t]) \in Nat
  BY DEF Turn, StreamTypes
<1>2. CASE u # t
  BY <1>2 DEF Turn
<1>3. CASE u = t /\ j <= Len(new)
  BY <1>1, <1>3 DEF Turn
<1>4. CASE u = t /\ j > Len(new)
  <2>1. Len(todo'[t]) = Len(new) + (Len(todo[t]) - k)
    BY DEF Turn
  <2>2. j - Len(new) \in 1 .. Len(todo[t]) - k
    BY <1>1, <1>4, <2>1
  <2>3. todo'[t][Len(new) + (j - Len(new))] = todo[t][k + (j - Len(new))]
    BY <2>2 DEF Turn
  <2>4. Len(new) + (j - Len(new)) = j /\ k + (j - Len(new)) = j - Len(new) + k
    BY <1>1
  <2> QED
    BY <1>1, <1>4, <2>2, <2>3, <2>4
<1> QED
  BY <1>1, <1>2, <1>3, <1>4

\* Nobody has to do it before and it is not new.
LEMMA TurnNone ==
  ASSUME StreamTypes, NEW t \in Threads, NEW k, NEW new, Turn(t, k, new),
         NEW x, None(x), Lacks(new, x)
  PROVE  None(x)'
<1> SUFFICES ASSUME NEW u \in Threads, NEW j \in 1 .. Len(todo'[u]) PROVE todo'[u][j] # x
  BY DEF None
<1>1. k \in {0, 1} /\ Len(todo[u]) \in Nat
  BY DEF Turn, StreamTypes
<1>2. k + 1 .. Len(todo[u]) \subseteq 1 .. Len(todo[u])
  BY <1>1
<1> QED
  BY <1>2, TurnFrom DEF None, Lacks

\* It stays where it is, in front of the same things.
LEMMA TurnOne ==
  ASSUME StreamTypes, NEW t \in Threads, NEW k, NEW new, Turn(t, k, new),
         NEW x, One(x), Lacks(new, x), k = 0 \/ todo[t][1] # x
  PROVE  One(x)'
<1>0. k \in {0, 1} /\ new \in Seq(Jobs) /\ Len(new) \in Nat /\ \A u \in Threads : Len(todo[u]) \in Nat
  BY DEF Turn, StreamTypes
<1>10. PICK u \in Threads : \E i \in 1 .. Len(todo[u]) :
        /\ todo[u][i] = x
        /\ \A v \in Threads : \A j \in 1 .. Len(todo[v]) : todo[v][j] = x => v = u /\ j = i
  BY DEF One
<1>1. PICK i \in 1 .. Len(todo[u]) :
        /\ todo[u][i] = x
        /\ \A v \in Threads : \A j \in 1 .. Len(todo[v]) : todo[v][j] = x => v = u /\ j = i
  BY <1>10
<1> DEFINE m == IF u = t THEN Len(new) + (i - k) ELSE i
<1>2. m \in 1 .. Len(todo'[u]) /\ todo'[u][m] = x
  <2>1. CASE u # t
    BY <1>1, <2>1 DEF Turn
  <2>2. CASE u = t
    <3>1. i > k
      BY <1>0, <1>1, <2>2
    <3>2. i - k \in 1 .. Len(todo[t]) - k /\ k + (i - k) = i
      BY <1>0, <2>2, <3>1
    <3>3. todo'[t][Len(new) + (i - k)] = todo[t][k + (i - k)]
      BY <3>2 DEF Turn
    <3>4. Len(todo'[t]) = Len(new) + (Len(todo[t]) - k)
      BY DEF Turn
    <3> QED
      BY <1>0, <1>1, <2>2, <3>2, <3>3, <3>4
  <2> QED
    BY <2>1, <2>2
<1>3. ASSUME NEW v \in Threads, NEW j \in 1 .. Len(todo'[v]), todo'[v][j] = x PROVE v = u /\ j = m
  <2>1. CASE v # t /\ todo'[v] = todo[v] /\ j \in 1 .. Len(todo[v])
    BY <1>1, <1>3, <2>1
  <2>2. CASE v = t /\ j \in 1 .. Len(new) /\ todo'[v][j] = new[j]
    BY <1>3, <2>2 DEF Lacks
  <2>3. CASE /\ v = t /\ j - Len(new) + k \in k + 1 .. Len(todo[v]) /\ j > Len(new)
             /\ todo'[v][j] = todo[v][j - Len(new) + k]
    <3>1. j - Len(new) + k \in 1 .. Len(todo[v])
      BY <1>0, <2>3
    <3>2. v = u /\ j - Len(new) + k = i
      BY <1>1, <1>3, <2>3, <3>1
    <3> QED
      BY <1>0, <2>3, <3>2
  <2> QED
    BY <2>1, <2>2, <2>3, TurnFrom
<1> HIDE DEF m
<1> QED
  BY <1>2, <1>3 DEF One

\* It is new.
LEMMA TurnAdds ==
  ASSUME StreamTypes, NEW t \in Threads, NEW k, NEW new, Turn(t, k, new),
         NEW x, None(x), HasOne(new, x)
  PROVE  One(x)'
<1>0. k \in {0, 1} /\ Len(new) \in Nat /\ \A u \in Threads : Len(todo[u]) \in Nat
  BY DEF Turn, StreamTypes
<1>1. PICK i \in 1 .. Len(new) : new[i] = x /\ \A j \in 1 .. Len(new) : new[j] = x => j = i
  BY DEF HasOne
<1>2. i \in 1 .. Len(todo'[t]) /\ todo'[t][i] = x
  <2>1. Len(todo'[t]) = Len(new) + (Len(todo[t]) - k) /\ k <= Len(todo[t])
    BY DEF Turn
  <2> QED
    BY <1>0, <1>1, <2>1 DEF Turn
<1>3. ASSUME NEW v \in Threads, NEW j \in 1 .. Len(todo'[v]), todo'[v][j] = x PROVE v = t /\ j = i
  <2>1. k + 1 .. Len(todo[v]) \subseteq 1 .. Len(todo[v])
    BY <1>0
  <2>2. CASE v # t /\ todo'[v] = todo[v] /\ j \in 1 .. Len(todo[v])
    BY <1>3, <2>2 DEF None
  <2>3. CASE v = t /\ j \in 1 .. Len(new) /\ todo'[v][j] = new[j]
    BY <1>1, <1>3, <2>3
  <2>4. CASE /\ v = t /\ j - Len(new) + k \in k + 1 .. Len(todo[v]) /\ j > Len(new)
             /\ todo'[v][j] = todo[v][j - Len(new) + k]
    BY <1>3, <2>1, <2>4 DEF None
  <2> QED
    BY <2>2, <2>3, <2>4, TurnFrom
<1> QED
  BY <1>2, <1>3 DEF One

\* It is done.
LEMMA TurnTakes ==
  ASSUME StreamTypes, NEW t \in Threads, NEW new, Turn(t, 1, new),
         NEW x, One(x), todo[t][1] = x, Lacks(new, x)
  PROVE  None(x)'
<1>0. Len(new) \in Nat /\ 1 <= Len(todo[t]) /\ \A u \in Threads : Len(todo[u]) \in Nat
  BY DEF Turn, StreamTypes
<1>1. \A v \in Threads : \A j \in 1 .. Len(todo[v]) : todo[v][j] = x => v = t /\ j = 1
  BY <1>0 DEF One
<1> SUFFICES ASSUME NEW u \in Threads, NEW j \in 1 .. Len(todo'[u]), todo'[u][j] = x PROVE FALSE
  BY DEF None
<1>2. CASE u # t /\ todo'[u] = todo[u] /\ j \in 1 .. Len(todo[u])
  BY <1>1, <1>2
<1>3. CASE u = t /\ j \in 1 .. Len(new) /\ todo'[u][j] = new[j]
  BY <1>3 DEF Lacks
<1>4. CASE /\ u = t /\ j - Len(new) + 1 \in 1 + 1 .. Len(todo[u]) /\ j > Len(new)
           /\ todo'[u][j] = todo[u][j - Len(new) + 1]
  BY <1>0, <1>1, <1>4
<1> QED
  BY <1>2, <1>3, <1>4, TurnFrom

\* Someone has it.
LEMMA OneIsSome == \A x : One(x) => ~None(x)
BY DEF One, None

\* What has to be done stays to be done until it is done.
LEMMA TurnKeeps ==
  ASSUME StreamTypes, NEW t \in Threads, NEW k, NEW new, Turn(t, k, new),
         NEW x, ~None(x), k = 0 \/ todo[t][1] # x
  PROVE  ~None(x)'
<1>0. k \in {0, 1} /\ Len(new) \in Nat /\ \A u \in Threads : Len(todo[u]) \in Nat
  BY DEF Turn, StreamTypes
<1>10. PICK u \in Threads : \E i \in 1 .. Len(todo[u]) : todo[u][i] = x
  BY DEF None
<1>1. PICK i \in 1 .. Len(todo[u]) : todo[u][i] = x
  BY <1>10
<1>2. CASE u # t
  BY <1>1, <1>2 DEF Turn, None
<1>3. CASE u = t
  <2>1. i > k
    BY <1>0, <1>1, <1>3
  <2>2. i - k \in 1 .. Len(todo[t]) - k /\ k + (i - k) = i
    BY <1>0, <1>3, <2>1
  <2>3. todo'[t][Len(new) + (i - k)] = x
    BY <1>1, <1>3, <2>2 DEF Turn
  <2>4. Len(todo'[t]) = Len(new) + (Len(todo[t]) - k)
    BY DEF Turn
  <2>5. Len(new) + (i - k) \in 1 .. Len(todo'[t])
    BY <1>0, <2>2, <2>4
  <2> QED
    BY <2>3, <2>5 DEF None
<1> QED
  BY <1>2, <1>3

\* What is new has to be done.
LEMMA TurnNew ==
  ASSUME StreamTypes, NEW t \in Threads, NEW k, NEW new, Turn(t, k, new), NEW x, HasOne(new, x)
  PROVE  ~None(x)'
<1>0. k \in {0, 1} /\ Len(new) \in Nat /\ Len(todo[t]) \in Nat /\ k <= Len(todo[t])
  BY DEF Turn, StreamTypes
<1>1. PICK i \in 1 .. Len(new) : new[i] = x
  BY DEF HasOne
<1>2. Len(todo'[t]) = Len(new) + (Len(todo[t]) - k)
  BY DEF Turn
<1>3. i \in 1 .. Len(todo'[t]) /\ todo'[t][i] = x
  BY <1>0, <1>1, <1>2 DEF Turn
<1> QED
  BY <1>3 DEF None

-----------------------------------------------------------------------------
(* The invariants *)

\* stream_close_func is to be called.
CloseFunc == <<"close_func">>

\* Whose job it is to free a pipe: the stream's as long as it has the pointer,
\* then the thread's that has taken the pointer out of the stream; the one that
\* has set CLOSED frees what the stream still has.
PipesInv ==
  /\ s.status \in Opening => Pipes \ {"pushed"} \subseteq s.held
  /\ s.pipe["pushed"] = "ACTIVE" => "pushed" \in s.held
  /\ \A p \in Pipes : IF p \in s.held THEN None(Free(p))
                      ELSE \/ freed[p] = 0 /\ One(Free(p))
                           \/ freed[p] = 1 /\ None(Free(p))
  /\ None(CloseFunc) \/ (One(CloseFunc) /\ s.status = "CLOSED")
  /\ \A p \in s.held : freed[p] = IF s.status = "CLOSED" /\ None(CloseFunc) THEN 1 ELSE 0

\* The timer of direction d, set with mark m, has gone off; a wait is about to
\* set it, or has failed to.
Fired(d, m) == ~None(<<"times_up", TimerOf(d), m>>)

Setting(d, m) == ~None(<<"set", TimerOf(d), m>>) \/ ~None(<<"unset", d, m>>)

\* Only the user sets the timer of a wait, and has nothing else to do then.
OnlyUser ==
  \A t \in Threads : \A i \in 1 .. Len(todo[t]) :
    todo[t][i][1] \in {"set", "unset"} => t = "user" /\ Len(todo[t]) = 1

\* Marks only grow; a wait that is about to set its timer has a mark that the
\* timer never had, and no event if the mark is still the stream's.
MarksInv ==
  /\ OnlyUser
  /\ \A d \in Dirs, m \in Nat :
       Fired(d, m) \/ armed[TimerOf(d)] = m => m <= s.mark[TimerOf(d)]
  /\ \A d \in Dirs, m \in Nat : Setting(d, m) =>
       /\ 0 < m /\ m <= s.mark[TimerOf(d)]
       /\ \A n \in Nat : Fired(d, n) \/ armed[TimerOf(d)] = n => n < m
       /\ d = "recv" /\ m = s.mark["recv_timer"] => None(Event("recv"))

\* WaitsKept; there is one event for a wait for data at most; a user without its
\* pipe waits for nothing.
WaitsInv ==
  /\ \A d \in Dirs : owed[d] # "no" =>
       \/ d \in s.flags \/ ~None(Event(d)) \/ ~None(Free("control")) \/ ~None(CloseFunc)
       \/ d = "recv" /\ stolen
  /\ owed["recv"] = "no" /\ "control" \notin shut => "recv" \notin s.flags /\ None(Event("recv"))
  /\ "recv" \in s.flags => None(Event("recv"))
  /\ s.status = "RST_RECV" => s.recv_hub # <<>>
  /\ None(Event("recv")) \/ One(Event("recv"))
  /\ "control" \in shut => \A d \in Dirs : owed[d] = "no"
  /\ freed["control"] > 0 => "control" \in shut

IInv == StreamTypes /\ PipesInv /\ MarksInv /\ WaitsInv

-----------------------------------------------------------------------------
(* Pipes *)

\* The pipes of G are taken out of the stream, to be freed by thread t.
LEMMA PipesMove ==
  ASSUME StreamTypes, PipesInv, NEW t \in Threads, NEW k, NEW new, Turn(t, k, new),
         k = 0 \/ todo[t][1][1] \notin {"free", "close_func"},
         NEW G \in SUBSET s.held, s'.held = s.held \ G, freed' = freed,
         \A p \in G : HasOne(new, Free(p)),
         \A p \in Pipes \ G : Lacks(new, Free(p)),
         Lacks(new, CloseFunc),
         s'.status = "CLOSED" <=> s.status = "CLOSED",
         G # {} => s.status # "CLOSED",
         s'.status \in Opening => s.status \in Opening /\ G \subseteq {"pushed"},
         s'.pipe["pushed"] = "ACTIVE" => s.pipe["pushed"] = "ACTIVE" /\ "pushed" \notin G
  PROVE  PipesInv'
<1>0. k = 0 \/ (todo[t][1] # CloseFunc /\ \A p : todo[t][1] # Free(p))
  BY DEF CloseFunc, Free
<1>1. /\ None(CloseFunc) => None(CloseFunc)'
      /\ One(CloseFunc) => One(CloseFunc)'
  BY <1>0, TurnNone, TurnOne
<1>2. (None(CloseFunc) <=> None(CloseFunc)') /\ (None(CloseFunc)' \/ (One(CloseFunc)' /\ s'.status = "CLOSED"))
  <2>1. One(CloseFunc)' => ~None(CloseFunc)'
    BY DEF One, None
  <2> QED
    BY <1>1, <2>1, OneIsSome DEF PipesInv
<1>3. ASSUME NEW p \in Pipes
      PROVE  IF p \in s'.held THEN None(Free(p))'
             ELSE \/ freed'[p] = 0 /\ One(Free(p))'
                  \/ freed'[p] = 1 /\ None(Free(p))'
  <2>1. CASE p \in G
    <3>1. None(Free(p)) /\ HasOne(new, Free(p)) /\ p \notin s'.held
      BY <2>1 DEF PipesInv
    <3>2. One(Free(p))'
      BY <3>1, TurnAdds
    <3>3. freed[p] = 0
      BY <2>1 DEF PipesInv
    <3> QED
      BY <3>1, <3>2, <3>3
  <2>2. CASE p \notin G
    <3>1. /\ None(Free(p)) => None(Free(p))'
          /\ One(Free(p)) => One(Free(p))'
      BY <1>0, <2>2, TurnNone, TurnOne
    <3>2. p \in s'.held <=> p \in s.held
      BY <2>2
    <3> QED
      BY <3>1, <3>2 DEF PipesInv
  <2> QED
    BY <2>1, <2>2
<1>4. \A p \in s'.held : freed'[p] = IF s'.status = "CLOSED" /\ None(CloseFunc)' THEN 1 ELSE 0
  BY <1>2 DEF PipesInv
<1>5. /\ s'.status \in Opening => Pipes \ {"pushed"} \subseteq s'.held
      /\ s'.pipe["pushed"] = "ACTIVE" => "pushed" \in s'.held
  BY DEF PipesInv
<1> QED
  BY <1>2, <1>3, <1>4, <1>5 DEF PipesInv

\* The stream is closed: thread t frees what it has.
LEMMA PipesClosed ==
  ASSUME StreamTypes, PipesInv, NEW t \in Threads, NEW k, NEW new, Turn(t, k, new),
         k = 0 \/ todo[t][1][1] \notin {"free", "close_func"},
         HasOne(new, CloseFunc), \A p \in Pipes : Lacks(new, Free(p)),
         s.status # "CLOSED", s'.status = "CLOSED",
         s'.held = s.held, s'.pipe = s.pipe, freed' = freed
  PROVE  PipesInv'
<1>0. k = 0 \/ (todo[t][1] # CloseFunc /\ \A p : todo[t][1] # Free(p))
  BY DEF CloseFunc, Free
<1>1. None(CloseFunc)
  BY DEF PipesInv
<1>2. One(CloseFunc)' /\ ~None(CloseFunc)'
  <2>1. One(CloseFunc)'
    BY <1>1, TurnAdds
  <2>2. One(CloseFunc)' => ~None(CloseFunc)'
    BY DEF One, None
  <2> QED
    BY <2>1, <2>2
<1>3. \A p \in Pipes : /\ None(Free(p)) => None(Free(p))'
                       /\ One(Free(p)) => One(Free(p))'
  BY <1>0, TurnNone, TurnOne
<1>4. \A p \in s.held : freed[p] = 0
  BY DEF PipesInv
<1>5. s'.status \notin Opening
  BY DEF Opening
<1> QED
  BY <1>2, <1>3, <1>4, <1>5 DEF PipesInv

\* SESSION_FREE_PIPE of a pipe that was taken out.
LEMMA PipesFree ==
  ASSUME StreamTypes, PipesInv, NEW t \in Threads, Turn(t, 1, <<>>), NEW q \in Pipes,
         todo[t][1] = Free(q), s' = s,
         freed' = [p \in Pipes |-> IF p \in {q} THEN freed[p] + 1 ELSE freed[p]]
  PROVE  PipesInv'
<1>0. \A x : Lacks(<<>>, x)
  BY DEF Lacks
<1>1. CloseFunc # Free(q) /\ \A p \in Pipes \ {q} : Free(p) # Free(q)
  BY DEF CloseFunc, Free
<1>2. /\ None(CloseFunc) => None(CloseFunc)'
      /\ One(CloseFunc) => One(CloseFunc)'
  BY <1>0, <1>1, TurnNone, TurnOne
<1>3. None(CloseFunc) <=> None(CloseFunc)'
  <2>1. One(CloseFunc)' => ~None(CloseFunc)'
    BY DEF One, None
  <2> QED
    BY <1>2, <2>1, OneIsSome DEF PipesInv
<1>4. ~None(Free(q))
  BY DEF None, Turn, StreamTypes
<1>5. q \notin s.held /\ freed[q] = 0 /\ One(Free(q))
  BY <1>4 DEF PipesInv
<1>6. freed'[q] = 1 /\ None(Free(q))'
  BY <1>0, <1>5, TurnTakes
<1>7. \A p \in Pipes \ {q} : /\ freed'[p] = freed[p]
                             /\ None(Free(p)) => None(Free(p))'
                             /\ One(Free(p)) => One(Free(p))'
  BY <1>0, <1>1, TurnNone, TurnOne
<1>8. \A p \in Pipes : IF p \in s'.held THEN None(Free(p))'
                       ELSE \/ freed'[p] = 0 /\ One(Free(p))'
                            \/ freed'[p] = 1 /\ None(Free(p))'
  BY <1>5, <1>6, <1>7 DEF PipesInv
<1>9. \A p \in s.held : p \in Pipes \ {q} /\ freed'[p] = freed[p]
  BY <1>5, <1>7 DEF StreamTypes, Streams
<1> QED
  BY <1>2, <1>3, <1>8, <1>9 DEF PipesInv

\* stream_close_func
LEMMA PipesFreeAll ==
  ASSUME StreamTypes, PipesInv, NEW t \in Threads, Turn(t, 1, <<>>),
         todo[t][1] = CloseFunc, s' = s,
         freed' = [p \in Pipes |-> IF p \in s.held THEN freed[p] + 1 ELSE freed[p]]
  PROVE  PipesInv'
<1>0. \A x : Lacks(<<>>, x)
  BY DEF Lacks
<1>1. \A p \in Pipes : Free(p) # CloseFunc
  BY DEF CloseFunc, Free
<1>2. ~None(CloseFunc)
  BY DEF None, Turn, StreamTypes
<1>3. One(CloseFunc) /\ s.status = "CLOSED" /\ \A p \in s.held : freed[p] = 0
  BY <1>2 DEF PipesInv
<1>4. None(CloseFunc)'
  BY <1>0, <1>3, TurnTakes
<1>5. \A p \in Pipes : /\ None(Free(p)) => None(Free(p))'
                       /\ One(Free(p)) => One(Free(p))'
  BY <1>0, <1>1, TurnNone, TurnOne
<1>6. s.held \subseteq Pipes
  BY DEF StreamTypes, Streams
<1>7. \A p \in Pipes : freed'[p] = IF p \in s.held THEN 1 ELSE freed[p]
  BY <1>3, <1>6
<1> QED
  BY <1>3, <1>4, <1>5, <1>6, <1>7 DEF PipesInv

-----------------------------------------------------------------------------
(* Marks *)

\* The two timers of waits.
LEMMA TimersRight ==
  /\ \A d \in Dirs : TimerOf(d) \in {"recv_timer", "send_timer"} /\ TimerOf(d) \in Timers
  /\ \A d, e \in Dirs : TimerOf(d) = TimerOf(e) => d = e
  /\ TimerOf("recv") = "recv_timer" /\ TimerOf("send") = "send_timer"
  /\ \A x \in {"recv_timer", "send_timer"} : \E d \in Dirs : x = TimerOf(d)
BY DEF TimerOf, Dirs, Timers

\* Nobody is about to set a timer who was not before, and no timer has a mark
\* that it did not have.
LEMMA MarksKeep ==
  ASSUME StreamTypes, MarksInv, OnlyUser',
         \A d \in Dirs, m \in Nat : Setting(d, m)' => Setting(d, m),
         \A d \in Dirs, m \in Nat : Fired(d, m)' \/ armed'[TimerOf(d)] = m =>
           Fired(d, m) \/ armed[TimerOf(d)] = m \/ m = 0,
         s' \in Streams, \A d \in Dirs : s'.mark[TimerOf(d)] >= s.mark[TimerOf(d)],
         \/ None(Event("recv"))'
         \/ ~None(Event("recv")) /\ s'.mark["recv_timer"] = s.mark["recv_timer"]
         \/ \A m \in Nat : Setting("recv", m) => m < s'.mark["recv_timer"]
  PROVE  MarksInv'
<1>1. \A x \in Timers : s.mark[x] \in Nat /\ s'.mark[x] \in Nat
  BY DEF StreamTypes, Streams
<1>2. \A d \in Dirs : s.mark[TimerOf(d)] \in Nat /\ s'.mark[TimerOf(d)] \in Nat
  BY <1>1, TimersRight
<1>3. \A d \in Dirs, m \in Nat :
        Fired(d, m)' \/ armed'[TimerOf(d)] = m => m <= s'.mark[TimerOf(d)]
  BY <1>2 DEF MarksInv
<1>4. ASSUME NEW d \in Dirs, NEW m \in Nat, Setting(d, m)'
      PROVE  /\ 0 < m /\ m <= s'.mark[TimerOf(d)]
             /\ \A n \in Nat : Fired(d, n)' \/ armed'[TimerOf(d)] = n => n < m
             /\ d = "recv" /\ m = s'.mark["recv_timer"] => None(Event("recv"))'
  <2>1. Setting(d, m)
    BY <1>4
  <2>2. 0 < m /\ m <= s.mark[TimerOf(d)]
    BY <2>1 DEF MarksInv
  <2>3. \A n \in Nat : Fired(d, n) \/ armed[TimerOf(d)] = n => n < m
    BY <2>1 DEF MarksInv
  <2>4. \A n \in Nat : Fired(d, n)' \/ armed'[TimerOf(d)] = n => n < m
    BY <2>2, <2>3
  <2>5. m <= s'.mark[TimerOf(d)]
    BY <1>2, <2>2
  <2>6. ASSUME d = "recv", m = s'.mark["recv_timer"] PROVE None(Event("recv"))'
    <3>1. ~(m < s'.mark["recv_timer"])
      BY <2>6
    <3>2. s.mark["recv_timer"] = s'.mark["recv_timer"] => None(Event("recv"))
      BY <2>1, <2>6 DEF MarksInv
    <3> QED
      BY <2>1, <2>6, <3>1, <3>2
  <2> QED
    BY <2>2, <2>4, <2>5, <2>6
<1> QED
  BY <1>3, <1>4 DEF MarksInv

\* Whoever had nothing to do, or did something, does not share with a set timer.
LEMMA TurnOnly ==
  ASSUME StreamTypes, OnlyUser, NEW t \in Threads, NEW k, NEW new, Turn(t, k, new),
         k = 0 => Idle(t),
         \A i \in 1 .. Len(new) : new[i][1] \in {"set", "unset"} => t = "user" /\ Len(todo'[t]) = 1
  PROVE  OnlyUser'
<1> SUFFICES ASSUME NEW u \in Threads, NEW j \in 1 .. Len(todo'[u]), todo'[u][j][1] \in {"set", "unset"}
             PROVE  u = "user" /\ Len(todo'[u]) = 1
  BY DEF OnlyUser
<1>1. CASE u # t /\ todo'[u] = todo[u] /\ j \in 1 .. Len(todo[u])
  BY <1>1 DEF OnlyUser
<1>2. CASE u = t /\ j \in 1 .. Len(new) /\ todo'[u][j] = new[j]
  BY <1>2
<1>3. CASE /\ u = t /\ j - Len(new) + k \in k + 1 .. Len(todo[u]) /\ j > Len(new)
           /\ todo'[u][j] = todo[u][j - Len(new) + k]
  <2>1. k \in {0, 1} /\ Len(new) \in Nat /\ Len(todo[u]) \in Nat /\ (k = 0 => Len(todo[t]) = 0)
    BY DEF Turn, StreamTypes, Idle
  <2>2. j - Len(new) + k \in 1 .. Len(todo[u]) /\ k = 1
    BY <1>3, <2>1
  <2>3. Len(todo[u]) = 1
    BY <1>3, <2>2 DEF OnlyUser
  <2> QED
    BY <1>3, <2>1, <2>2, <2>3
<1> QED
  BY <1>1, <1>2, <1>3, TurnFrom

\* A turn without timers of waits.
LEMMA MarksMove ==
  ASSUME StreamTypes, MarksInv, NEW t \in Threads, NEW k, NEW new, Turn(t, k, new),
         k = 0 => Idle(t),
         \A i \in 1 .. Len(new) : new[i][1] \notin {"times_up", "set", "unset"},
         \A d \in Dirs : armed'[TimerOf(d)] \in {0, armed[TimerOf(d)]},
         s' \in Streams, \A d \in Dirs : s'.mark[TimerOf(d)] >= s.mark[TimerOf(d)],
         \/ Lacks(new, Event("recv"))
         \/ \A m \in Nat : Setting("recv", m) => m < s'.mark["recv_timer"]
  PROVE  MarksInv'
<1>1. OnlyUser'
  BY TurnOnly DEF MarksInv
<1>2. ASSUME NEW d \in Dirs, NEW m \in Nat
      PROVE  /\ Lacks(new, <<"times_up", TimerOf(d), m>>)
             /\ Lacks(new, <<"set", TimerOf(d), m>>)
             /\ Lacks(new, <<"unset", d, m>>)
  BY DEF Lacks
<1>3. \A d \in Dirs, m \in Nat : Setting(d, m)' => Setting(d, m)
  BY <1>2, TurnNone DEF Setting
<1>4. \A d \in Dirs, m \in Nat : Fired(d, m)' => Fired(d, m)
  BY <1>2, TurnNone DEF Fired
<1>5. \A d \in Dirs, m \in Nat : Fired(d, m)' \/ armed'[TimerOf(d)] = m =>
        Fired(d, m) \/ armed[TimerOf(d)] = m \/ m = 0
  BY <1>4
<1>6. \/ None(Event("recv"))'
      \/ \A m \in Nat : Setting("recv", m) => m < s'.mark["recv_timer"]
      \/ ~None(Event("recv")) /\ s'.mark["recv_timer"] = s.mark["recv_timer"]
  <2>1. CASE \A m \in Nat : Setting("recv", m) => m < s'.mark["recv_timer"]
    BY <2>1
  <2>2. CASE Lacks(new, Event("recv"))
    <3>1. None(Event("recv")) => None(Event("recv"))'
      BY <2>2, TurnNone
    <3>2. CASE s'.mark["recv_timer"] = s.mark["recv_timer"]
      BY <3>1, <3>2
    <3>3. CASE s'.mark["recv_timer"] # s.mark["recv_timer"]
      <4>1. s'.mark["recv_timer"] > s.mark["recv_timer"]
        BY <3>3, TimersRight DEF StreamTypes, Streams, Dirs
      <4>2. \A m \in Nat : Setting("recv", m) => m <= s.mark["recv_timer"]
        BY TimersRight DEF MarksInv, Dirs
      <4> QED
        BY <4>1, <4>2, TimersRight DEF StreamTypes, Streams
    <3> QED
      BY <3>2, <3>3
  <2> QED
    BY <2>1, <2>2
<1> QED
  BY <1>1, <1>3, <1>5, <1>6, MarksKeep

\* A timer goes off: it has not the mark of a wait that is about to set it.
LEMMA MarksFire ==
  ASSUME StreamTypes, MarksInv, NEW x \in Timers, Idle("timer"),
         Turn("timer", 0, <<<<"times_up", x, armed[x]>>>>),
         armed' = [armed EXCEPT ![x] = 0], s' = s
  PROVE  MarksInv'
<1> DEFINE new == <<<<"times_up", x, armed[x]>>>>
<1>0. "timer" \in Threads /\ new \in Seq(Jobs)
  BY DEF Threads, Turn
<1>1. Len(new) = 1 /\ new[1] = <<"times_up", x, armed[x]>> /\ \A i \in 1 .. Len(new) : i = 1
  OBVIOUS
<1> HIDE DEF new
<1>2. OnlyUser'
  <2>1. \A i \in 1 .. Len(new) : new[i][1] \notin {"set", "unset"}
    BY <1>1
  <2> QED
    BY <1>0, <2>1, TurnOnly DEF MarksInv, new
<1>3. /\ Lacks(new, Event("recv"))
      /\ \A d \in Dirs, m \in Nat : Lacks(new, <<"set", TimerOf(d), m>>) /\ Lacks(new, <<"unset", d, m>>)
  BY <1>1 DEF Lacks, Event
<1>4. \A d \in Dirs, m \in Nat : Setting(d, m)' => Setting(d, m)
  BY <1>0, <1>3, TurnNone DEF Setting, new
<1>5. ASSUME NEW d \in Dirs, NEW m \in Nat, Fired(d, m)' PROVE Fired(d, m) \/ armed[TimerOf(d)] = m
  <2>1. CASE x = TimerOf(d) /\ m = armed[x]
    BY <2>1
  <2>2. CASE ~(x = TimerOf(d) /\ m = armed[x])
    <3>1. <<"times_up", x, armed[x]>> # <<"times_up", TimerOf(d), m>>
      BY <2>2
    <3>2. Lacks(new, <<"times_up", TimerOf(d), m>>)
      BY <1>1, <3>1 DEF Lacks
    <3> QED
      BY <1>0, <1>5, <3>2, TurnNone DEF Fired, new
  <2> QED
    BY <2>1, <2>2
<1>6. \A d \in Dirs : armed'[TimerOf(d)] \in {0, armed[TimerOf(d)]}
  BY TimersRight DEF StreamTypes
<1>7. \A d \in Dirs, m \in Nat : Fired(d, m)' \/ armed'[TimerOf(d)] = m =>
        Fired(d, m) \/ armed[TimerOf(d)] = m \/ m = 0
  BY <1>5, <1>6
<1>8. None(Event("recv")) => None(Event("recv"))'
  BY <1>0, <1>3, TurnNone DEF new
<1>9. s' \in Streams /\ \A d \in Dirs : s'.mark[TimerOf(d)] >= s.mark[TimerOf(d)]
  BY TimersRight DEF StreamTypes, Streams
<1> QED
  BY <1>2, <1>4, <1>7, <1>8, <1>9, MarksKeep

\* A user that has nothing to do is about to set no timer.
LEMMA IdleSetsNone ==
  ASSUME StreamTypes, OnlyUser, Idle("user")
  PROVE  \A d \in Dirs, m \in Nat : ~Setting(d, m)
<1> SUFFICES ASSUME NEW d \in Dirs, NEW m \in Nat, Setting(d, m) PROVE FALSE
  OBVIOUS
<1>1. PICK t \in Threads : \E i \in 1 .. Len(todo[t]) :
         todo[t][i] = <<"set", TimerOf(d), m>> \/ todo[t][i] = <<"unset", d, m>>
  BY DEF Setting, None
<1>2. PICK i \in 1 .. Len(todo[t]) :
         todo[t][i] = <<"set", TimerOf(d), m>> \/ todo[t][i] = <<"unset", d, m>>
  BY <1>1
<1>3. todo[t][i][1] \in {"set", "unset"}
  BY <1>2
<1>4. t = "user" /\ Len(todo[t]) = 1
  BY <1>3 DEF OnlyUser
<1> QED
  BY <1>4 DEF Idle, StreamTypes, Threads

\* A wait starts: its mark is new.
LEMMA MarksStart ==
  ASSUME StreamTypes, MarksInv, NEW d \in Dirs, Idle("user"),
         NEW m, m = s.mark[TimerOf(d)] + 1, Turn("user", 0, <<<<"set", TimerOf(d), m>>>>),
         armed' = armed, s' \in Streams, s'.mark = [s.mark EXCEPT ![TimerOf(d)] = m],
         d = "recv" => None(Event("recv"))
  PROVE  MarksInv'
<1> DEFINE new == <<<<"set", TimerOf(d), m>>>>
<1>0. "user" \in Threads /\ new \in Seq(Jobs)
  BY DEF Threads, Turn
<1>1. Len(new) = 1 /\ new[1] = <<"set", TimerOf(d), m>> /\ \A i \in 1 .. Len(new) : i = 1
  OBVIOUS
<1> HIDE DEF new
<1>2. OnlyUser'
  <2>1. Len(todo["user"]) = 0 /\ Len(todo'["user"]) = 1
    BY <1>0, <1>1 DEF Idle, Turn, new
  <2> QED
    BY <1>0, <2>1, TurnOnly DEF MarksInv, new
<1>3. /\ Lacks(new, Event("recv"))
      /\ \A e \in Dirs, n \in Nat :
           /\ Lacks(new, <<"unset", e, n>>) /\ Lacks(new, <<"times_up", TimerOf(e), n>>)
           /\ ~(e = d /\ n = m) => Lacks(new, <<"set", TimerOf(e), n>>)
  <2>1. Lacks(new, Event("recv"))
    BY <1>1 DEF Lacks, Event
  <2>2. ASSUME NEW e \in Dirs, NEW n \in Nat
        PROVE  /\ Lacks(new, <<"unset", e, n>>) /\ Lacks(new, <<"times_up", TimerOf(e), n>>)
               /\ ~(e = d /\ n = m) => Lacks(new, <<"set", TimerOf(e), n>>)
    <3>1. Lacks(new, <<"unset", e, n>>) /\ Lacks(new, <<"times_up", TimerOf(e), n>>)
      BY <1>1 DEF Lacks
    <3>2. ASSUME ~(e = d /\ n = m) PROVE <<"set", TimerOf(e), n>> # <<"set", TimerOf(d), m>>
      BY <3>2, TimersRight
    <3> QED
      BY <1>1, <3>1, <3>2 DEF Lacks
  <2> QED
    BY <2>1, <2>2
<1>4. \A e \in Dirs, n \in Nat : Setting(e, n)' => e = d /\ n = m
  BY <1>0, <1>3, IdleSetsNone, TurnNone DEF Setting, new, MarksInv
<1>5. \A e \in Dirs, n \in Nat : Fired(e, n)' => Fired(e, n)
  BY <1>0, <1>3, TurnNone DEF Fired, new
<1>6. None(Event("recv")) => None(Event("recv"))'
  BY <1>0, <1>3, TurnNone DEF new
<1>7. /\ \A e \in Dirs : s.mark[TimerOf(e)] \in Nat /\ s'.mark[TimerOf(e)] \in Nat
      /\ \A e \in Dirs : s'.mark[TimerOf(e)] >= s.mark[TimerOf(e)]
      /\ s'.mark[TimerOf(d)] = m /\ m \in Nat /\ m > s.mark[TimerOf(d)]
  BY TimersRight DEF StreamTypes, Streams
<1>8. \A e \in Dirs, n \in Nat : Fired(e, n)' \/ armed'[TimerOf(e)] = n => n <= s.mark[TimerOf(e)]
  BY <1>5 DEF MarksInv
<1>9. \A e \in Dirs, n \in Nat : Fired(e, n)' \/ armed'[TimerOf(e)] = n => n <= s'.mark[TimerOf(e)]
  BY <1>7, <1>8
<1>10. \A n \in Nat : Fired(d, n)' \/ armed'[TimerOf(d)] = n => n < m
  BY <1>7, <1>8
<1> QED
  BY <1>2, <1>4, <1>6, <1>7, <1>9, <1>10 DEF MarksInv

\* The timer of a wait is set, and the user has nothing more to do.
LEMMA MarksSet ==
  ASSUME StreamTypes, MarksInv, NEW t \in Threads, Turn(t, 1, <<>>),
         NEW d \in Dirs, NEW m \in Nat, todo[t][1] = <<"set", TimerOf(d), m>>,
         armed' = [armed EXCEPT ![TimerOf(d)] = m], s' = s
  PROVE  MarksInv'
<1>0. 1 \in 1 .. Len(todo[t]) /\ Len(todo[t]) \in Nat
  BY DEF Turn, StreamTypes
<1>1. Setting(d, m)
  BY <1>0 DEF Setting, None
<1>2. todo[t][1][1] = "set"
  OBVIOUS
<1>3. t = "user" /\ Len(todo[t]) = 1
  BY <1>0, <1>2 DEF MarksInv, OnlyUser
<1>4. Len(todo'["user"]) = 0
  BY <1>3 DEF Turn
<1>5. OnlyUser'
  <2>1. \A i \in 1 .. Len(<<>>) : FALSE
    OBVIOUS
  <2> QED
    BY <2>1, TurnOnly DEF MarksInv
<1>6. \A e \in Dirs, n \in Nat : ~Setting(e, n)'
  <2>1. \A u \in Threads : \A i \in 1 .. Len(todo'[u]) : todo'[u][i][1] \notin {"set", "unset"}
    BY <1>4, <1>5 DEF OnlyUser
  <2> QED
    BY <2>1 DEF Setting, None
<1>7. \A e \in Dirs, n \in Nat : Fired(e, n)' => Fired(e, n)
  <2>1. \A x : Lacks(<<>>, x)
    BY DEF Lacks
  <2> QED
    BY <2>1, TurnNone DEF Fired
<1>8. m <= s.mark[TimerOf(d)]
  BY <1>1 DEF MarksInv
<1>9. \A e \in Dirs : armed'[TimerOf(e)] = IF e = d THEN m ELSE armed[TimerOf(e)]
  BY TimersRight DEF StreamTypes
<1>10. \A e \in Dirs, n \in Nat : Fired(e, n)' \/ armed'[TimerOf(e)] = n => n <= s'.mark[TimerOf(e)]
  BY <1>7, <1>8, <1>9 DEF MarksInv
<1> QED
  BY <1>5, <1>6, <1>10 DEF MarksInv

\* It could not be set.
LEMMA MarksNotSet ==
  ASSUME StreamTypes, MarksInv, NEW t \in Threads, NEW d \in Dirs, NEW m \in Nat,
         Turn(t, 1, <<<<"unset", d, m>>>>), todo[t][1] = <<"set", TimerOf(d), m>>,
         armed' = armed, s' = s
  PROVE  MarksInv'
<1> DEFINE new == <<<<"unset", d, m>>>>
<1>0. 1 \in 1 .. Len(todo[t]) /\ Len(todo[t]) \in Nat /\ new \in Seq(Jobs)
  BY DEF Turn, StreamTypes
<1>1. Setting(d, m)
  BY <1>0 DEF Setting, None
<1>2. todo[t][1][1] = "set"
  OBVIOUS
<1>3. t = "user" /\ Len(todo[t]) = 1
  BY <1>0, <1>2 DEF MarksInv, OnlyUser
<1>4. Len(new) = 1 /\ new[1] = <<"unset", d, m>> /\ \A i \in 1 .. Len(new) : i = 1
  OBVIOUS
<1> HIDE DEF new
<1>5. Len(todo'[t]) = 1
  BY <1>3, <1>4 DEF Turn, new
<1>6. OnlyUser'
  BY <1>3, <1>5, TurnOnly DEF MarksInv, new
<1>7. /\ Lacks(new, Event("recv"))
      /\ \A e \in Dirs, n \in Nat :
           /\ Lacks(new, <<"set", TimerOf(e), n>>) /\ Lacks(new, <<"times_up", TimerOf(e), n>>)
           /\ ~(e = d /\ n = m) => Lacks(new, <<"unset", e, n>>)
  <2>1. Lacks(new, Event("recv"))
    BY <1>4 DEF Lacks, Event
  <2>2. ASSUME NEW e \in Dirs, NEW n \in Nat
        PROVE  /\ Lacks(new, <<"set", TimerOf(e), n>>) /\ Lacks(new, <<"times_up", TimerOf(e), n>>)
               /\ ~(e = d /\ n = m) => Lacks(new, <<"unset", e, n>>)
    BY <1>4 DEF Lacks
  <2> QED
    BY <2>1, <2>2
<1>8. \A e \in Dirs, n \in Nat : Setting(e, n)' => Setting(e, n)
  BY <1>1, <1>7, TurnNone DEF Setting, new
<1>9. \A e \in Dirs, n \in Nat : Fired(e, n)' => Fired(e, n)
  BY <1>7, TurnNone DEF Fired, new
<1>10. None(Event("recv")) => None(Event("recv"))'
  BY <1>7, TurnNone DEF new
<1>11. s' \in Streams /\ \A e \in Dirs : s'.mark[TimerOf(e)] >= s.mark[TimerOf(e)]
  BY TimersRight DEF StreamTypes, Streams
<1> QED
  BY <1>6, <1>8, <1>9, <1>10, <1>11, MarksKeep

-----------------------------------------------------------------------------
(* Waits *)

\* A flag is given up for an event, or for the end of the user's pipe.
LEMMA WaitsMove ==
  ASSUME StreamTypes, WaitsInv, NEW t \in Threads, NEW k, NEW new, Turn(t, k, new),
         k = 0 \/ todo[t][1][1] \notin {"event", "free", "close_func"},
         s'.flags \subseteq s.flags, stolen' = stolen,
         \/ owed' = owed /\ ("control" \in shut' <=> "control" \in shut)
         \/ (\A d \in Dirs : owed'[d] = "no") /\ "control" \in shut',
         freed' = freed,
         \A d \in s.flags \ s'.flags : HasOne(new, Event(d)) \/ HasOne(new, Free("control")),
         \/ Lacks(new, Event("recv"))
         \/ HasOne(new, Event("recv")) /\ "recv" \in s.flags \ s'.flags,
         s'.status = "RST_RECV" => s'.recv_hub # <<>>
  PROVE  WaitsInv'
<1>0. k = 0 \/ /\ todo[t][1] # CloseFunc /\ \A p : todo[t][1] # Free(p)
               /\ \A d : todo[t][1] # Event(d)
  BY DEF CloseFunc, Free, Event
<1>1. ASSUME NEW d \in Dirs, owed'[d] # "no"
      PROVE  \/ d \in s'.flags \/ ~None(Event(d))' \/ ~None(Free("control"))' \/ ~None(CloseFunc)'
             \/ d = "recv" /\ stolen'
  <2>1. owed'[d] = owed[d]
    BY <1>1
  <2>2. /\ ~None(Event(d)) => ~None(Event(d))'
        /\ ~None(Free("control")) => ~None(Free("control"))'
        /\ ~None(CloseFunc) => ~None(CloseFunc)'
    BY <1>0, TurnKeeps
  <2>3. CASE d \in s.flags \ s'.flags
    BY <2>3, TurnNew
  <2>4. CASE d \notin s.flags \ s'.flags
    BY <1>1, <2>1, <2>2, <2>4 DEF WaitsInv
  <2> QED
    BY <2>3, <2>4
<1>2. /\ "recv" \in s'.flags => None(Event("recv"))'
      /\ None(Event("recv"))' \/ One(Event("recv"))'
      /\ "recv" \notin s.flags /\ None(Event("recv")) => None(Event("recv"))'
  <2>1. CASE Lacks(new, Event("recv"))
    <3>1. /\ None(Event("recv")) => None(Event("recv"))'
          /\ One(Event("recv")) => One(Event("recv"))'
      BY <1>0, <2>1, TurnNone, TurnOne
    <3> QED
      BY <3>1 DEF WaitsInv
  <2>2. CASE HasOne(new, Event("recv")) /\ "recv" \in s.flags \ s'.flags
    <3>1. None(Event("recv"))
      BY <2>2 DEF WaitsInv
    <3>2. One(Event("recv"))'
      BY <2>2, <3>1, TurnAdds
    <3> QED
      BY <2>2, <3>2
  <2> QED
    BY <2>1, <2>2
<1>3. owed'["recv"] = "no" /\ "control" \notin shut' => "recv" \notin s'.flags /\ None(Event("recv"))'
  BY <1>2 DEF WaitsInv
<1>4. "control" \in shut' => \A d \in Dirs : owed'[d] = "no"
  BY DEF WaitsInv
<1>5. freed'["control"] > 0 => "control" \in shut'
  BY DEF WaitsInv
<1> QED
  BY <1>1, <1>2, <1>3, <1>4, <1>5 DEF WaitsInv

\* A wait starts: it is over at once, and there is an event for it, or it has its flag.
LEMMA WaitsStart ==
  ASSUME StreamTypes, WaitsInv, NEW d \in Dirs, NEW new, Turn("user", 0, new),
         "control" \notin shut, owed[d] = "no", shut' = shut, freed' = freed,
         \A e \in Dirs \ {d} : owed'[e] = owed[e],
         owed'[d] # "no",
         HasOne(new, Event(d)) \/ (d \in s'.flags /\ Lacks(new, Event(d))),
         \A e \in Dirs \ {d} : Lacks(new, Event(e)),
         d = "recv" => "recv" \notin s'.flags \/ Lacks(new, Event(d)),
         d = "recv" => s'.flags \ {"recv"} = s.flags \ {"recv"} /\ stolen' = stolen,
         d = "send" => /\ s'.flags \subseteq s.flags \cup {"send"}
                       /\ "recv" \in s.flags \ s'.flags => stolen'
                       /\ stolen => stolen',
         s'.status = "RST_RECV" => s'.recv_hub # <<>>
  PROVE  WaitsInv'
<1>0. "user" \in Threads
  BY DEF Threads
<1>1. ASSUME NEW e \in Dirs, owed'[e] # "no"
      PROVE  \/ e \in s'.flags \/ ~None(Event(e))' \/ ~None(Free("control"))' \/ ~None(CloseFunc)'
             \/ e = "recv" /\ stolen'
  <2>1. /\ ~None(Event(e)) => ~None(Event(e))'
        /\ ~None(Free("control")) => ~None(Free("control"))'
        /\ ~None(CloseFunc) => ~None(CloseFunc)'
    BY <1>0, TurnKeeps
  <2>2. CASE e = d
    BY <1>0, <2>2, TurnNew
  <2>3. CASE e # d
    BY <1>1, <2>1, <2>3 DEF WaitsInv, Dirs
  <2> QED
    BY <2>2, <2>3
<1>2. CASE d = "recv"
  <2>1. None(Event("recv"))
    BY <1>2 DEF WaitsInv
  <2>2. /\ HasOne(new, Event("recv")) => One(Event("recv"))'
        /\ Lacks(new, Event("recv")) => None(Event("recv"))'
    BY <1>0, <2>1, TurnAdds, TurnNone
  <2>3. "recv" \in s'.flags => None(Event("recv"))'
    BY <1>2, <2>2
  <2> QED
    BY <1>1, <1>2, <2>2, <2>3 DEF WaitsInv
<1>3. CASE d = "send"
  <2>1. Lacks(new, Event("recv"))
    BY <1>3 DEF Dirs
  <2>2. /\ None(Event("recv")) => None(Event("recv"))'
        /\ One(Event("recv")) => One(Event("recv"))'
    BY <1>0, <2>1, TurnNone, TurnOne
  <2>3. owed'["recv"] = owed["recv"] /\ ("recv" \in s'.flags => "recv" \in s.flags)
    BY <1>3 DEF Dirs
  <2> QED
    BY <1>1, <2>2, <2>3 DEF WaitsInv
<1> QED
  BY <1>2, <1>3 DEF Dirs

\* The timer of a wait could not be set: the wait has failed, if it is still the
\* last one.  There is no event for it then.
LEMMA WaitsUnset ==
  ASSUME StreamTypes, MarksInv, WaitsInv, NEW t \in Threads, Turn(t, 1, <<>>),
         NEW d \in Dirs, NEW m \in Nat, todo[t][1] = <<"unset", d, m>>,
         s.mark[TimerOf(d)] = m, s'.flags = s.flags \ {"recv"},
         owed' = [owed EXCEPT ![d] = "no"],
         stolen' <=> (stolen \/ (d = "send" /\ "recv" \in s.flags)),
         shut' = shut, freed' = freed, s'.status = s.status, s'.recv_hub = s.recv_hub
  PROVE  WaitsInv'
<1>0. 1 \in 1 .. Len(todo[t]) /\ \A x : Lacks(<<>>, x)
  BY DEF Turn, StreamTypes, Lacks
<1>1. Setting(d, m)
  BY <1>0 DEF Setting, None
<1>2. d = "recv" => None(Event("recv"))
  BY <1>1, TimersRight DEF MarksInv
<1>3. <<"unset", d, m>> # CloseFunc /\ \A p : <<"unset", d, m>> # Free(p) /\ <<"unset", d, m>> # Event(p)
  BY DEF CloseFunc, Free, Event
<1>4. /\ \A e : ~None(Event(e)) => ~None(Event(e))'
      /\ ~None(Free("control")) => ~None(Free("control"))'
      /\ ~None(CloseFunc) => ~None(CloseFunc)'
  BY <1>3, TurnKeeps
<1>5. /\ None(Event("recv")) => None(Event("recv"))'
      /\ One(Event("recv")) => One(Event("recv"))'
  BY <1>0, <1>3, TurnNone, TurnOne
<1>6. \A e \in Dirs : owed'[e] = IF e = d THEN "no" ELSE owed[e]
  BY DEF StreamTypes
<1>7. ASSUME NEW e \in Dirs, owed'[e] # "no"
      PROVE  \/ e \in s'.flags \/ ~None(Event(e))' \/ ~None(Free("control"))' \/ ~None(CloseFunc)'
             \/ e = "recv" /\ stolen'
  <2>1. e # d /\ owed[e] # "no"
    BY <1>6, <1>7
  <2>2. e = "recv" /\ "recv" \in s.flags => stolen'
    BY <2>1 DEF Dirs
  <2>3. stolen => stolen'
    OBVIOUS
  <2> QED
    BY <1>4, <2>1, <2>2, <2>3 DEF WaitsInv
<1>8. owed'["recv"] = "no" /\ "control" \notin shut => None(Event("recv"))'
  BY <1>2, <1>5, <1>6 DEF WaitsInv, Dirs
<1>9. "control" \in shut => \A e \in Dirs : owed'[e] = "no"
  BY <1>6 DEF WaitsInv
<1> QED
  BY <1>5, <1>7, <1>8, <1>9 DEF WaitsInv

\* The user gets its event.
LEMMA WaitsEvent ==
  ASSUME StreamTypes, WaitsInv, NEW t \in Threads, Turn(t, 1, <<>>),
         NEW d \in Dirs, todo[t][1] = Event(d),
         owed' = IF "control" \in shut THEN owed ELSE [owed EXCEPT ![d] = "no"],
         UNCHANGED <<s, freed, shut, stolen>>
  PROVE  WaitsInv'
<1>0. 1 \in 1 .. Len(todo[t]) /\ \A x : Lacks(<<>>, x)
  BY DEF Turn, StreamTypes, Lacks
<1>1. CloseFunc # Event(d) /\ Free("control") # Event(d) /\ \A e \in Dirs \ {d} : Event(e) # Event(d)
  BY DEF CloseFunc, Free, Event
<1>2. /\ \A e \in Dirs \ {d} : ~None(Event(e)) => ~None(Event(e))'
      /\ ~None(Free("control")) => ~None(Free("control"))'
      /\ ~None(CloseFunc) => ~None(CloseFunc)'
  BY <1>1, TurnKeeps
<1>3. \A e \in Dirs : owed'[e] = IF "control" \notin shut /\ e = d THEN "no" ELSE owed[e]
  BY DEF StreamTypes
<1>4. "control" \in shut => \A e \in Dirs : owed'[e] = "no"
  BY <1>3 DEF WaitsInv
<1>5. ASSUME NEW e \in Dirs, owed'[e] # "no"
      PROVE  \/ e \in s'.flags \/ ~None(Event(e))' \/ ~None(Free("control"))' \/ ~None(CloseFunc)'
             \/ e = "recv" /\ stolen'
  <2>1. e # d /\ owed[e] # "no"
    BY <1>3, <1>4, <1>5
  <2> QED
    BY <1>2, <2>1 DEF WaitsInv
<1>6. CASE d = "recv"
  <2>1. ~None(Event("recv"))
    BY <1>0, <1>6 DEF None
  <2>2. One(Event("recv")) /\ "recv" \notin s.flags
    BY <2>1 DEF WaitsInv
  <2>3. None(Event("recv"))'
    BY <1>0, <1>6, <2>2, TurnTakes
  <2> QED
    BY <1>4, <1>5, <2>2, <2>3 DEF WaitsInv
<1>7. CASE d = "send"
  <2>1. Event("recv") # Event(d)
    BY <1>7 DEF Event
  <2>2. /\ None(Event("recv")) => None(Event("recv"))'
        /\ One(Event("recv")) => One(Event("recv"))'
    BY <1>0, <2>1, TurnNone, TurnOne
  <2>3. owed'["recv"] = owed["recv"]
    BY <1>3, <1>7 DEF Dirs
  <2> QED
    BY <1>4, <1>5, <2>2, <2>3 DEF WaitsInv
<1> QED
  BY <1>6, <1>7 DEF Dirs

\* Pipes are freed: the end of its pipe is what the user learns if it waits.
LEMMA WaitsFree ==
  ASSUME StreamTypes, PipesInv, WaitsInv, NEW t \in Threads, Turn(t, 1, <<>>), NEW ps \in SUBSET Pipes,
         \/ ps = s.held /\ todo[t][1] = CloseFunc
         \/ \E q \in Pipes : ps = {q} /\ todo[t][1] = Free(q),
         freed' = [p \in Pipes |-> IF p \in ps THEN freed[p] + 1 ELSE freed[p]],
         shut' = shut \cup ps,
         owed' = IF "control" \in ps THEN [d \in {"recv", "send"} |-> "no"] ELSE owed,
         UNCHANGED <<s, stolen>>
  PROVE  WaitsInv'
<1>0. 1 \in 1 .. Len(todo[t]) /\ \A x : Lacks(<<>>, x)
  BY DEF Turn, StreamTypes, Lacks
<1>1. \A d : todo[t][1] # Event(d)
  BY DEF CloseFunc, Free, Event
<1>2. /\ None(Event("recv")) => None(Event("recv"))'
      /\ One(Event("recv")) => One(Event("recv"))'
      /\ \A d : ~None(Event(d)) => ~None(Event(d))'
  BY <1>0, <1>1, TurnNone, TurnOne, TurnKeeps
<1>3. \A d \in Dirs : owed'[d] = IF "control" \in ps THEN "no" ELSE owed[d]
  BY DEF Dirs
<1>4. ASSUME NEW d \in Dirs, owed'[d] # "no"
      PROVE  \/ d \in s'.flags \/ ~None(Event(d))' \/ ~None(Free("control"))' \/ ~None(CloseFunc)'
             \/ d = "recv" /\ stolen'
  <2>1. "control" \notin ps /\ owed[d] # "no" /\ "control" \notin shut
    BY <1>3, <1>4 DEF WaitsInv
  <2>2. "control" \in Pipes /\ freed["control"] \in Nat
    BY DEF Pipes, StreamTypes
  <2>3. CASE ps = s.held /\ todo[t][1] = CloseFunc
    <3>1. freed["control"] = 0
      BY <2>1, <2>2 DEF WaitsInv
    <3>2. ~None(Free("control"))
      BY <2>1, <2>2, <2>3, <3>1, OneIsSome DEF PipesInv
    <3>3. todo[t][1] # Free("control")
      BY <2>3 DEF CloseFunc, Free
    <3> QED
      BY <3>2, <3>3, TurnKeeps
  <2>4. CASE \E q \in Pipes : ps = {q} /\ todo[t][1] = Free(q)
    <3>1. todo[t][1] # Free("control") /\ todo[t][1] # CloseFunc
      BY <2>1, <2>4 DEF CloseFunc, Free
    <3>2. /\ ~None(Free("control")) => ~None(Free("control"))'
          /\ ~None(CloseFunc) => ~None(CloseFunc)'
      BY <3>1, TurnKeeps
    <3> QED
      BY <1>2, <2>1, <3>2 DEF WaitsInv
  <2> QED
    BY <2>3, <2>4
<1>5. "control" \in shut' => \A d \in Dirs : owed'[d] = "no"
  BY <1>3 DEF WaitsInv
<1>6. freed'["control"] > 0 => "control" \in shut'
  BY DEF WaitsInv, Pipes
<1>7. owed'["recv"] = "no" /\ "control" \notin shut' => owed["recv"] = "no" /\ "control" \notin shut
  BY <1>3 DEF Dirs
<1> QED
  BY <1>2, <1>4, <1>5, <1>6, <1>7 DEF WaitsInv

-----------------------------------------------------------------------------
(* The steps *)

\* A list of one job.
LEMMA Single ==
  ASSUME NEW x \in Jobs
  PROVE  /\ <<x>> \in Seq(Jobs) /\ Len(<<x>>) = 1 /\ HasOne(<<x>>, x)
         /\ \A i \in 1 .. Len(<<x>>) : <<x>>[i] = x
         /\ \A y : y # x => Lacks(<<x>>, y)
BY DEF HasOne, Lacks

\* The empty list.
LEMMA NoJobs ==
  <<>> \in Seq(Jobs) /\ Len(<<>>) = 0 /\ \A y : Lacks(<<>>, y)
BY DEF Lacks

\* The jobs that tell the user or free a pipe.
Telling == {"event", "free", "close_func"}

\* The jobs that the invariants tell apart have these names.
LEMMA NamesRight ==
  ASSUME NEW new \in Seq(Jobs)
  PROVE  /\ (\A i \in 1 .. Len(new) : new[i][1] # "event") => \A d : Lacks(new, Event(d))
         /\ (\A i \in 1 .. Len(new) : new[i][1] # "free") => \A p : Lacks(new, Free(p))
         /\ (\A i \in 1 .. Len(new) : new[i][1] # "close_func") => Lacks(new, CloseFunc)
BY DEF Lacks, Event, Free, CloseFunc

\* A turn that tells nobody of anything, starts no timer and takes no pipe.
LEMMA PlainTurn ==
  ASSUME IInv, NEW t \in Threads, NEW k, NEW new, Turn(t, k, new), k = 0 => Idle(t),
         k = 0 \/ todo[t][1][1] \notin Telling,
         \A i \in 1 .. Len(new) : new[i][1] \notin Telling \cup {"times_up", "set", "unset"},
         s' \in Streams, s'.mark = s.mark, s'.held = s.held, s'.flags = s.flags,
         s'.status = "CLOSED" <=> s.status = "CLOSED",
         s'.status \in Opening => s.status \in Opening,
         s'.status = "RST_RECV" => s'.recv_hub # <<>>,
         s'.pipe["pushed"] = "ACTIVE" => s.pipe["pushed"] = "ACTIVE",
         freed' = freed, stolen' = stolen, shut' \subseteq Pipes,
         owed' \in [Dirs -> {"no", "timed", "endless"}],
         \/ owed' = owed /\ ("control" \in shut' <=> "control" \in shut)
         \/ (\A d \in Dirs : owed'[d] = "no") /\ "control" \in shut',
         armed' \in [Timers -> Nat],
         \A d \in Dirs : armed'[TimerOf(d)] \in {0, armed[TimerOf(d)]}
  PROVE  IInv'
<1>0. StreamTypes /\ PipesInv /\ MarksInv /\ WaitsInv /\ new \in Seq(Jobs)
  BY DEF IInv, Turn
<1>1. /\ \A d : Lacks(new, Event(d))
      /\ \A p : Lacks(new, Free(p))
      /\ Lacks(new, CloseFunc)
  BY <1>0, NamesRight DEF Telling
<1>2. StreamTypes'
  BY <1>0 DEF StreamTypes, Turn
<1>3. PipesInv'
  <2>1. s'.held = s.held \ {} /\ {} \in SUBSET s.held
    OBVIOUS
  <2>2. k = 0 \/ todo[t][1][1] \notin {"free", "close_func"}
    BY DEF Telling
  <2> QED
    BY <1>0, <1>1, <2>1, <2>2, PipesMove
<1>4. MarksInv'
  <2>1. \A d \in Dirs : s'.mark[TimerOf(d)] >= s.mark[TimerOf(d)]
    BY <1>0, TimersRight DEF StreamTypes, Streams
  <2>2. \A i \in 1 .. Len(new) : new[i][1] \notin {"times_up", "set", "unset"}
    OBVIOUS
  <2> QED
    BY <1>0, <1>1, <2>1, <2>2, MarksMove
<1>5. WaitsInv'
  <2>1. k = 0 \/ todo[t][1][1] \notin {"event", "free", "close_func"}
    BY DEF Telling
  <2>2. s'.flags \subseteq s.flags /\ s.flags \ s'.flags = {}
    OBVIOUS
  <2> QED
    BY <1>0, <1>1, <2>1, <2>2, WaitsMove
<1> QED
  BY <1>2, <1>3, <1>4, <1>5 DEF IInv

\* The same when the stream is left alone.
LEMMA SameStream ==
  ASSUME IInv, NEW t \in Threads, NEW k, NEW new, Turn(t, k, new), k = 0 => Idle(t),
         k = 0 \/ todo[t][1][1] \notin Telling,
         \A i \in 1 .. Len(new) : new[i][1] \notin Telling \cup {"times_up", "set", "unset"},
         UNCHANGED <<s, freed, shut, owed, stolen>>,
         armed' \in [Timers -> Nat],
         \A d \in Dirs : armed'[TimerOf(d)] \in {0, armed[TimerOf(d)]}
  PROVE  IInv'
<1>1. s \in Streams /\ shut \subseteq Pipes /\ owed \in [Dirs -> {"no", "timed", "endless"}]
  BY DEF IInv, StreamTypes
<1>2. s.status = "RST_RECV" => s.recv_hub # <<>>
  BY DEF IInv, WaitsInv
<1> QED
  BY <1>1, <1>2, PlainTurn

\* A thread begins a call.
LEMMA BeginKeeps ==
  ASSUME IInv, NEW t \in Threads, Idle(t), NEW x \in Jobs,
         x[1] \notin Telling \cup {"times_up", "set", "unset"},
         todo' = [todo EXCEPT ![t] = <<x>>], UNCHANGED <<s, freed, shut, armed, owed, stolen>>
  PROVE  IInv'
<1>1. Turn(t, 0, <<x>>)
  BY Single, TurnIdle DEF IInv
<1>2. armed' \in [Timers -> Nat] /\ \A d \in Dirs : armed'[TimerOf(d)] \in {0, armed[TimerOf(d)]}
  BY DEF IInv, StreamTypes
<1>3. \A i \in 1 .. Len(<<x>>) : <<x>>[i][1] \notin Telling \cup {"times_up", "set", "unset"}
  BY Single
<1> QED
  BY <1>1, <1>2, <1>3, SameStream

\* A packet comes, the user reads, the peer resets.
LEMMA CallsKeep ==
  ASSUME IInv, PacketComes \/ StreamRecv \/ PeerResets
  PROVE  IInv'
<1>0. "net" \in Threads /\ "user" \in Threads
  BY DEF Threads
<1>1. CASE PacketComes
  <2>1. PICK len \in 1 .. 2 : todo' = [todo EXCEPT !["net"] = <<<<"add", len>>>>]
    BY <1>1 DEF PacketComes
  <2>2. <<"add", len>> \in Jobs /\ <<"add", len>>[1] \notin Telling \cup {"times_up", "set", "unset"}
    BY DEF Jobs, Telling
  <2> QED
    BY <1>0, <1>1, <2>1, <2>2, BeginKeeps DEF PacketComes
<1>2. CASE StreamRecv
  <2>1. PICK len \in 1 .. 3 : todo' = [todo EXCEPT !["user"] = <<<<"recv", len>>>>]
    BY <1>2 DEF StreamRecv
  <2>2. <<"recv", len>> \in Jobs /\ <<"recv", len>>[1] \notin Telling \cup {"times_up", "set", "unset"}
    BY DEF Jobs, Telling
  <2> QED
    BY <1>0, <1>2, <2>1, <2>2, BeginKeeps DEF StreamRecv
<1>3. CASE PeerResets
  <2>1. <<"remote_close">> \in Jobs /\ <<"remote_close">>[1] \notin Telling \cup {"times_up", "set", "unset"}
    BY DEF Jobs, Telling
  <2> QED
    BY <1>0, <1>3, <2>1, BeginKeeps DEF PeerResets
<1> QED
  BY <1>1, <1>2, <1>3

\* The timer service calls times_up.
LEMMA FireKeeps ==
  ASSUME IInv, NEW x \in Timers, Fire(x)
  PROVE  IInv'
<1>0. StreamTypes /\ PipesInv /\ MarksInv /\ WaitsInv /\ "timer" \in Threads
  BY DEF IInv, Threads
<1> DEFINE job == <<"times_up", x, armed[x]>>
<1>1. job \in Jobs
  BY <1>0 DEF StreamTypes, Jobs
<1>2. /\ Idle("timer") /\ todo' = [todo EXCEPT !["timer"] = <<job>>]
      /\ armed' = [armed EXCEPT ![x] = 0] /\ UNCHANGED <<s, freed, shut, owed, stolen>>
  BY DEF Fire
<1>3. Turn("timer", 0, <<job>>)
  BY <1>0, <1>1, <1>2, Single, TurnIdle
<1>4. \A i \in 1 .. Len(<<job>>) : <<job>>[i][1] \notin Telling
  BY <1>1, Single DEF Telling
<1>5. /\ \A d : Lacks(<<job>>, Event(d))
      /\ \A p : Lacks(<<job>>, Free(p))
      /\ Lacks(<<job>>, CloseFunc)
  BY <1>1, <1>4, Single, NamesRight DEF Telling
<1>6. MarksInv'
  BY <1>0, <1>2, <1>3, MarksFire
<1> HIDE DEF job
<1>7. StreamTypes'
  <2>1. armed' \in [Timers -> Nat]
    BY <1>0, <1>2 DEF StreamTypes
  <2> QED
    BY <1>0, <1>2, <1>3, <2>1 DEF StreamTypes, Turn
<1>8. PipesInv'
  <2>1. s'.held = s.held \ {} /\ {} \in SUBSET s.held
    BY <1>2
  <2> QED
    BY <1>0, <1>2, <1>3, <1>5, <2>1, PipesMove
<1>9. WaitsInv'
  <2>1. s'.flags \subseteq s.flags /\ s.flags \ s'.flags = {}
    BY <1>2
  <2>2. s'.status = "RST_RECV" => s'.recv_hub # <<>>
    BY <1>0, <1>2 DEF WaitsInv
  <2> QED
    BY <1>0, <1>2, <1>3, <1>5, <2>1, <2>2, WaitsMove
<1> QED
  BY <1>6, <1>7, <1>8, <1>9 DEF IInv

\* A part under the mutex.
LEMMA SectionTurn ==
  ASSUME StreamTypes, NEW t \in Threads, ~Idle(t), NEW r, Section(t, r), r.todo \in Seq(Jobs)
  PROVE  /\ Turn(t, 1, r.todo) /\ s' = r.s /\ UNCHANGED <<freed, shut, armed, owed, stolen>>
         /\ Head(todo[t]) = todo[t][1]
BY TurnHead DEF Section

\* A call that is done.
LEMMA DoneTurn ==
  ASSUME StreamTypes, NEW t \in Threads, ~Idle(t), Done(t)
  PROVE  Turn(t, 1, <<>>) /\ Head(todo[t]) = todo[t][1]
<1>1. todo[t] \in Seq(Jobs) /\ todo[t] # <<>>
  BY DEF StreamTypes, Idle
<1>2. Tail(todo[t]) \in Seq(Jobs)
  BY <1>1
<1>3. <<>> \o Tail(todo[t]) = Tail(todo[t])
  BY <1>2
<1>4. todo' = [todo EXCEPT ![t] = <<>> \o Tail(@)]
  BY <1>3 DEF Done
<1> QED
  BY <1>4, NoJobs, TurnHead

\* A turn that ends waits with events.
LEMMA EventTurn ==
  ASSUME IInv, NEW t \in Threads, NEW new, Turn(t, 1, new), todo[t][1][1] \notin Telling,
         \A i \in 1 .. Len(new) : new[i][1] \notin {"free", "close_func", "times_up", "set", "unset"},
         s' \in Streams, s'.held = s.held, s'.flags \subseteq s.flags,
         \A d \in Dirs : s'.mark[TimerOf(d)] >= s.mark[TimerOf(d)],
         s'.status = "CLOSED" <=> s.status = "CLOSED",
         s'.status \in Opening => s.status \in Opening,
         s'.status = "RST_RECV" => s'.recv_hub # <<>>,
         s'.pipe = s.pipe,
         UNCHANGED <<freed, shut, armed, owed, stolen>>,
         \A d \in s.flags \ s'.flags : HasOne(new, Event(d)),
         \/ Lacks(new, Event("recv"))
         \/ /\ HasOne(new, Event("recv")) /\ "recv" \in s.flags \ s'.flags
            /\ \A m \in Nat : Setting("recv", m) => m < s'.mark["recv_timer"]
  PROVE  IInv'
<1>0. StreamTypes /\ PipesInv /\ MarksInv /\ WaitsInv /\ new \in Seq(Jobs)
  BY DEF IInv, Turn
<1>1. /\ \A p : Lacks(new, Free(p))
      /\ Lacks(new, CloseFunc)
  BY <1>0, NamesRight
<1>2. StreamTypes'
  BY <1>0 DEF StreamTypes, Turn
<1>3. PipesInv'
  <2>1. s'.held = s.held \ {} /\ {} \in SUBSET s.held
    OBVIOUS
  <2>2. todo[t][1][1] \notin {"free", "close_func"}
    BY DEF Telling
  <2> QED
    BY <1>0, <1>1, <2>1, <2>2, PipesMove
<1>4. MarksInv'
  <2>1. \A d \in Dirs : armed'[TimerOf(d)] \in {0, armed[TimerOf(d)]}
    OBVIOUS
  <2>2. \A i \in 1 .. Len(new) : new[i][1] \notin {"times_up", "set", "unset"}
    OBVIOUS
  <2>3. \/ Lacks(new, Event("recv"))
        \/ \A m \in Nat : Setting("recv", m) => m < s'.mark["recv_timer"]
    OBVIOUS
  <2> QED
    BY <1>0, <2>1, <2>2, <2>3, MarksMove
<1>5. WaitsInv'
  <2>1. todo[t][1][1] \notin {"event", "free", "close_func"}
    BY DEF Telling
  <2>2. \/ Lacks(new, Event("recv"))
        \/ HasOne(new, Event("recv")) /\ "recv" \in s.flags \ s'.flags
    OBVIOUS
  <2> QED
    BY <1>0, <2>1, <2>2, WaitsMove
<1> QED
  BY <1>2, <1>3, <1>4, <1>5 DEF IInv

\* inter_add_packet_to_stream
LEMMA AddKeeps ==
  ASSUME IInv, NEW t \in Threads, ~Idle(t), NEW len \in Nat, Head(todo[t]) = <<"add", len>>,
         Section(t, AddPacket(len))
  PROVE  IInv'
<1>0. StreamTypes /\ MarksInv /\ WaitsInv /\ s \in Streams
  BY DEF IInv, StreamTypes
<1>1. Stop("recv_timer") \in Jobs /\ Event("recv") \in Jobs
  BY DEF Jobs, Stop, Event, Timers, Dirs
<1>2. AddPacket(len).todo \in {<<>>, <<Stop("recv_timer"), Event("recv")>>}
  BY DEF AddPacket
<1>3. AddPacket(len).todo \in Seq(Jobs)
  <2>1. <<Stop("recv_timer"), Event("recv")>> \in Seq(Jobs)
    BY <1>1
  <2> QED
    BY <1>2, <2>1, NoJobs
<1>4. /\ Turn(t, 1, AddPacket(len).todo) /\ s' = AddPacket(len).s /\ todo[t][1] = <<"add", len>>
      /\ UNCHANGED <<freed, shut, armed, owed, stolen>>
  BY <1>0, <1>3, SectionTurn
<1>5. todo[t][1][1] \notin Telling
  BY <1>4 DEF Telling
<1>6. armed' \in [Timers -> Nat] /\ \A d \in Dirs : armed'[TimerOf(d)] \in {0, armed[TimerOf(d)]}
  BY <1>0, <1>4 DEF StreamTypes
<1>7. CASE s.status \notin Opening
  <2>1. AddPacket(len).todo = <<>> /\ s' = s
    BY <1>4, <1>7 DEF AddPacket
  <2> QED
    BY <1>4, <1>5, <1>6, <2>1, NoJobs, SameStream
<1>8. CASE s.status \in Opening
  <2> DEFINE st == IF s.status = "SYN_SEND" THEN "SYNREPLY_RS" ELSE s.status
             hub == append_to_tail(s.recv_hub, len)
             mk == IF "recv" \in s.flags THEN s.mark["recv_timer"] + 1 ELSE s.mark["recv_timer"]
  <2>1. s' = [s EXCEPT !.status = st, !.recv_hub = hub, !.flags = s.flags \ {"recv"},
                       !.mark["recv_timer"] = mk]
    BY <1>4, <1>8 DEF AddPacket
  <2>2. st \in Opening /\ hub \in Seq(Nat) /\ mk \in Nat
    BY <1>0, <1>8 DEF Opening, append_to_tail, Streams, Timers
  <2> HIDE DEF st, hub, mk
  <2>3. /\ s' \in Streams /\ s'.status = st /\ s'.flags = s.flags \ {"recv"} /\ s'.held = s.held
        /\ s'.pipe = s.pipe /\ s'.mark = [s.mark EXCEPT !["recv_timer"] = mk]
    BY <1>0, <2>1, <2>2 DEF Streams, Statuses
  <2>4. s'.status # "CLOSED" /\ s.status # "CLOSED" /\ s'.status # "RST_RECV"
    BY <1>8, <2>2, <2>3 DEF Opening
  <2>5. CASE "recv" \notin s.flags
    <3>1. AddPacket(len).todo = <<>> /\ s'.flags = s.flags /\ mk = s.mark["recv_timer"]
      BY <1>8, <2>3, <2>5 DEF AddPacket, mk
    <3>2. s'.mark = s.mark
      BY <1>0, <2>3, <3>1 DEF Streams
    <3>3. shut' \subseteq Pipes /\ owed' \in [Dirs -> {"no", "timed", "endless"}]
      BY <1>0, <1>4 DEF StreamTypes
    <3> QED
      BY <1>4, <1>5, <1>6, <1>8, <2>2, <2>3, <2>4, <3>1, <3>2, <3>3, NoJobs, PlainTurn
  <2>6. CASE "recv" \in s.flags
    <3> DEFINE new == <<Stop("recv_timer"), Event("recv")>>
    <3>1. AddPacket(len).todo = new
      BY <1>8, <2>6 DEF AddPacket
    <3>2. HasOne(new, Event("recv"))
      BY DEF HasOne, Event, Stop
    <3>3. \A i \in 1 .. Len(new) : new[i][1] \notin {"free", "close_func", "times_up", "set", "unset"}
      BY DEF Event, Stop
    <3>4. s'.mark["recv_timer"] = s.mark["recv_timer"] + 1 /\ s.mark["recv_timer"] \in Nat
      BY <1>0, <2>3, <2>6 DEF Streams, Timers, mk
    <3>5. \A d \in Dirs : s'.mark[TimerOf(d)] >= s.mark[TimerOf(d)]
      BY <1>0, <2>3, <3>4, TimersRight DEF Streams
    <3>6. \A m \in Nat : Setting("recv", m) => m < s'.mark["recv_timer"]
      BY <1>0, <3>4, TimersRight DEF MarksInv, Dirs
    <3>7. s'.flags \subseteq s.flags /\ s.flags \ s'.flags = {"recv"}
      BY <2>3, <2>6
    <3> HIDE DEF new
    <3> QED
      BY <1>4, <1>5, <1>8, <2>2, <2>3, <2>4, <3>1, <3>2, <3>3, <3>5, <3>6, <3>7, EventTurn
  <2> QED
    BY <2>5, <2>6
<1> QED
  BY <1>7, <1>8

\* A round of stream_recv
LEMMA RecvKeeps ==
  ASSUME IInv, NEW t \in Threads, ~Idle(t), NEW len \in Nat, Head(todo[t]) = <<"recv", len>>,
         Section(t, RecvRound(len))
  PROVE  IInv'
<1>0. StreamTypes /\ MarksInv /\ WaitsInv /\ s \in Streams
  BY DEF IInv, StreamTypes
<1> DEFINE took == get_from_head_len(s.recv_hub, len)
           goes == CanSet("recv") /\ s.pipe["control"] = "ACTIVE" /\ s.recv_hub # <<>>
<1>1. goes => took.hub \in Seq(Nat) /\ took.left \in Nat
  <2> SUFFICES ASSUME s.recv_hub # <<>> PROVE took.hub \in Seq(Nat) /\ took.left \in Nat
    OBVIOUS
  <2>1. s.recv_hub \in Seq(Nat)
    BY <1>0 DEF Streams
  <2>2. Head(s.recv_hub) \in Nat /\ Tail(s.recv_hub) \in Seq(Nat)
    BY <2>1
  <2>3. CASE Head(s.recv_hub) > len
    <3>1. Head(s.recv_hub) - len \in Nat
      BY <2>2, <2>3
    <3>2. <<Head(s.recv_hub) - len>> \o Tail(s.recv_hub) \in Seq(Nat)
      BY <2>2, <3>1
    <3> QED
      BY <2>3, <3>2 DEF get_from_head_len
  <2>4. CASE ~(Head(s.recv_hub) > len)
    BY <2>2, <2>4 DEF get_from_head_len
  <2> QED
    BY <2>3, <2>4
<1>2. RecvRound(len) =
        IF goes
        THEN [s |-> [s EXCEPT !.recv_hub = took.hub,
                              !.status = IF @ = "RST_RECV" /\ took.hub = <<>> THEN "SHUT_RECV" ELSE @],
              todo |-> IF took.left > 0 THEN <<<<"recv", took.left>>>> ELSE <<>>]
        ELSE [s |-> s, todo |-> <<>>]
  BY DEF RecvRound
<1> HIDE DEF took, goes
<1> DEFINE new == RecvRound(len).todo
<1>3. new \in Seq(Jobs) /\ \A i \in 1 .. Len(new) : new[i][1] = "recv"
  <2>1. CASE new = <<>>
    BY <2>1, NoJobs
  <2>2. CASE goes /\ new = <<<<"recv", took.left>>>>
    <3>1. <<"recv", took.left>> \in Jobs
      BY <1>1, <2>2 DEF Jobs
    <3> QED
      BY <2>2, <3>1, Single
  <2> QED
    BY <1>2, <2>1, <2>2
<1>4. /\ Turn(t, 1, new) /\ s' = RecvRound(len).s /\ todo[t][1] = <<"recv", len>>
      /\ UNCHANGED <<freed, shut, armed, owed, stolen>>
  BY <1>0, <1>3, SectionTurn
<1>5. todo[t][1][1] \notin Telling
  BY <1>4 DEF Telling
<1>6. /\ armed' \in [Timers -> Nat] /\ \A d \in Dirs : armed'[TimerOf(d)] \in {0, armed[TimerOf(d)]}
      /\ shut' \subseteq Pipes /\ owed' \in [Dirs -> {"no", "timed", "endless"}]
  BY <1>0, <1>4 DEF StreamTypes
<1>7. \A i \in 1 .. Len(new) : new[i][1] \notin Telling \cup {"times_up", "set", "unset"}
  BY <1>3 DEF Telling
<1>8. /\ s' \in Streams /\ s'.mark = s.mark /\ s'.held = s.held /\ s'.flags = s.flags /\ s'.pipe = s.pipe
      /\ s'.status = s.status \/ (s.status = "RST_RECV" /\ s'.status = "SHUT_RECV")
      /\ s'.status = "RST_RECV" => s'.recv_hub # <<>>
  <2>1. CASE goes
    <3> DEFINE st == IF s.status = "RST_RECV" /\ took.hub = <<>> THEN "SHUT_RECV" ELSE s.status
    <3>1. s' = [s EXCEPT !.recv_hub = took.hub, !.status = st]
      BY <1>2, <1>4, <2>1
    <3>2. st \in Statuses
      BY <1>0 DEF Streams, Statuses
    <3> QED
      BY <1>0, <1>1, <2>1, <3>1, <3>2 DEF Streams
  <2>2. CASE ~goes
    BY <1>0, <1>2, <1>4, <2>2 DEF WaitsInv
  <2> QED
    BY <2>1, <2>2
<1>9. /\ s'.status = "CLOSED" <=> s.status = "CLOSED"
      /\ s'.status \in Opening => s.status \in Opening
  BY <1>8 DEF Opening
<1> HIDE DEF new
<1> QED
  BY <1>4, <1>5, <1>6, <1>7, <1>8, <1>9, PlainTurn

\* stream_timer_func
LEMMA TimesUpKeeps ==
  ASSUME IInv, NEW t \in Threads, ~Idle(t), NEW x \in Timers, NEW m \in Nat,
         Head(todo[t]) = <<"times_up", x, m>>, Section(t, TimesUp(x, m))
  PROVE  IInv'
<1>0. StreamTypes /\ MarksInv /\ WaitsInv /\ s \in Streams
  BY DEF IInv, StreamTypes
<1> DEFINE mine == IF x = "recv_timer" THEN "recv" ELSE "send"
           off == s.status = "CLOSED" \/ s.pipe[x] # "ACTIVE" \/ s.mark[x] # m
           r == TimesUp(x, m)
<1>1. /\ off => r = [s |-> s, todo |-> <<>>]
      /\ ~off /\ x = "rst_timer" => r = [s |-> s, todo |-> <<<<"remote_close">>>>]
      /\ ~off /\ x # "rst_timer" =>
           r = [s |-> [s EXCEPT !.flags = s.flags \ {mine}],
                todo |-> IF mine \in s.flags THEN <<Event(mine)>> ELSE <<>>]
  BY DEF TimesUp, MarkIsRight
<1>2. Event(mine) \in Jobs /\ <<"remote_close">> \in Jobs
  BY DEF Jobs, Event, Dirs
<1>3. r.todo \in {<<>>, <<<<"remote_close">>>>, <<Event(mine)>>}
  BY <1>1
<1>4. r.todo \in Seq(Jobs)
  BY <1>2, <1>3, Single, NoJobs
<1>5. /\ Turn(t, 1, r.todo) /\ s' = r.s /\ todo[t][1] = <<"times_up", x, m>>
      /\ UNCHANGED <<freed, shut, armed, owed, stolen>>
  BY <1>0, <1>4, SectionTurn
<1>6. todo[t][1][1] \notin Telling
  BY <1>5 DEF Telling
<1>7. armed' \in [Timers -> Nat] /\ \A d \in Dirs : armed'[TimerOf(d)] \in {0, armed[TimerOf(d)]}
  BY <1>0, <1>5 DEF StreamTypes
<1>8. CASE off
  <2>1. r.todo = <<>> /\ s' = s
    BY <1>1, <1>5, <1>8
  <2> QED
    BY <1>5, <1>6, <1>7, <2>1, NoJobs, SameStream
<1>9. CASE ~off /\ x = "rst_timer"
  <2>1. r.todo = <<<<"remote_close">>>> /\ s' = s
    BY <1>1, <1>5, <1>9
  <2>2. \A i \in 1 .. Len(r.todo) : r.todo[i][1] \notin Telling \cup {"times_up", "set", "unset"}
    BY <1>2, <2>1, Single DEF Telling
  <2> QED
    BY <1>5, <1>6, <1>7, <2>1, <2>2, SameStream
<1>10. CASE ~off /\ x # "rst_timer"
  <2>1. s' = [s EXCEPT !.flags = s.flags \ {mine}]
    BY <1>1, <1>5, <1>10
  <2>2. /\ s' \in Streams /\ s'.flags = s.flags \ {mine} /\ s'.mark = s.mark /\ s'.held = s.held
        /\ s'.pipe = s.pipe /\ s'.status = s.status /\ s'.recv_hub = s.recv_hub
    BY <1>0, <2>1 DEF Streams
  <2>3. mine \in Dirs /\ x = TimerOf(mine) /\ (mine = "recv" <=> x = "recv_timer")
    BY <1>10 DEF Dirs, TimerOf, Timers
  <2> HIDE DEF mine, r
  <2>4. \A i \in 1 .. Len(r.todo) : r.todo[i] = Event(mine) /\ mine \in s.flags
    <3>1. CASE mine \in s.flags
      <4>1. r.todo = <<Event(mine)>>
        BY <1>1, <1>10, <3>1
      <4> QED
        BY <1>2, <3>1, <4>1, Single
    <3>2. CASE mine \notin s.flags
      <4>1. r.todo = <<>>
        BY <1>1, <1>10, <3>2
      <4> QED
        BY <4>1, NoJobs
    <3> QED
      BY <3>1, <3>2
  <2>5. \A i \in 1 .. Len(r.todo) : r.todo[i][1] \notin {"free", "close_func", "times_up", "set", "unset"}
    BY <2>4 DEF Event
  <2>6. \A d \in s.flags \ s'.flags : HasOne(r.todo, Event(d))
    <3>1. CASE mine \in s.flags
      <4>1. r.todo = <<Event(mine)>>
        BY <1>1, <1>10, <3>1
      <4> QED
        BY <1>2, <2>2, <4>1, Single
    <3>2. CASE mine \notin s.flags
      BY <2>2, <3>2
    <3> QED
      BY <3>1, <3>2
  <2>7. \/ Lacks(r.todo, Event("recv"))
        \/ /\ HasOne(r.todo, Event("recv")) /\ "recv" \in s.flags \ s'.flags
           /\ \A n \in Nat : Setting("recv", n) => n < s'.mark["recv_timer"]
    <3>1. CASE mine = "recv" /\ mine \in s.flags
      <4>1. Fired("recv", m)
        <5>1. 1 \in 1 .. Len(todo[t])
          BY <1>0, <1>5 DEF Turn, StreamTypes
        <5>2. todo[t][1] = <<"times_up", TimerOf("recv"), m>>
          BY <1>5, <2>3, <3>1
        <5> QED
          BY <5>1, <5>2 DEF Fired, None
      <4>2. s.mark["recv_timer"] = m
        BY <1>10, <2>3, <3>1
      <4>3. \A n \in Nat : Setting("recv", n) => m < n /\ n <= s.mark["recv_timer"]
        BY <1>0, <4>1, TimersRight DEF MarksInv, Dirs
      <4>4. \A n \in Nat : ~Setting("recv", n)
        BY <4>2, <4>3
      <4> QED
        BY <2>2, <2>6, <3>1, <4>4
    <3>2. CASE ~(mine = "recv" /\ mine \in s.flags)
      BY <2>4, <3>2 DEF Lacks, Event
    <3> QED
      BY <3>1, <3>2
  <2>8. \A d \in Dirs : s'.mark[TimerOf(d)] >= s.mark[TimerOf(d)]
    BY <1>0, <2>2, TimersRight DEF Streams
  <2>9. s'.status = "RST_RECV" => s'.recv_hub # <<>>
    BY <1>0, <2>2 DEF WaitsInv
  <2> QED
    BY <1>5, <1>6, <2>2, <2>5, <2>6, <2>7, <2>8, <2>9, EventTurn
<1> QED
  BY <1>8, <1>9, <1>10

\* The stream is closed: stream_close_func is to be called.
LEMMA ClosedKeeps ==
  ASSUME IInv, NEW t \in Threads, Turn(t, 1, <<CloseFunc>>), todo[t][1][1] \notin Telling,
         s.status # "CLOSED", s' = [s EXCEPT !.status = "CLOSED"],
         UNCHANGED <<freed, shut, armed, owed, stolen>>
  PROVE  IInv'
<1>0. StreamTypes /\ PipesInv /\ MarksInv /\ WaitsInv /\ s \in Streams
  BY DEF IInv, StreamTypes
<1>1. /\ s' \in Streams /\ s'.status = "CLOSED" /\ s'.flags = s.flags /\ s'.mark = s.mark
      /\ s'.held = s.held /\ s'.pipe = s.pipe
  BY <1>0 DEF Streams, Statuses
<1>2. CloseFunc \in Jobs /\ CloseFunc[1] = "close_func"
  BY DEF Jobs, CloseFunc
<1> DEFINE new == <<CloseFunc>>
<1>3. new \in Seq(Jobs) /\ HasOne(new, CloseFunc) /\ \A i \in 1 .. Len(new) : new[i][1] = "close_func"
  BY <1>2, Single
<1> HIDE DEF new
<1>4. (\A d : Lacks(new, Event(d))) /\ (\A p : Lacks(new, Free(p)))
  BY <1>3, NamesRight
<1>5. StreamTypes'
  BY <1>0, <1>1 DEF StreamTypes, Turn
<1>6. PipesInv'
  <2>1. todo[t][1][1] \notin {"free", "close_func"}
    BY DEF Telling
  <2> QED
    BY <1>0, <1>1, <1>3, <1>4, <2>1, PipesClosed DEF new
<1>7. MarksInv'
  <2>1. \A d \in Dirs : s'.mark[TimerOf(d)] >= s.mark[TimerOf(d)]
    BY <1>0, <1>1, TimersRight DEF Streams
  <2>2. \A d \in Dirs : armed'[TimerOf(d)] \in {0, armed[TimerOf(d)]}
    OBVIOUS
  <2>3. \A i \in 1 .. Len(new) : new[i][1] \notin {"times_up", "set", "unset"}
    BY <1>3
  <2> QED
    BY <1>0, <1>1, <1>4, <2>1, <2>2, <2>3, MarksMove DEF new
<1>8. WaitsInv'
  <2>1. todo[t][1][1] \notin {"event", "free", "close_func"}
    BY DEF Telling
  <2>2. s'.flags \subseteq s.flags /\ s.flags \ s'.flags = {}
    BY <1>1
  <2>3. s'.status # "RST_RECV"
    BY <1>1
  <2> QED
    BY <1>0, <1>4, <2>1, <2>2, <2>3, WaitsMove DEF new
<1> QED
  BY <1>5, <1>6, <1>7, <1>8 DEF IInv

\* All marks have changed.
LEMMA MarksUp ==
  ASSUME StreamTypes, MarksInv, s' \in Streams, s'.mark = MarksChanged
  PROVE  /\ \A d \in Dirs : s'.mark[TimerOf(d)] >= s.mark[TimerOf(d)]
         /\ \A m \in Nat : Setting("recv", m) => m < s'.mark["recv_timer"]
<1>1. \A x \in Timers : s'.mark[x] = s.mark[x] + 1 /\ s.mark[x] \in Nat
  BY DEF MarksChanged, StreamTypes, Streams
<1>2. \A d \in Dirs : s'.mark[TimerOf(d)] >= s.mark[TimerOf(d)]
  BY <1>1, TimersRight
<1>3. \A m \in Nat : Setting("recv", m) => m <= s.mark["recv_timer"]
  BY TimersRight DEF MarksInv, Dirs
<1> QED
  BY <1>1, <1>2, <1>3 DEF Timers

\* stream_local_close
LEMMA LocalKeeps ==
  ASSUME IInv, NEW t \in Threads, ~Idle(t), Head(todo[t]) = <<"local_close">>,
         Section(t, LocalClose)
  PROVE  IInv'
<1>0. StreamTypes /\ PipesInv /\ MarksInv /\ WaitsInv /\ s \in Streams
  BY DEF IInv, StreamTypes
<1> DEFINE new == <<<<"rst", RstMark>>, Free("control"), Stop("recv_timer"), Stop("send_timer"), Free("op")>>
           first == s.status \in Connected
           last == s.status \in {"INITIAL", "RST_RECV", "SHUT_RECV"}
<1>1. /\ first => LocalClose =
           [s |-> [s EXCEPT !.status = "RST_SEND", !.flags = {}, !.recv_hub = <<>>,
                            !.pipe = Deleted({"control", "op"}), !.held = LocalHeld,
                            !.mark = MarksChanged],
            todo |-> new]
      /\ last => LocalClose = [s |-> [s EXCEPT !.status = "CLOSED"], todo |-> <<CloseFunc>>]
      /\ ~first /\ ~last => LocalClose = [s |-> s, todo |-> <<>>]
  BY DEF LocalClose, Connected, CloseFunc
<1>2. RstMark \in Nat /\ MarksChanged \in [Timers -> Nat]
  BY <1>0 DEF RstMark, MarksChanged, Streams, Timers
<1>3. new \in Seq(Jobs) /\ <<CloseFunc>> \in Seq(Jobs)
  <2>1. /\ <<"rst", RstMark>> \in Jobs /\ Free("control") \in Jobs /\ Stop("recv_timer") \in Jobs
        /\ Stop("send_timer") \in Jobs /\ Free("op") \in Jobs /\ CloseFunc \in Jobs
    BY <1>2 DEF Jobs, Free, Stop, CloseFunc, Pipes, Timers, Ops
  <2> QED
    BY <2>1
<1>4. LocalClose.todo \in Seq(Jobs)
  <2> HIDE DEF new, first, last
  <2>1. LocalClose.todo = new \/ LocalClose.todo = <<CloseFunc>> \/ LocalClose.todo = <<>>
    BY <1>1
  <2> QED
    BY <1>3, <2>1, NoJobs
<1>5. /\ Turn(t, 1, LocalClose.todo) /\ s' = LocalClose.s /\ todo[t][1] = <<"local_close">>
      /\ UNCHANGED <<freed, shut, armed, owed, stolen>>
  BY <1>0, <1>4, SectionTurn
<1>6. todo[t][1][1] \notin Telling
  BY <1>5 DEF Telling
<1>7. CASE last
  <2>1. s.status # "CLOSED" /\ s' = [s EXCEPT !.status = "CLOSED"] /\ LocalClose.todo = <<CloseFunc>>
    BY <1>1, <1>5, <1>7
  <2> QED
    BY <1>5, <1>6, <2>1, ClosedKeeps
<1>8. CASE ~first /\ ~last
  <2>1. s' = s /\ LocalClose.todo = <<>>
    BY <1>1, <1>5, <1>8
  <2>2. armed' \in [Timers -> Nat] /\ \A d \in Dirs : armed'[TimerOf(d)] \in {0, armed[TimerOf(d)]}
    BY <1>0, <1>5 DEF StreamTypes
  <2> QED
    BY <1>5, <1>6, <2>1, <2>2, NoJobs, SameStream
<1>9. CASE first
  <2>1. LocalClose.todo = new
    BY <1>1, <1>9
  <2>2. /\ Len(new) = 5 /\ new[1] = <<"rst", RstMark>> /\ new[2] = Free("control")
        /\ new[3] = Stop("recv_timer") /\ new[4] = Stop("send_timer") /\ new[5] = Free("op")
    OBVIOUS
  <2>3. s' = [s EXCEPT !.status = "RST_SEND", !.flags = {}, !.recv_hub = <<>>,
                       !.pipe = Deleted({"control", "op"}), !.held = LocalHeld,
                       !.mark = MarksChanged]
    BY <1>1, <1>5, <1>9
  <2> HIDE DEF new
  <2>4. Deleted({"control", "op"}) \in [Pipes -> {"ACTIVE", "STOP", "DEL"}] /\ LocalHeld \in SUBSET Pipes
    BY <1>0 DEF Deleted, LocalHeld, Streams
  <2>5. /\ s' \in Streams /\ s'.status = "RST_SEND" /\ s'.flags = {} /\ s'.mark = MarksChanged
        /\ s'.held = LocalHeld /\ s'.pipe = Deleted({"control", "op"})
    <3>1. "RST_SEND" \in Statuses /\ {} \in SUBSET Dirs /\ <<>> \in Seq(Nat)
      BY DEF Statuses
    <3> DEFINE pipe == Deleted({"control", "op"})
    <3>2. pipe \in [Pipes -> {"ACTIVE", "STOP", "DEL"}] /\ pipe = Deleted({"control", "op"})
      BY <2>4
    <3>3. s' = [s EXCEPT !.status = "RST_SEND", !.flags = {}, !.recv_hub = <<>>, !.pipe = pipe,
                         !.held = LocalHeld, !.mark = MarksChanged]
      BY <2>3
    <3> HIDE DEF pipe
    <3>4. s' = [status |-> "RST_SEND", flags |-> {}, recv_hub |-> <<>>, mark |-> MarksChanged,
                pipe |-> pipe, held |-> LocalHeld]
      BY <1>0, <3>3 DEF Streams
    <3>5. s' \in Streams
      BY <1>2, <2>4, <3>1, <3>2, <3>4 DEF Streams
    <3> QED
      BY <3>2, <3>4, <3>5
  <2>6. StreamTypes'
    BY <1>0, <1>5, <2>1, <2>5 DEF StreamTypes, Turn
  <2>7. \A i \in 1 .. 5 : i = 1 \/ i = 2 \/ i = 3 \/ i = 4 \/ i = 5
    OBVIOUS
  <2>8. \A i \in 1 .. Len(new) : new[i][1] \in {"rst", "free", "stop"}
    BY <2>2, <2>7 DEF Free, Stop
  <2>9. Lacks(new, CloseFunc) /\ \A d : Lacks(new, Event(d))
    BY <1>3, <2>8, NamesRight
  <2>10. HasOne(new, Free("control")) /\ HasOne(new, Free("op"))
    <3>1. \A i \in 1 .. Len(new) : new[i] = Free("control") => i = 2
      BY <2>2, <2>7 DEF Free, Stop
    <3>2. \A i \in 1 .. Len(new) : new[i] = Free("op") => i = 5
      BY <2>2, <2>7 DEF Free, Stop
    <3> QED
      BY <2>2, <3>1, <3>2 DEF HasOne
  <2>11. \A p \in Pipes \ {"control", "op"} : Lacks(new, Free(p))
    <3> SUFFICES ASSUME NEW p \in Pipes \ {"control", "op"}, NEW i \in 1 .. Len(new) PROVE new[i] # Free(p)
      BY DEF Lacks
    <3> QED
      BY <2>2, <2>7 DEF Free, Stop
  <2>12. PipesInv'
    <3>1. s.status \in Opening /\ s.status # "CLOSED"
      BY <1>9 DEF Connected, Opening
    <3>2. {"control", "op"} \in SUBSET s.held /\ s'.held = s.held \ {"control", "op"}
      BY <1>0, <2>5, <3>1 DEF PipesInv, LocalHeld, Pipes, Ops
    <3>3. s'.pipe["pushed"] = s.pipe["pushed"]
      BY <2>5 DEF Deleted, Pipes
    <3>4. s'.status # "CLOSED" /\ s'.status \notin Opening
      BY <2>5 DEF Opening
    <3>5. todo[t][1][1] \notin {"free", "close_func"}
      BY <1>6 DEF Telling
    <3>6. \A p \in {"control", "op"} : HasOne(new, Free(p))
      BY <2>10
    <3> QED
      BY <1>0, <1>5, <2>1, <2>9, <2>11, <3>1, <3>2, <3>3, <3>4, <3>5, <3>6, PipesMove
  <2>13. MarksInv'
    <3>1. \A d \in Dirs : s'.mark[TimerOf(d)] >= s.mark[TimerOf(d)]
      BY <1>0, <2>5, MarksUp
    <3>2. \A d \in Dirs : armed'[TimerOf(d)] \in {0, armed[TimerOf(d)]}
      BY <1>5
    <3>3. \A i \in 1 .. Len(new) : new[i][1] \notin {"times_up", "set", "unset"}
      BY <2>8
    <3> QED
      BY <1>0, <1>5, <2>1, <2>5, <2>9, <3>1, <3>2, <3>3, MarksMove
  <2>14. WaitsInv'
    <3>1. todo[t][1][1] \notin {"event", "free", "close_func"}
      BY <1>6 DEF Telling
    <3>2. s'.flags \subseteq s.flags /\ s'.status # "RST_RECV"
      BY <2>5
    <3> QED
      BY <1>0, <1>5, <2>1, <2>9, <2>10, <3>1, <3>2, WaitsMove
  <2> QED
    BY <2>6, <2>12, <2>13, <2>14 DEF IInv
<1> QED
  BY <1>7, <1>8, <1>9

\* Two lists of jobs, one after the other.
LEMMA Joined ==
  ASSUME NEW a \in Seq(Jobs), NEW b \in Seq(Jobs)
  PROVE  /\ a \o b \in Seq(Jobs)
         /\ \A x : Lacks(a, x) /\ Lacks(b, x) => Lacks(a \o b, x)
         /\ \A x : HasOne(a, x) /\ Lacks(b, x) => HasOne(a \o b, x)
         /\ \A x : Lacks(a, x) /\ HasOne(b, x) => HasOne(a \o b, x)
         /\ \A names : /\ \A i \in 1 .. Len(a) : a[i][1] \in names
                       /\ \A i \in 1 .. Len(b) : b[i][1] \in names
                       => \A i \in 1 .. Len(a \o b) : (a \o b)[i][1] \in names
<1> DEFINE ab == a \o b
<1>1. /\ ab \in Seq(Jobs) /\ Len(ab) = Len(a) + Len(b) /\ Len(a) \in Nat /\ Len(b) \in Nat
      /\ \A i \in 1 .. Len(a) : ab[i] = a[i]
      /\ \A i \in 1 .. Len(b) : ab[Len(a) + i] = b[i]
  OBVIOUS
<1> HIDE DEF ab
<1>2. \A i \in 1 .. Len(ab) : \/ i \in 1 .. Len(a) /\ ab[i] = a[i]
                              \/ i - Len(a) \in 1 .. Len(b) /\ ab[i] = b[i - Len(a)]
  <2> SUFFICES ASSUME NEW i \in 1 .. Len(ab), i \notin 1 .. Len(a)
               PROVE  i - Len(a) \in 1 .. Len(b) /\ ab[i] = b[i - Len(a)]
    BY <1>1
  <2>1. i - Len(a) \in 1 .. Len(b) /\ Len(a) + (i - Len(a)) = i
    BY <1>1
  <2> QED
    BY <1>1, <2>1
<1>3. ASSUME NEW x, Lacks(a, x), Lacks(b, x) PROVE Lacks(ab, x)
  BY <1>2, <1>3 DEF Lacks
<1>4. ASSUME NEW x, HasOne(a, x), Lacks(b, x) PROVE HasOne(ab, x)
  <2>1. PICK i \in 1 .. Len(a) : a[i] = x /\ \A j \in 1 .. Len(a) : a[j] = x => j = i
    BY <1>4 DEF HasOne
  <2>2. \A j \in 1 .. Len(ab) : ab[j] = x => j = i
    BY <1>2, <1>4, <2>1 DEF Lacks
  <2>3. i \in 1 .. Len(ab) /\ ab[i] = x
    BY <1>1, <2>1
  <2> QED
    BY <2>2, <2>3 DEF HasOne
<1>5. ASSUME NEW x, Lacks(a, x), HasOne(b, x) PROVE HasOne(ab, x)
  <2>1. PICK i \in 1 .. Len(b) : b[i] = x /\ \A j \in 1 .. Len(b) : b[j] = x => j = i
    BY <1>5 DEF HasOne
  <2>2. ASSUME NEW j \in 1 .. Len(ab), ab[j] = x PROVE j = Len(a) + i
    <3>1. j - Len(a) \in 1 .. Len(b) /\ ab[j] = b[j - Len(a)]
      BY <1>2, <1>5, <2>2 DEF Lacks
    <3>2. j - Len(a) = i
      BY <2>1, <2>2, <3>1
    <3> QED
      BY <1>1, <3>2
  <2>3. Len(a) + i \in 1 .. Len(ab) /\ ab[Len(a) + i] = x
    BY <1>1, <2>1
  <2> QED
    BY <2>2, <2>3 DEF HasOne
<1>6. ASSUME NEW names, \A i \in 1 .. Len(a) : a[i][1] \in names, \A i \in 1 .. Len(b) : b[i][1] \in names
      PROVE  \A i \in 1 .. Len(ab) : ab[i][1] \in names
  BY <1>2, <1>6
<1> QED
  BY <1>1, <1>3, <1>4, <1>5, <1>6 DEF ab

\* What stream_remote_close has to do: the events of the waits in A, and the rest.
RemoteTodo(A) ==
  (IF "recv" \in A THEN <<Event("recv")>> ELSE <<>>)
  \o (IF "send" \in A THEN <<Event("send")>> ELSE <<>>)
  \o <<Stop("recv_timer"), Stop("send_timer"), Stop("rst_timer"), Free("op"), Free("rst_op")>>

\* The events are there, once each, and the two pipes.
LEMMA RemoteJobs ==
  ASSUME NEW A
  PROVE  /\ RemoteTodo(A) \in Seq(Jobs)
         /\ \A d \in Dirs : IF d \in A THEN HasOne(RemoteTodo(A), Event(d))
                            ELSE Lacks(RemoteTodo(A), Event(d))
         /\ \A p \in Ops : HasOne(RemoteTodo(A), Free(p))
         /\ \A p \in Pipes \ Ops : Lacks(RemoteTodo(A), Free(p))
         /\ Lacks(RemoteTodo(A), CloseFunc)
         /\ \A i \in 1 .. Len(RemoteTodo(A)) : RemoteTodo(A)[i][1] \in {"event", "stop", "free"}
<1> DEFINE a == IF "recv" \in A THEN <<Event("recv")>> ELSE <<>>
           b == IF "send" \in A THEN <<Event("send")>> ELSE <<>>
           r == <<Stop("recv_timer"), Stop("send_timer"), Stop("rst_timer"),
                  Free("op"), Free("rst_op")>>
<1>0. RemoteTodo(A) = (a \o b) \o r
  BY DEF RemoteTodo
<1>1. ASSUME NEW e, e \in {a, b}, NEW d \in Dirs, e = IF d \in A THEN <<Event(d)>> ELSE <<>>
      PROVE  /\ e \in Seq(Jobs)
             /\ \A i \in 1 .. Len(e) : e[i][1] \in {"event"}
             /\ d \in A => HasOne(e, Event(d))
             /\ d \notin A => Lacks(e, Event(d))
             /\ \A c : c # d => Lacks(e, Event(c))
  <2> HIDE DEF a, b
  <2>1. Event(d) \in Jobs /\ Event(d)[1] = "event" /\ \A c : c # d => Event(c) # Event(d)
    BY DEF Jobs, Event
  <2>2. CASE d \in A
    BY <1>1, <2>1, <2>2, Single
  <2>3. CASE d \notin A
    BY <1>1, <2>3, NoJobs
  <2> QED
    BY <2>2, <2>3
<1>2. /\ a \in Seq(Jobs) /\ \A i \in 1 .. Len(a) : a[i][1] \in {"event"}
      /\ "recv" \in A => HasOne(a, Event("recv"))
      /\ "recv" \notin A => Lacks(a, Event("recv"))
      /\ Lacks(a, Event("send"))
  <2>1. a = IF "recv" \in A THEN <<Event("recv")>> ELSE <<>>
    OBVIOUS
  <2> HIDE DEF a, b
  <2> QED
    BY <1>1, <2>1 DEF Dirs
<1>3. /\ b \in Seq(Jobs) /\ \A i \in 1 .. Len(b) : b[i][1] \in {"event"}
      /\ "send" \in A => HasOne(b, Event("send"))
      /\ "send" \notin A => Lacks(b, Event("send"))
      /\ Lacks(b, Event("recv"))
  <2>1. b = IF "send" \in A THEN <<Event("send")>> ELSE <<>>
    OBVIOUS
  <2> HIDE DEF a, b
  <2> QED
    BY <1>1, <2>1 DEF Dirs
<1>4. /\ r \in Seq(Jobs) /\ Len(r) = 5 /\ r[1] = Stop("recv_timer") /\ r[2] = Stop("send_timer")
      /\ r[3] = Stop("rst_timer") /\ r[4] = Free("op") /\ r[5] = Free("rst_op")
  <2>1. /\ Free("rst_op") \in Jobs /\ Stop("recv_timer") \in Jobs /\ Stop("send_timer") \in Jobs
        /\ Stop("rst_timer") \in Jobs /\ Free("op") \in Jobs
    BY DEF Jobs, Free, Stop, Pipes, Timers, Ops
  <2> QED
    BY <2>1
<1> HIDE DEF a, b, r
<1>5. \A i \in 1 .. 5 : i = 1 \/ i = 2 \/ i = 3 \/ i = 4 \/ i = 5
  OBVIOUS
<1>6. \A i \in 1 .. Len(r) : r[i][1] \in {"stop", "free"}
  BY <1>4, <1>5 DEF Free, Stop
<1>7. HasOne(r, Free("op")) /\ HasOne(r, Free("rst_op"))
  <2>1. \A i \in 1 .. Len(r) : r[i] = Free("op") => i = 4
    BY <1>4, <1>5 DEF Free, Stop
  <2>2. \A i \in 1 .. Len(r) : r[i] = Free("rst_op") => i = 5
    BY <1>4, <1>5 DEF Free, Stop
  <2> QED
    BY <1>4, <2>1, <2>2 DEF HasOne
<1>8. \A p \in Pipes \ Ops : Lacks(r, Free(p))
  <2> SUFFICES ASSUME NEW p \in Pipes \ Ops, NEW i \in 1 .. Len(r) PROVE r[i] # Free(p)
    BY DEF Lacks
  <2>1. p # "op" /\ p # "rst_op"
    BY DEF Ops
  <2> QED
    BY <1>4, <1>5, <2>1 DEF Free, Stop
<1>9. (\A d : Lacks(r, Event(d))) /\ Lacks(r, CloseFunc)
  BY <1>4, <1>6, NamesRight
<1>10. (\A p : Lacks(a, Free(p)) /\ Lacks(b, Free(p))) /\ Lacks(a, CloseFunc) /\ Lacks(b, CloseFunc)
  <2>1. /\ \A i \in 1 .. Len(a) : a[i][1] = "event"
        /\ \A i \in 1 .. Len(b) : b[i][1] = "event"
    BY <1>2, <1>3
  <2> QED
    BY <1>2, <1>3, <2>1, NamesRight
<1> DEFINE ab == a \o b
<1>11. /\ ab \in Seq(Jobs) /\ \A i \in 1 .. Len(ab) : ab[i][1] \in {"event"}
       /\ \A p : Lacks(ab, Free(p)) /\ Lacks(ab, CloseFunc)
       /\ \A d \in Dirs : IF d \in A THEN HasOne(ab, Event(d)) ELSE Lacks(ab, Event(d))
  <2>1. ab \in Seq(Jobs) /\ \A i \in 1 .. Len(ab) : ab[i][1] \in {"event"}
    BY <1>2, <1>3, Joined
  <2>2. \A p : Lacks(ab, Free(p)) /\ Lacks(ab, CloseFunc)
    BY <1>2, <1>3, <1>10, Joined
  <2>3. IF "recv" \in A THEN HasOne(ab, Event("recv")) ELSE Lacks(ab, Event("recv"))
    BY <1>2, <1>3, Joined
  <2>4. IF "send" \in A THEN HasOne(ab, Event("send")) ELSE Lacks(ab, Event("send"))
    BY <1>2, <1>3, Joined
  <2> HIDE DEF ab
  <2> QED
    BY <2>1, <2>2, <2>3, <2>4 DEF Dirs
<1> HIDE DEF ab
<1>12. RemoteTodo(A) = ab \o r
  BY <1>0 DEF ab
<1> DEFINE abr == ab \o r
<1>13. /\ abr \in Seq(Jobs)
       /\ \A x : Lacks(ab, x) /\ Lacks(r, x) => Lacks(abr, x)
       /\ \A x : HasOne(ab, x) /\ Lacks(r, x) => HasOne(abr, x)
       /\ \A x : Lacks(ab, x) /\ HasOne(r, x) => HasOne(abr, x)
       /\ (\A i \in 1 .. Len(ab) : ab[i][1] \in {"event", "stop", "free"})
          /\ (\A i \in 1 .. Len(r) : r[i][1] \in {"event", "stop", "free"})
          => \A i \in 1 .. Len(abr) : abr[i][1] \in {"event", "stop", "free"}
  BY ONLY <1>4, <1>11, Joined
<1> HIDE DEF abr
<1>14. \A d \in Dirs : IF d \in A THEN HasOne(abr, Event(d)) ELSE Lacks(abr, Event(d))
  BY ONLY <1>9, <1>11, <1>13
<1>15. (\A p \in Ops : HasOne(abr, Free(p))) /\ (\A p \in Pipes \ Ops : Lacks(abr, Free(p)))
  <2>1. \A p \in Ops : HasOne(r, Free(p))
    BY <1>7 DEF Ops
  <2> QED
    BY ONLY <1>8, <1>11, <1>13, <2>1
<1>16. Lacks(abr, CloseFunc)
  BY ONLY <1>9, <1>11, <1>13
<1>17. \A i \in 1 .. Len(abr) : abr[i][1] \in {"event", "stop", "free"}
  BY ONLY <1>6, <1>11, <1>13
<1>18. RemoteTodo(A) = abr
  BY <1>12 DEF abr
<1> QED
  BY ONLY <1>13, <1>14, <1>15, <1>16, <1>17, <1>18

\* stream_remote_close
LEMMA RemoteKeeps ==
  ASSUME IInv, NEW t \in Threads, ~Idle(t), Head(todo[t]) = <<"remote_close">>,
         Section(t, RemoteClose)
  PROVE  IInv'
<1>0. StreamTypes /\ PipesInv /\ MarksInv /\ WaitsInv /\ s \in Streams
  BY DEF IInv, StreamTypes
<1> DEFINE new == RemoteTodo(Announced)
           status == IF s.recv_hub = <<>> THEN "SHUT_RECV" ELSE "RST_RECV"
           flags == s.flags \ Announced
           pipe == Deleted(Ops)
           held == s.held \ Ops
           first == s.status \in Connected
           last == s.status \in {"INITIAL", "RST_SEND"}
<1>1. /\ first => RemoteClose =
           [s |-> [s EXCEPT !.status = status, !.flags = flags, !.pipe = pipe, !.held = held,
                            !.mark = MarksChanged],
            todo |-> new]
      /\ last => RemoteClose = [s |-> [s EXCEPT !.status = "CLOSED"], todo |-> <<CloseFunc>>]
      /\ ~first /\ ~last => RemoteClose = [s |-> s, todo |-> <<>>]
  BY DEF RemoteClose, RemoteTodo, Connected, CloseFunc
<1>2. /\ new \in Seq(Jobs)
      /\ \A d \in Dirs : IF d \in Announced THEN HasOne(new, Event(d)) ELSE Lacks(new, Event(d))
      /\ \A p \in Ops : HasOne(new, Free(p))
      /\ \A p \in Pipes \ Ops : Lacks(new, Free(p))
      /\ Lacks(new, CloseFunc)
      /\ \A i \in 1 .. Len(new) : new[i][1] \in {"event", "stop", "free"}
  BY RemoteJobs
<1>3. <<CloseFunc>> \in Seq(Jobs)
  BY Single DEF CloseFunc, Jobs
<1> HIDE DEF new
<1>4. RemoteClose.todo \in Seq(Jobs)
  <2> HIDE DEF first, last, status, flags, pipe, held
  <2>1. RemoteClose.todo = new \/ RemoteClose.todo = <<CloseFunc>> \/ RemoteClose.todo = <<>>
    BY <1>1
  <2> QED
    BY <1>2, <1>3, <2>1, NoJobs
<1>5. /\ Turn(t, 1, RemoteClose.todo) /\ s' = RemoteClose.s /\ todo[t][1] = <<"remote_close">>
      /\ UNCHANGED <<freed, shut, armed, owed, stolen>>
  BY <1>0, <1>4, SectionTurn
<1>6. todo[t][1][1] \notin Telling
  BY <1>5 DEF Telling
<1>7. CASE last
  <2>1. s.status # "CLOSED" /\ s' = [s EXCEPT !.status = "CLOSED"] /\ RemoteClose.todo = <<CloseFunc>>
    BY <1>1, <1>5, <1>7
  <2> QED
    BY <1>5, <1>6, <2>1, ClosedKeeps
<1>8. CASE ~first /\ ~last
  <2>1. s' = s /\ RemoteClose.todo = <<>>
    BY <1>1, <1>5, <1>8
  <2>2. armed' \in [Timers -> Nat] /\ \A d \in Dirs : armed'[TimerOf(d)] \in {0, armed[TimerOf(d)]}
    BY <1>0, <1>5 DEF StreamTypes
  <2> QED
    BY <1>5, <1>6, <2>1, <2>2, NoJobs, SameStream
<1>9. CASE first
  <2>1. RemoteClose.todo = new
    BY <1>1, <1>9
  <2>2. /\ status \in {"SHUT_RECV", "RST_RECV"} /\ status \in Statuses
        /\ status = "RST_RECV" => s.recv_hub # <<>>
    BY DEF Statuses
  <2>3. flags \in SUBSET Dirs /\ held \in SUBSET Pipes /\ s.recv_hub \in Seq(Nat)
    BY <1>0 DEF Streams
  <2>4. /\ pipe \in [Pipes -> {"ACTIVE", "STOP", "DEL"}] /\ MarksChanged \in [Timers -> Nat]
        /\ pipe["pushed"] = s.pipe["pushed"]
    BY <1>0 DEF Deleted, MarksChanged, Streams, Pipes, Ops
  <2>5. Announced \subseteq s.flags
    BY DEF Announced
  <2> HIDE DEF status, flags, pipe, held
  <2>6. s' = [s EXCEPT !.status = status, !.flags = flags, !.pipe = pipe, !.held = held,
                       !.mark = MarksChanged]
    BY <1>1, <1>5, <1>9
  <2>7. s' = [status |-> status, flags |-> flags, recv_hub |-> s.recv_hub, mark |-> MarksChanged,
              pipe |-> pipe, held |-> held]
    BY <1>0, <2>6 DEF Streams
  <2>8. s' \in Streams
    BY <2>2, <2>3, <2>4, <2>7 DEF Streams
  <2>9. /\ s'.status = status /\ s'.flags = s.flags \ Announced /\ s'.recv_hub = s.recv_hub
        /\ s'.mark = MarksChanged /\ s'.pipe = pipe /\ s'.held = s.held \ Ops
    BY <2>7 DEF flags, held
  <2>10. StreamTypes'
    BY <1>0, <1>5, <2>1, <2>8 DEF StreamTypes, Turn
  <2>11. PipesInv'
    <3>1. s.status \in Opening /\ s.status # "CLOSED"
      BY <1>9 DEF Connected, Opening
    <3>2. Ops \in SUBSET s.held
      BY <1>0, <3>1 DEF PipesInv, Pipes, Ops
    <3>3. s'.status # "CLOSED" /\ s'.status \notin Opening
      BY <2>2, <2>9 DEF Opening
    <3>4. todo[t][1][1] \notin {"free", "close_func"}
      BY <1>6 DEF Telling
    <3>5. s'.pipe["pushed"] = "ACTIVE" => s.pipe["pushed"] = "ACTIVE" /\ "pushed" \notin Ops
      BY <2>4, <2>9 DEF Ops
    <3> QED
      BY <1>0, <1>2, <1>5, <2>1, <2>9, <3>1, <3>2, <3>3, <3>4, <3>5, PipesMove
  <2>12. MarksInv'
    <3>1. /\ \A d \in Dirs : s'.mark[TimerOf(d)] >= s.mark[TimerOf(d)]
          /\ \A m \in Nat : Setting("recv", m) => m < s'.mark["recv_timer"]
      BY <1>0, <2>8, <2>9, MarksUp
    <3>2. \A d \in Dirs : armed'[TimerOf(d)] \in {0, armed[TimerOf(d)]}
      BY <1>5
    <3>3. \A i \in 1 .. Len(new) : new[i][1] \notin {"times_up", "set", "unset"}
      BY <1>2
    <3> QED
      BY <1>0, <1>5, <2>1, <2>8, <3>1, <3>2, <3>3, MarksMove
  <2>13. WaitsInv'
    <3>1. todo[t][1][1] \notin {"event", "free", "close_func"}
      BY <1>6 DEF Telling
    <3>2. s'.flags \subseteq s.flags /\ s.flags \ s'.flags = Announced
      BY <2>5, <2>9
    <3>3. s'.status = "RST_RECV" => s'.recv_hub # <<>>
      BY <2>2, <2>9
    <3>4. \A d \in s.flags \ s'.flags : HasOne(new, Event(d))
      BY <1>0, <1>2, <2>5, <3>2 DEF Streams
    <3>5. \/ Lacks(new, Event("recv"))
          \/ HasOne(new, Event("recv")) /\ "recv" \in s.flags \ s'.flags
      BY <1>2, <3>2 DEF Dirs
    <3> QED
      BY <1>0, <1>5, <2>1, <3>1, <3>2, <3>3, <3>4, <3>5, WaitsMove
  <2> QED
    BY <2>10, <2>11, <2>12, <2>13 DEF IInv
<1> QED
  BY <1>7, <1>8, <1>9

\* stream_pipe_close
LEMMA PipeCloseKeeps ==
  ASSUME IInv, NEW t \in {"user", "net"}, NEW p \in Pipes, PipeClose(t, p)
  PROVE  IInv'
<1>0. /\ StreamTypes /\ PipesInv /\ MarksInv /\ WaitsInv /\ s \in Streams /\ t \in Threads
      /\ Idle(t) /\ shut' = shut \cup {p} /\ freed' = freed /\ stolen' = stolen
  BY DEF IInv, StreamTypes, Threads, PipeClose
<1>1. /\ armed' \in [Timers -> Nat] /\ \A d \in Dirs : armed'[TimerOf(d)] \in {0, armed[TimerOf(d)]}
      /\ shut' \subseteq Pipes
  BY <1>0, TimersRight DEF StreamTypes, PipeClose
<1>2. /\ owed' \in [Dirs -> {"no", "timed", "endless"}]
      /\ \/ owed' = owed /\ ("control" \in shut' <=> "control" \in shut)
         \/ (\A d \in Dirs : owed'[d] = "no") /\ "control" \in shut'
  <2>1. owed' = IF p = "control" THEN [d \in {"recv", "send"} |-> "no"] ELSE owed
    BY DEF PipeClose
  <2>2. CASE p = "control"
    BY <1>0, <2>1, <2>2 DEF Dirs
  <2>3. CASE p # "control"
    BY <1>0, <2>1, <2>3 DEF StreamTypes
  <2> QED
    BY <2>2, <2>3
<1> DEFINE open == s.status # "CLOSED" /\ s.pipe[p] = "ACTIVE"
<1>3. CASE ~open
  <2>1. s' = s /\ todo' = todo
    BY <1>3 DEF PipeClose
  <2>2. todo' = [todo EXCEPT ![t] = <<>>]
    BY <1>0, <2>1 DEF Idle, StreamTypes
  <2>3. Turn(t, 0, <<>>)
    BY <1>0, <2>2, NoJobs, TurnIdle
  <2>4. s.status = "RST_RECV" => s.recv_hub # <<>>
    BY <1>0 DEF WaitsInv
  <2> QED
    BY <1>0, <1>1, <1>2, <2>1, <2>3, <2>4, NoJobs, PlainTurn
<1>4. CASE open /\ p = "pushed"
  <2> DEFINE new == <<Free("pushed")>>
  <2>1. s' = [s EXCEPT !.pipe["pushed"] = "DEL", !.held = @ \ {"pushed"}] /\ todo' = [todo EXCEPT ![t] = new]
    BY <1>4 DEF PipeClose
  <2>2. Free("pushed") \in Jobs /\ Free("pushed")[1] = "free" /\ \A q : q # "pushed" => Free(q) # Free("pushed")
    BY DEF Jobs, Free, Pipes
  <2>3. /\ new \in Seq(Jobs) /\ HasOne(new, Free("pushed")) /\ \A i \in 1 .. Len(new) : new[i][1] = "free"
        /\ \A q : q # "pushed" => Lacks(new, Free(q))
    BY <2>2, Single
  <2> HIDE DEF new
  <2>4. Turn(t, 0, new)
    BY <1>0, <2>1, <2>3, TurnIdle
  <2>5. (\A d : Lacks(new, Event(d))) /\ Lacks(new, CloseFunc)
    BY <2>3, NamesRight
  <2>6. /\ s' \in Streams /\ s'.status = s.status /\ s'.flags = s.flags /\ s'.recv_hub = s.recv_hub
        /\ s'.mark = s.mark /\ s'.held = s.held \ {"pushed"} /\ s'.pipe["pushed"] = "DEL"
    <3> DEFINE pipe == [s.pipe EXCEPT !["pushed"] = "DEL"]
    <3>1. pipe \in [Pipes -> {"ACTIVE", "STOP", "DEL"}] /\ pipe["pushed"] = "DEL"
      BY <1>0 DEF Streams, Pipes
    <3>2. s' = [s EXCEPT !.pipe = pipe, !.held = s.held \ {"pushed"}]
      BY <2>1
    <3> HIDE DEF pipe
    <3> QED
      BY <1>0, <3>1, <3>2 DEF Streams
  <2>7. StreamTypes'
    BY <1>0, <1>1, <1>2, <2>4, <2>6 DEF StreamTypes, Turn
  <2>8. PipesInv'
    <3>1. {"pushed"} \in SUBSET s.held
      BY <1>0, <1>4 DEF PipesInv
    <3>2. s.status # "CLOSED"
      BY <1>4
    <3>3. \A q \in {"pushed"} : HasOne(new, Free(q))
      BY <2>3
    <3>4. \A q \in Pipes \ {"pushed"} : Lacks(new, Free(q))
      BY <2>3
    <3>5. s'.pipe["pushed"] # "ACTIVE"
      BY <2>6
    <3> QED
      BY <1>0, <2>4, <2>5, <2>6, <3>1, <3>2, <3>3, <3>4, <3>5, PipesMove
  <2>9. MarksInv'
    <3>1. \A d \in Dirs : s'.mark[TimerOf(d)] >= s.mark[TimerOf(d)]
      BY <1>0, <2>6, TimersRight DEF Streams
    <3>2. \A i \in 1 .. Len(new) : new[i][1] \notin {"times_up", "set", "unset"}
      BY <2>3
    <3> QED
      BY <1>0, <1>1, <2>4, <2>5, <2>6, <3>1, <3>2, MarksMove
  <2>10. WaitsInv'
    <3>1. s'.flags \subseteq s.flags /\ s.flags \ s'.flags = {}
      BY <2>6
    <3>2. s'.status = "RST_RECV" => s'.recv_hub # <<>>
      BY <1>0, <2>6 DEF WaitsInv
    <3> QED
      BY <1>0, <1>2, <2>4, <2>5, <3>1, <3>2, WaitsMove
  <2> QED
    BY <2>7, <2>8, <2>9, <2>10 DEF IInv
<1>5. CASE open /\ p # "pushed"
  <2> DEFINE both == <<<<"remote_close">>, <<"local_close">>>>
             local == <<<<"local_close">>>>
  <2>1. s' = [s EXCEPT !.pipe[p] = "STOP"]
    BY <1>5 DEF PipeClose
  <2>2. todo' = [todo EXCEPT ![t] = both] \/ todo' = [todo EXCEPT ![t] = local]
    BY <1>5 DEF PipeClose
  <2>3. \A new \in {both, local} :
          /\ new \in Seq(Jobs)
          /\ \A i \in 1 .. Len(new) : new[i][1] \notin Telling \cup {"times_up", "set", "unset"}
    <3>1. <<"remote_close">> \in Jobs /\ <<"local_close">> \in Jobs
      BY DEF Jobs
    <3>2. both \in Seq(Jobs) /\ local \in Seq(Jobs)
      BY <3>1
    <3>3. \A i \in 1 .. Len(both) : both[i] \in {<<"remote_close">>, <<"local_close">>}
      <4>1. \A i \in 1 .. 2 : i = 1 \/ i = 2
        OBVIOUS
      <4> QED
        BY <4>1
    <3>4. \A i \in 1 .. Len(local) : local[i] \in {<<"remote_close">>, <<"local_close">>}
      OBVIOUS
    <3> HIDE DEF both, local
    <3>5. \A j \in {<<"remote_close">>, <<"local_close">>} : j[1] \notin Telling \cup {"times_up", "set", "unset"}
      BY DEF Telling
    <3> QED
      BY <3>2, <3>3, <3>4, <3>5
  <2> HIDE DEF both, local
  <2>4. PICK new \in {both, local} : todo' = [todo EXCEPT ![t] = new]
    BY <2>2
  <2>5. Turn(t, 0, new)
    BY <1>0, <2>3, <2>4, TurnIdle
  <2>6. /\ s' \in Streams /\ s'.status = s.status /\ s'.flags = s.flags /\ s'.recv_hub = s.recv_hub
        /\ s'.mark = s.mark /\ s'.held = s.held /\ s'.pipe["pushed"] = s.pipe["pushed"]
    <3> DEFINE pipe == [s.pipe EXCEPT ![p] = "STOP"]
    <3>1. pipe \in [Pipes -> {"ACTIVE", "STOP", "DEL"}] /\ pipe["pushed"] = s.pipe["pushed"]
      BY <1>0, <1>5 DEF Streams, Pipes
    <3>2. s' = [s EXCEPT !.pipe = pipe]
      BY <2>1
    <3> HIDE DEF pipe
    <3> QED
      BY <1>0, <3>1, <3>2 DEF Streams
  <2>7. s'.status = "RST_RECV" => s'.recv_hub # <<>>
    BY <1>0, <2>6 DEF WaitsInv
  <2> HIDE DEF open
  <2> QED
    BY <1>0, <1>1, <1>2, <2>3, <2>5, <2>6, <2>7, PlainTurn
<1> QED
  BY <1>3, <1>4, <1>5

\* user_set_can_recv, user_set_can_send
LEMMA StartKeeps ==
  ASSUME IInv, NEW d \in Dirs, NEW timed \in BOOLEAN, NEW now \in BOOLEAN, NEW flags \in SUBSET Dirs,
         StartWait(d, timed, now, flags),
         d = "recv" => /\ flags = IF now THEN s.flags \ {"recv"} ELSE s.flags \cup {"recv"}
                       /\ stolen' = stolen,
         d = "send" => /\ flags = (s.flags \cup {"send"}) \ (IF now THEN {"recv"} ELSE {})
                       /\ stolen' = (stolen \/ (now /\ "recv" \in s.flags))
  PROVE  IInv'
<1> DEFINE x == TimerOf(d)
           m == s.mark[x] + 1
           job == IF now THEN Event(d) ELSE <<"set", x, m>>
           new == IF now \/ timed THEN <<job>> ELSE <<>>
<1>0. /\ StreamTypes /\ PipesInv /\ MarksInv /\ WaitsInv /\ s \in Streams /\ "user" \in Threads
      /\ Idle("user") /\ "control" \notin shut /\ owed[d] = "no"
      /\ UNCHANGED <<freed, shut, armed>>
      /\ owed' = [owed EXCEPT ![d] = IF timed THEN "timed" ELSE "endless"]
  BY DEF IInv, StreamTypes, Threads, StartWait
<1>1. x \in Timers /\ m \in Nat
  BY <1>0, TimersRight DEF Streams
<1>2. s' = [s EXCEPT !.mark = [s.mark EXCEPT ![x] = m], !.flags = flags]
  BY DEF StartWait
<1>3. /\ s' \in Streams /\ s'.status = s.status /\ s'.flags = flags /\ s'.recv_hub = s.recv_hub
      /\ s'.mark = [s.mark EXCEPT ![x] = m] /\ s'.held = s.held /\ s'.pipe = s.pipe
  <2> DEFINE mark == [s.mark EXCEPT ![x] = m]
  <2>1. mark \in [Timers -> Nat]
    BY <1>0, <1>1 DEF Streams
  <2>2. s' = [s EXCEPT !.mark = mark, !.flags = flags]
    BY <1>2
  <2> HIDE DEF mark
  <2>3. /\ s' \in Streams /\ s'.status = s.status /\ s'.flags = flags /\ s'.recv_hub = s.recv_hub
        /\ s'.mark = mark /\ s'.held = s.held /\ s'.pipe = s.pipe
    BY <1>0, <2>1, <2>2 DEF Streams
  <2> QED
    BY <2>3 DEF mark
<1>4. job \in Jobs
  BY <1>1, TimersRight DEF Jobs, Event
<1>5. todo' = [todo EXCEPT !["user"] = new]
  <2>1. todo' = [todo EXCEPT !["user"] = CASE now -> <<Event(d)>>
                                           [] ~now /\ timed -> <<<<"set", x, m>>>>
                                           [] OTHER -> <<>>]
    BY DEF StartWait, MarkOf
  <2>2. CASE now
    BY <2>1, <2>2
  <2>3. CASE ~now /\ timed
    BY <2>1, <2>3
  <2>4. CASE ~now /\ ~timed
    BY <2>1, <2>4
  <2> QED
    BY <2>2, <2>3, <2>4
<1> HIDE DEF x, m
<1>6. /\ new \in Seq(Jobs)
      /\ now => HasOne(new, Event(d)) /\ \A i \in 1 .. Len(new) : new[i][1] = "event"
      /\ ~now => \A i \in 1 .. Len(new) : new[i][1] = "set"
      /\ \A e \in Dirs \ {d} : Lacks(new, Event(e))
  <2>1. CASE new = <<job>> /\ now
    <3>1. job = Event(d) /\ job[1] = "event" /\ \A e \in Dirs \ {d} : Event(e) # job
      BY <2>1 DEF Event
    <3> HIDE DEF job
    <3> QED
      BY <1>4, <2>1, <3>1, Single
  <2>2. CASE new = <<job>> /\ ~now
    <3>1. job[1] = "set" /\ \A e : Event(e) # job
      BY <2>2 DEF Event
    <3> HIDE DEF job
    <3> QED
      BY <1>4, <2>2, <3>1, Single
  <2>3. CASE new = <<>> /\ ~now
    BY <2>3, NoJobs
  <2> QED
    BY <2>1, <2>2, <2>3
<1>7. ~now /\ timed => new = <<<<"set", x, m>>>>
  OBVIOUS
<1>8. ~(~now /\ timed) => \A i \in 1 .. Len(new) : new[i][1] \notin {"times_up", "set", "unset"}
  <2>1. CASE now
    BY <1>6, <2>1
  <2>2. CASE ~now /\ ~timed
    BY <2>2, NoJobs
  <2> QED
    BY <2>1, <2>2
<1>9. Turn("user", 0, new)
  BY <1>0, <1>5, <1>6, TurnIdle
<1> HIDE DEF new
<1>10. /\ \A i \in 1 .. Len(new) : new[i][1] # "free"
       /\ \A i \in 1 .. Len(new) : new[i][1] # "close_func"
       /\ ~now => \A i \in 1 .. Len(new) : new[i][1] # "event"
  BY <1>6
<1>11. (\A p : Lacks(new, Free(p))) /\ Lacks(new, CloseFunc) /\ (~now => \A e : Lacks(new, Event(e)))
  BY <1>6, <1>10, NamesRight
<1>12. owed' \in [Dirs -> {"no", "timed", "endless"}] /\ owed'[d] # "no" /\ \A e \in Dirs \ {d} : owed'[e] = owed[e]
  BY <1>0 DEF StreamTypes
<1>13. StreamTypes'
  BY <1>0, <1>3, <1>9, <1>12 DEF StreamTypes, Turn
<1>14. PipesInv'
  <2>1. s'.held = s.held \ {} /\ {} \in SUBSET s.held
    BY <1>3
  <2> QED
    BY <1>0, <1>3, <1>9, <1>11, <2>1, PipesMove
<1>15. MarksInv'
  <2>1. CASE ~now /\ timed
    <3>1. d = "recv" => None(Event("recv"))
      BY <1>0 DEF WaitsInv
    <3>2. Turn("user", 0, <<<<"set", TimerOf(d), m>>>>)
      BY <1>7, <1>9, <2>1 DEF x
    <3>3. m = s.mark[TimerOf(d)] + 1 /\ s'.mark = [s.mark EXCEPT ![TimerOf(d)] = m]
      BY <1>3 DEF x, m
    <3>4. armed' = armed
      BY <1>0
    <3> QED
      BY <1>0, <1>3, <3>1, <3>2, <3>3, <3>4, MarksStart
  <2>2. CASE ~(~now /\ timed)
    <3>1. \A n \in Nat : Setting("recv", n) => n < s'.mark["recv_timer"]
      BY <1>0, IdleSetsNone DEF MarksInv, Dirs
    <3>2. \A e \in Dirs : s'.mark[TimerOf(e)] >= s.mark[TimerOf(e)]
      BY <1>0, <1>1, <1>3, TimersRight DEF Streams, m
    <3>3. \A e \in Dirs : armed'[TimerOf(e)] \in {0, armed[TimerOf(e)]}
      BY <1>0
    <3> QED
      BY <1>0, <1>3, <1>8, <1>9, <2>2, <3>1, <3>2, <3>3, MarksMove
  <2> QED
    BY <2>1, <2>2
<1>16. WaitsInv'
  <2>1. HasOne(new, Event(d)) \/ (d \in s'.flags /\ Lacks(new, Event(d)))
    BY <1>3, <1>6, <1>11 DEF Dirs
  <2>2. d = "recv" => "recv" \notin s'.flags \/ Lacks(new, Event(d))
    BY <1>3, <1>11
  <2>3. d = "recv" => s'.flags \ {"recv"} = s.flags \ {"recv"} /\ stolen' = stolen
    BY <1>3
  <2>4. d = "send" => /\ s'.flags \subseteq s.flags \cup {"send"}
                      /\ "recv" \in s.flags \ s'.flags => stolen'
                      /\ stolen => stolen'
    BY <1>3
  <2>5. s'.status = "RST_RECV" => s'.recv_hub # <<>>
    BY <1>0, <1>3 DEF WaitsInv
  <2> QED
    BY <1>0, <1>6, <1>9, <1>12, <2>1, <2>2, <2>3, <2>4, <2>5, WaitsStart
<1> QED
  BY <1>13, <1>14, <1>15, <1>16 DEF IInv

\* A wait of either kind.
LEMMA WaitKeeps ==
  ASSUME IInv, NEW timed \in BOOLEAN, user_set_can_recv(timed) \/ user_set_can_send(timed)
  PROVE  IInv'
<1>0. s.flags \in SUBSET Dirs /\ "recv" \in Dirs /\ "send" \in Dirs
  BY DEF IInv, StreamTypes, Streams, Dirs
<1>1. CASE user_set_can_recv(timed)
  <2> DEFINE now == s.recv_hub # <<>>
             flags == IF now THEN s.flags \ {"recv"} ELSE s.flags \cup {"recv"}
  <2>1. StartWait("recv", timed, now, flags) /\ stolen' = stolen
    BY <1>1 DEF user_set_can_recv
  <2>2. now \in BOOLEAN /\ flags \in SUBSET Dirs /\ flags = IF now THEN s.flags \ {"recv"} ELSE s.flags \cup {"recv"}
    BY <1>0
  <2> HIDE DEF now, flags
  <2> QED
    BY <1>0, <2>1, <2>2, StartKeeps
<1>2. CASE user_set_can_send(timed)
  <2>1. PICK now \in BOOLEAN :
          /\ StartWait("send", timed, now, (s.flags \cup {"send"}) \ (IF now THEN {"recv"} ELSE {}))
          /\ stolen' = (stolen \/ (now /\ "recv" \in s.flags))
    BY <1>2 DEF user_set_can_send
  <2> DEFINE flags == (s.flags \cup {"send"}) \ (IF now THEN {"recv"} ELSE {})
  <2>2. flags \in SUBSET Dirs /\ flags = (s.flags \cup {"send"}) \ (IF now THEN {"recv"} ELSE {})
        /\ StartWait("send", timed, now, flags)
    BY <1>0, <2>1
  <2> HIDE DEF flags
  <2> QED
    BY <1>0, <2>1, <2>2, StartKeeps
<1> QED
  BY <1>1, <1>2

\* A call that is done without a word to the user and without a pipe: the timers
\* have been set with no new mark, or not at all.
LEMMA DoneKeeps ==
  ASSUME IInv, NEW t \in Threads, ~Idle(t), Done(t), Head(todo[t])[1] \notin Telling,
         UNCHANGED <<s, freed, shut, owed, stolen>>, armed' \in [Timers -> Nat],
         \A d \in Dirs : armed'[TimerOf(d)] \in {0, armed[TimerOf(d)]}
  PROVE  IInv'
<1>1. Turn(t, 1, <<>>) /\ todo[t][1][1] \notin Telling
  BY DoneTurn DEF IInv
<1> QED
  BY <1>1, NoJobs, SameStream

\* The timer of a wait could not be set, and the wait fails if it is still there.
LEMMA UnsetKeeps ==
  ASSUME IInv, NEW t \in Threads, ~Idle(t), NEW d \in Dirs, NEW m \in Nat,
         Head(todo[t]) = <<"unset", d, m>>, Unset(d, m), Done(t), UNCHANGED <<freed, shut, armed>>
  PROVE  IInv'
<1>0. StreamTypes /\ PipesInv /\ MarksInv /\ WaitsInv /\ s \in Streams
  BY DEF IInv, StreamTypes
<1>1. Turn(t, 1, <<>>) /\ todo[t][1] = <<"unset", d, m>> /\ todo[t][1][1] = "unset"
  BY <1>0, DoneTurn
<1>2. armed' \in [Timers -> Nat] /\ \A e \in Dirs : armed'[TimerOf(e)] \in {0, armed[TimerOf(e)]}
  BY <1>0 DEF StreamTypes
<1>3. CASE ~(CanSet(d) /\ s.mark[TimerOf(d)] = m)
  <2>1. UNCHANGED <<s, owed, stolen>>
    BY <1>3 DEF Unset
  <2>2. Head(todo[t])[1] \notin Telling
    BY DEF Telling
  <2> QED
    BY <1>2, <2>1, <2>2, DoneKeeps
<1>4. CASE CanSet(d) /\ s.mark[TimerOf(d)] = m
  <2>1. /\ s' = [s EXCEPT !.flags = s.flags \ {"recv"}] /\ owed' = [owed EXCEPT ![d] = "no"]
        /\ stolen' = (stolen \/ (d = "send" /\ "recv" \in s.flags))
    BY <1>4 DEF Unset
  <2>2. /\ s' \in Streams /\ s'.flags = s.flags \ {"recv"} /\ s'.mark = s.mark /\ s'.held = s.held
        /\ s'.pipe = s.pipe /\ s'.status = s.status /\ s'.recv_hub = s.recv_hub
    BY <1>0, <2>1 DEF Streams
  <2>3. StreamTypes'
    <3>1. owed' \in [Dirs -> {"no", "timed", "endless"}]
      BY <1>0, <2>1 DEF StreamTypes
    <3> QED
      BY <1>0, <1>1, <2>2, <3>1 DEF StreamTypes, Turn
  <2>4. PipesInv'
    <3>1. s'.held = s.held \ {} /\ {} \in SUBSET s.held
      BY <2>2
    <3>2. todo[t][1][1] \notin {"free", "close_func"}
      BY <1>1
    <3> QED
      BY <1>0, <1>1, <2>2, <3>1, <3>2, NoJobs, PipesMove
  <2>5. MarksInv'
    <3>1. \A e \in Dirs : s'.mark[TimerOf(e)] >= s.mark[TimerOf(e)]
      BY <1>0, <2>2, TimersRight DEF Streams
    <3> QED
      BY <1>0, <1>1, <1>2, <2>2, <3>1, NoJobs, MarksMove
  <2>6. WaitsInv'
    BY <1>0, <1>1, <1>4, <2>1, <2>2, WaitsUnset
  <2> QED
    BY <2>3, <2>4, <2>5, <2>6 DEF IInv
<1> QED
  BY <1>3, <1>4

\* What is left of a turn that leaves the stream, its pipes and its timers alone.
LEMMA QuietTurn ==
  ASSUME StreamTypes, PipesInv, MarksInv, NEW t \in Threads, Turn(t, 1, <<>>),
         todo[t][1][1] \notin {"free", "close_func"}, UNCHANGED <<s, freed, armed>>
  PROVE  PipesInv' /\ MarksInv'
<1>1. s'.held = s.held \ {} /\ {} \in SUBSET s.held
  OBVIOUS
<1>2. PipesInv'
  BY <1>1, NoJobs, PipesMove
<1>3. s' \in Streams /\ \A d \in Dirs : s'.mark[TimerOf(d)] >= s.mark[TimerOf(d)]
  BY TimersRight DEF StreamTypes, Streams
<1>4. \A d \in Dirs : armed'[TimerOf(d)] \in {0, armed[TimerOf(d)]}
  OBVIOUS
<1> QED
  BY <1>2, <1>3, <1>4, NoJobs, MarksMove

\* The user has its event.
LEMMA EventKeeps ==
  ASSUME IInv, NEW t \in Threads, ~Idle(t), NEW d \in Dirs, Head(todo[t]) = <<"event", d>>,
         owed' = IF "control" \in shut THEN owed ELSE [owed EXCEPT ![d] = "no"],
         Done(t), UNCHANGED <<s, freed, shut, armed, stolen>>
  PROVE  IInv'
<1>0. StreamTypes /\ PipesInv /\ MarksInv /\ WaitsInv
  BY DEF IInv
<1>1. Turn(t, 1, <<>>) /\ todo[t][1] = Event(d) /\ todo[t][1][1] \notin {"free", "close_func"}
  BY <1>0, DoneTurn DEF Event
<1>2. StreamTypes'
  <2>1. owed' \in [Dirs -> {"no", "timed", "endless"}]
    BY <1>0 DEF StreamTypes
  <2> QED
    BY <1>0, <1>1, <2>1 DEF StreamTypes, Turn
<1>3. WaitsInv'
  BY <1>0, <1>1, WaitsEvent
<1>4. PipesInv' /\ MarksInv'
  BY <1>0, <1>1, QuietTurn
<1> QED
  BY <1>2, <1>3, <1>4 DEF IInv

\* The timer service sets the timer of a wait, or fails to.
LEMMA SetKeeps ==
  ASSUME IInv, NEW t \in Threads, ~Idle(t), NEW x \in {"recv_timer", "send_timer"}, NEW m \in Nat,
         Head(todo[t]) = <<"set", x, m>>,
         \/ armed' = [armed EXCEPT ![x] = m] /\ Done(t)
         \/ /\ todo' = [todo EXCEPT ![t] =
                 <<<<"unset", IF x = "recv_timer" THEN "recv" ELSE "send", m>>>> \o Tail(@)]
            /\ UNCHANGED armed,
         UNCHANGED <<s, freed, shut, owed, stolen>>
  PROVE  IInv'
<1>0. StreamTypes /\ PipesInv /\ MarksInv /\ WaitsInv /\ s \in Streams /\ freed' = freed /\ s' = s
  BY DEF IInv, StreamTypes
<1>1. PICK d \in Dirs : x = TimerOf(d)
  BY TimersRight
<1>2. d = IF x = "recv_timer" THEN "recv" ELSE "send"
  BY <1>1 DEF TimerOf, Dirs
<1>3. ASSUME NEW new, Turn(t, 1, new), todo[t][1] = <<"set", x, m>>,
             \A i \in 1 .. Len(new) : new[i][1] = "unset"
      PROVE  PipesInv' /\ WaitsInv'
  <2>0. new \in Seq(Jobs) /\ todo[t][1][1] = "set"
    BY <1>3 DEF Turn
  <2>1. (\A e : Lacks(new, Event(e))) /\ (\A p : Lacks(new, Free(p))) /\ Lacks(new, CloseFunc)
    BY <1>3, <2>0, NamesRight
  <2>2. s'.held = s.held \ {} /\ {} \in SUBSET s.held /\ s'.flags \subseteq s.flags /\ s.flags \ s'.flags = {}
    BY <1>0
  <2>3. PipesInv'
    BY <1>0, <1>3, <2>0, <2>1, <2>2, PipesMove
  <2>4. s'.status = "RST_RECV" => s'.recv_hub # <<>>
    BY <1>0 DEF WaitsInv
  <2>5. WaitsInv'
    BY <1>0, <1>3, <2>0, <2>1, <2>2, <2>4, WaitsMove
  <2> QED
    BY <2>3, <2>5
<1>4. CASE armed' = [armed EXCEPT ![x] = m] /\ Done(t)
  <2>1. Turn(t, 1, <<>>) /\ todo[t][1] = <<"set", x, m>>
    BY <1>0, <1>4, DoneTurn
  <2>2. PipesInv' /\ WaitsInv'
    BY <1>3, <2>1, NoJobs
  <2>3. MarksInv'
    BY <1>0, <1>1, <1>4, <2>1, MarksSet
  <2>4. StreamTypes'
    <3>1. armed' \in [Timers -> Nat]
      BY <1>0, <1>4 DEF StreamTypes
    <3> QED
      BY <1>0, <2>1, <3>1 DEF StreamTypes, Turn
  <2> QED
    BY <2>2, <2>3, <2>4 DEF IInv
<1>5. CASE /\ todo' = [todo EXCEPT ![t] =
                <<<<"unset", IF x = "recv_timer" THEN "recv" ELSE "send", m>>>> \o Tail(@)]
           /\ UNCHANGED armed
  <2> DEFINE new == <<<<"unset", d, m>>>>
  <2>1. todo' = [todo EXCEPT ![t] = new \o Tail(@)]
    BY <1>2, <1>5
  <2>2. <<"unset", d, m>> \in Jobs
    BY DEF Jobs
  <2>3. new \in Seq(Jobs) /\ \A i \in 1 .. Len(new) : new[i][1] = "unset"
    BY <2>2, Single
  <2> HIDE DEF new
  <2>4. Turn(t, 1, new) /\ todo[t][1] = <<"set", x, m>>
    BY <1>0, <2>1, <2>3, TurnHead
  <2>5. PipesInv' /\ WaitsInv'
    BY <1>3, <2>3, <2>4
  <2>6. MarksInv'
    BY <1>0, <1>1, <1>5, <2>4, MarksNotSet DEF new
  <2>7. StreamTypes'
    BY <1>0, <1>5, <2>4 DEF StreamTypes, Turn
  <2> QED
    BY <2>5, <2>6, <2>7 DEF IInv
<1> QED
  BY <1>4, <1>5

\* stream_send_rst sets the timer of the reset, or closes the stream at once.
LEMMA RstKeeps ==
  ASSUME IInv, NEW t \in Threads, ~Idle(t), NEW m \in Nat, Head(todo[t]) = <<"rst", m>>,
         \/ armed' = [armed EXCEPT !["rst_timer"] = m] /\ Done(t)
         \/ todo' = [todo EXCEPT ![t] = <<<<"remote_close">>>> \o Tail(@)] /\ UNCHANGED armed,
         UNCHANGED <<s, freed, shut, owed, stolen>>
  PROVE  IInv'
<1>0. StreamTypes /\ Head(todo[t])[1] \notin Telling
  BY DEF IInv, Telling
<1>1. CASE armed' = [armed EXCEPT !["rst_timer"] = m] /\ Done(t)
  <2>1. armed' \in [Timers -> Nat] /\ \A d \in Dirs : armed'[TimerOf(d)] \in {0, armed[TimerOf(d)]}
    BY <1>0, <1>1, TimersRight DEF StreamTypes
  <2> QED
    BY <1>0, <1>1, <2>1, DoneKeeps
<1>2. CASE todo' = [todo EXCEPT ![t] = <<<<"remote_close">>>> \o Tail(@)] /\ UNCHANGED armed
  <2> DEFINE new == <<<<"remote_close">>>>
  <2>1. <<"remote_close">> \in Jobs
    BY DEF Jobs
  <2>2. new \in Seq(Jobs) /\ \A i \in 1 .. Len(new) : new[i][1] = "remote_close"
    BY <2>1, Single
  <2>3. todo' = [todo EXCEPT ![t] = new \o Tail(@)]
    BY <1>2
  <2> HIDE DEF new
  <2>4. Turn(t, 1, new) /\ todo[t][1][1] \notin Telling
    BY <1>0, <2>2, <2>3, TurnHead
  <2>5. \A i \in 1 .. Len(new) : new[i][1] \notin Telling \cup {"times_up", "set", "unset"}
    BY <2>2 DEF Telling
  <2>6. armed' \in [Timers -> Nat] /\ \A d \in Dirs : armed'[TimerOf(d)] \in {0, armed[TimerOf(d)]}
    BY <1>0, <1>2 DEF StreamTypes
  <2> QED
    BY <2>4, <2>5, <2>6, SameStream
<1> QED
  BY <1>1, <1>2

\* A pipe that was taken out of the stream is freed, or all that it still has.
LEMMA FreeKeeps ==
  ASSUME IInv, NEW t \in Threads, ~Idle(t), NEW ps \in SUBSET Pipes,
         \/ ps = s.held /\ Head(todo[t]) = CloseFunc
         \/ \E q \in Pipes : ps = {q} /\ Head(todo[t]) = Free(q),
         FreePipes(ps), Done(t)
  PROVE  IInv'
<1>0. StreamTypes /\ PipesInv /\ MarksInv /\ WaitsInv /\ s' = s /\ s \in Streams
  BY DEF IInv, StreamTypes, FreePipes
<1>1. Turn(t, 1, <<>>) /\ Head(todo[t]) = todo[t][1]
  BY <1>0, DoneTurn
<1>2. /\ freed' = [p \in Pipes |-> IF p \in ps THEN freed[p] + 1 ELSE freed[p]]
      /\ shut' = shut \cup ps /\ UNCHANGED <<s, stolen>>
      /\ owed' = IF "control" \in ps THEN [d \in {"recv", "send"} |-> "no"] ELSE owed
      /\ armed' = [x \in Timers |-> IF x \in ps THEN 0 ELSE armed[x]]
  BY DEF FreePipes
<1>3. StreamTypes'
  <2>1. freed' \in [Pipes -> Nat]
    BY <1>0, <1>2 DEF StreamTypes
  <2>2. owed' \in [Dirs -> {"no", "timed", "endless"}]
    BY <1>0, <1>2 DEF StreamTypes, Dirs
  <2>3. armed' \in [Timers -> Nat]
    BY <1>0, <1>2 DEF StreamTypes
  <2>4. shut' \subseteq Pipes
    BY <1>0, <1>2 DEF StreamTypes
  <2> QED
    BY <1>0, <1>1, <2>1, <2>2, <2>3, <2>4 DEF StreamTypes, Turn
<1>4. PipesInv'
  <2>1. CASE ps = s.held /\ Head(todo[t]) = CloseFunc
    BY <1>0, <1>1, <1>2, <2>1, PipesFreeAll
  <2>2. CASE \E q \in Pipes : ps = {q} /\ Head(todo[t]) = Free(q)
    BY <1>0, <1>1, <1>2, <2>2, PipesFree
  <2> QED
    BY <2>1, <2>2
<1>5. MarksInv'
  <2>1. \A d \in Dirs : armed'[TimerOf(d)] \in {0, armed[TimerOf(d)]}
    BY <1>2, TimersRight
  <2>2. s' \in Streams /\ \A d \in Dirs : s'.mark[TimerOf(d)] >= s.mark[TimerOf(d)]
    BY <1>0, TimersRight DEF Streams
  <2> QED
    BY <1>0, <1>1, <2>1, <2>2, NoJobs, MarksMove
<1>6. WaitsInv'
  BY <1>0, <1>1, <1>2, WaitsFree
<1> QED
  BY <1>3, <1>4, <1>5, <1>6 DEF IInv

\* What a thread does next keeps the invariant.
LEMMA StepKeeps ==
  ASSUME IInv, NEW t \in Threads, Step(t)
  PROVE  IInv'
<1> DEFINE op == Head(todo[t])
<1>0. StreamTypes /\ ~Idle(t) /\ s.held \in SUBSET Pipes
  BY DEF IInv, StreamTypes, Streams, Step
<1>1. op \in Jobs
  <2>1. todo[t] \in Seq(Jobs) /\ todo[t] # <<>>
    BY <1>0 DEF StreamTypes, Idle
  <2> QED
    BY <2>1
<1>2. CASE op[1] = "add" /\ Section(t, AddPacket(op[2]))
  <2>1. op[2] \in Nat /\ op = <<"add", op[2]>>
    BY <1>1, <1>2 DEF Jobs
  <2> QED
    BY <1>0, <1>2, <2>1, AddKeeps
<1>3. CASE op[1] = "recv" /\ Section(t, RecvRound(op[2]))
  <2>1. op[2] \in Nat /\ op = <<"recv", op[2]>>
    BY <1>1, <1>3 DEF Jobs
  <2> QED
    BY <1>0, <1>3, <2>1, RecvKeeps
<1>4. CASE op[1] = "remote_close" /\ Section(t, RemoteClose)
  <2>1. op = <<"remote_close">>
    BY <1>1, <1>4 DEF Jobs
  <2> QED
    BY <1>0, <1>4, <2>1, RemoteKeeps
<1>5. CASE op[1] = "local_close" /\ Section(t, LocalClose)
  <2>1. op = <<"local_close">>
    BY <1>1, <1>5 DEF Jobs
  <2> QED
    BY <1>0, <1>5, <2>1, LocalKeeps
<1>6. CASE op[1] = "times_up" /\ Section(t, TimesUp(op[2], op[3]))
  <2>1. op[2] \in Timers /\ op[3] \in Nat /\ op = <<"times_up", op[2], op[3]>>
    BY <1>1, <1>6 DEF Jobs
  <2> QED
    BY <1>0, <1>6, <2>1, TimesUpKeeps
<1>7. CASE op[1] = "unset" /\ Unset(op[2], op[3]) /\ Done(t) /\ UNCHANGED <<freed, shut, armed>>
  <2>1. op[2] \in Dirs /\ op[3] \in Nat /\ op = <<"unset", op[2], op[3]>>
    BY <1>1, <1>7 DEF Jobs
  <2> QED
    BY <1>0, <1>7, <2>1, UnsetKeeps
<1>8. CASE /\ op[1] = "event"
           /\ owed' = IF "control" \in shut THEN owed ELSE [owed EXCEPT ![op[2]] = "no"]
           /\ Done(t)
           /\ UNCHANGED <<s, freed, shut, armed, stolen>>
  <2>1. op[2] \in Dirs /\ op = <<"event", op[2]>>
    BY <1>1, <1>8 DEF Jobs
  <2> QED
    BY <1>0, <1>8, <2>1, EventKeeps
<1>9. CASE /\ op[1] = "set"
           /\ \/ op[2] \notin shut /\ armed' = [armed EXCEPT ![op[2]] = op[3]] /\ Done(t)
              \/ /\ todo' = [todo EXCEPT ![t] =
                      <<<<"unset", IF op[2] = "recv_timer" THEN "recv" ELSE "send", op[3]>>>> \o Tail(@)]
                 /\ UNCHANGED armed
           /\ UNCHANGED <<s, freed, shut, owed, stolen>>
  <2>1. op[2] \in {"recv_timer", "send_timer"} /\ op[3] \in Nat /\ op = <<"set", op[2], op[3]>>
    BY <1>1, <1>9 DEF Jobs
  <2> QED
    BY <1>0, <1>9, <2>1, SetKeeps
<1>10. CASE /\ op[1] = "rst"
            /\ \/ /\ "rst_timer" \notin shut /\ armed' = [armed EXCEPT !["rst_timer"] = op[2]]
                  /\ Done(t)
               \/ todo' = [todo EXCEPT ![t] = <<<<"remote_close">>>> \o Tail(@)] /\ UNCHANGED armed
            /\ UNCHANGED <<s, freed, shut, owed, stolen>>
  <2>1. op[2] \in Nat /\ op = <<"rst", op[2]>>
    BY <1>1, <1>10 DEF Jobs
  <2> QED
    BY <1>0, <1>10, <2>1, RstKeeps
<1>11. CASE /\ op[1] = "stop" /\ armed' = [armed EXCEPT ![op[2]] = 0] /\ Done(t)
            /\ UNCHANGED <<s, freed, shut, owed, stolen>>
  <2>1. op[1] \notin Telling /\ op[2] \in Timers
    BY <1>1, <1>11 DEF Jobs, Telling
  <2>2. armed' \in [Timers -> Nat] /\ \A d \in Dirs : armed'[TimerOf(d)] \in {0, armed[TimerOf(d)]}
    BY <1>0, <1>11, <2>1, TimersRight DEF StreamTypes
  <2> QED
    BY <1>0, <1>11, <2>1, <2>2, DoneKeeps
<1>12. CASE op[1] = "free" /\ FreePipes({op[2]}) /\ Done(t)
  <2>1. op[2] \in Pipes /\ op = Free(op[2])
    BY <1>1, <1>12 DEF Jobs, Free
  <2>2. {op[2]} \in SUBSET Pipes
    BY <2>1
  <2> QED
    BY <1>0, <1>12, <2>1, <2>2, FreeKeeps
<1>13. CASE op[1] = "close_func" /\ FreePipes(s.held) /\ Done(t)
  <2>1. op = CloseFunc
    BY <1>1, <1>13 DEF Jobs, CloseFunc
  <2> QED
    BY <1>0, <1>13, <2>1, FreeKeeps
<1> QED
  BY <1>2, <1>3, <1>4, <1>5, <1>6, <1>7, <1>8, <1>9, <1>10, <1>11, <1>12, <1>13 DEF Step

\* The first state has the invariant.
LEMMA InitRight == Init => IInv
<1> SUFFICES ASSUME Init PROVE IInv
  OBVIOUS
<1>1. /\ s.status \in Opening /\ s.flags = {} /\ s.recv_hub = <<>> /\ s.mark = [x \in Timers |-> 0]
      /\ s.pipe = [p \in Pipes |-> "ACTIVE"] /\ s.held = Pipes
  BY DEF Init
<1>2. \A t \in Threads : todo[t] = <<>> /\ Len(todo[t]) = 0
  BY DEF Init
<1>3. \A x : None(x)
  BY <1>2 DEF None
<1>4. StreamTypes
  <2>1. s \in Streams
    <3>1. [x \in Timers |-> 0] \in [Timers -> Nat] /\ <<>> \in Seq(Nat) /\ {} \in SUBSET Dirs
          /\ [p \in Pipes |-> "ACTIVE"] \in [Pipes -> {"ACTIVE", "STOP", "DEL"}] /\ Pipes \in SUBSET Pipes
      OBVIOUS
    <3>2. Opening \subseteq Statuses
      BY DEF Statuses
    <3> QED
      BY <3>1, <3>2 DEF Init, Streams
  <2>2. todo \in [Threads -> Seq(Jobs)]
    BY DEF Init
  <2> QED
    BY <2>1, <2>2 DEF Init, StreamTypes, Dirs
<1>5. PipesInv
  <2>1. s.status # "CLOSED" /\ "pushed" \in Pipes /\ \A p \in Pipes : freed[p] = 0
    BY <1>1 DEF Opening, Pipes, Init
  <2> QED
    BY <1>1, <1>3, <2>1 DEF PipesInv
<1>6. MarksInv
  <2>1. OnlyUser
    BY <1>2 DEF OnlyUser
  <2>2. \A d \in Dirs, m \in Nat : ~Fired(d, m) /\ ~Setting(d, m)
    BY <1>3 DEF Fired, Setting
  <2>3. \A d \in Dirs : s.mark[TimerOf(d)] = 0 /\ armed[TimerOf(d)] = 0
    BY <1>1, TimersRight DEF Init
  <2> QED
    BY <2>1, <2>2, <2>3 DEF MarksInv
<1>7. WaitsInv
  <2>1. s.status # "RST_RECV" /\ "control" \in Pipes
    BY <1>1 DEF Opening, Pipes
  <2> QED
    BY <1>1, <1>3, <2>1 DEF WaitsInv, Init, Dirs
<1> QED
  BY <1>4, <1>5, <1>6, <1>7 DEF IInv

\* Timers that leave the tree of the timer service keep it: no mark is new.
LEMMA DropKeeps ==
  ASSUME IInv, TreeDropped
  PROVE  IInv'
<1>1. PICK ts \in SUBSET {t \in Timers : armed[t] # 0} :
        /\ armed' = [t \in Timers |-> IF t \in ts THEN 0 ELSE armed[t]]
        /\ UNCHANGED <<s, freed, shut, owed, stolen, todo>>
  BY DEF TreeDropped
<1>2. /\ armed' \in [Timers -> Nat]
      /\ \A d \in Dirs : TimerOf(d) \in Timers /\ armed'[TimerOf(d)] \in {0, armed[TimerOf(d)]}
  BY <1>1 DEF IInv, StreamTypes, Dirs, TimerOf, Timers
<1>3. StreamTypes' /\ PipesInv' /\ WaitsInv'
  BY <1>1, <1>2 DEF IInv, StreamTypes, PipesInv, WaitsInv, OnlyUser, One, None
<1>4. MarksInv'
  <2>1. \A d \in Dirs, m \in Nat : armed'[TimerOf(d)] = m => armed[TimerOf(d)] = m \/ m = 0
    BY <1>2
  <2>2. \A d \in Dirs : s.mark[TimerOf(d)] \in Nat
    BY <1>2 DEF IInv, StreamTypes, Streams
  <2>3. /\ OnlyUser'
        /\ \A d \in Dirs, m \in Nat : (Fired(d, m)' <=> Fired(d, m)) /\ (Setting(d, m)' <=> Setting(d, m))
        /\ None(Event("recv"))' <=> None(Event("recv"))
    BY <1>1 DEF IInv, MarksInv, OnlyUser, Fired, Setting, None
  <2>4. \A d \in Dirs, m \in Nat :
          (Fired(d, m) \/ armed[TimerOf(d)] = m)' => m <= s'.mark[TimerOf(d)]
    BY <1>1, <2>1, <2>2, <2>3 DEF IInv, MarksInv
  <2>5. ASSUME NEW d \in Dirs, NEW m \in Nat, Setting(d, m)'
        PROVE  /\ 0 < m /\ m <= s'.mark[TimerOf(d)]
               /\ \A n \in Nat : (Fired(d, n) \/ armed[TimerOf(d)] = n)' => n < m
               /\ d = "recv" /\ m = s'.mark["recv_timer"] => None(Event("recv"))'
    BY <1>1, <2>1, <2>3, <2>5 DEF IInv, MarksInv
  <2> QED
    BY <2>3, <2>4, <2>5 DEF MarksInv
<1> QED
  BY <1>3, <1>4 DEF IInv

\* Every step keeps the invariant.
LEMMA NextKeeps == IInv /\ [Next]_vars => IInv'
<1> SUFFICES ASSUME IInv, [Next]_vars PROVE IInv'
  OBVIOUS
<1>1. CASE \E timed \in BOOLEAN : user_set_can_recv(timed) \/ user_set_can_send(timed)
  BY <1>1, WaitKeeps
<1>2. CASE PacketComes \/ StreamRecv \/ PeerResets
  BY <1>2, CallsKeep
<1>3. CASE \E t \in {"user", "net"}, p \in Pipes : PipeClose(t, p)
  BY <1>3, PipeCloseKeeps
<1>4. CASE \E t \in Threads : Step(t)
  BY <1>4, StepKeeps
<1>5. CASE \E t \in Timers : Fire(t)
  BY <1>5, FireKeeps
<1>6. CASE UNCHANGED vars
  <2>1. UNCHANGED s /\ UNCHANGED freed /\ UNCHANGED shut /\ UNCHANGED armed /\ UNCHANGED lost
    BY <1>6 DEF vars
  <2>2. UNCHANGED owed /\ UNCHANGED stolen /\ UNCHANGED todo /\ UNCHANGED waits /\ UNCHANGED packets
    BY <1>6 DEF vars
  <2>3. StreamTypes'
    BY <2>1, <2>2 DEF IInv, StreamTypes
  <2>4. PipesInv'
    BY <2>1, <2>2 DEF IInv, PipesInv, One, None
  <2>5. MarksInv'
    <3>1. OnlyUser' /\ (None(Event("recv"))' <=> None(Event("recv")))
      BY <2>2 DEF IInv, MarksInv, OnlyUser, None
    <3>2. \A d \in Dirs, m \in Nat : (Fired(d, m)' <=> Fired(d, m)) /\ (Setting(d, m)' <=> Setting(d, m))
      BY <2>2 DEF Fired, Setting, None
    <3> QED
      BY <2>1, <3>1, <3>2 DEF IInv, MarksInv
  <2>6. WaitsInv'
    BY <2>1, <2>2 DEF IInv, WaitsInv, One, None
  <2> QED
    BY <2>3, <2>4, <2>5, <2>6 DEF IInv
<1>7. CASE TreeDropped
  BY <1>7, DropKeeps
<1> QED
  BY <1>1, <1>2, <1>3, <1>4, <1>5, <1>6, <1>7 DEF Next

-----------------------------------------------------------------------------
(* The theorems *)

\* The inductive invariant holds in every behaviour of a stream, whichever of
\* its pipes may be closed and however many waits and packets there are.
THEOREM Inductive == Spec => []IInv
BY InitRight, NextKeeps, PTL DEF Spec

\* PipesFreedOnce: no pipe is freed twice, and when a closed stream is left by
\* all threads, each of its pipes has been freed.
THEOREM PipesCorrect == Spec => []PipesFreedOnce
<1>1. IInv => PipesFreedOnce
  <2> SUFFICES ASSUME IInv, NEW p \in Pipes
               PROVE  /\ freed[p] <= 1
                      /\ s.status = "CLOSED" /\ (\A t \in Threads : Idle(t)) => freed[p] = 1
    BY DEF PipesFreedOnce
  <2>1. freed[p] \in {0, 1}
    BY DEF IInv, PipesInv
  <2>2. ASSUME s.status = "CLOSED", \A t \in Threads : Idle(t) PROVE freed[p] = 1
    <3>1. \A t \in Threads : Len(todo[t]) = 0
      BY <2>2 DEF Idle
    <3>2. \A x : None(x)
      BY <3>1 DEF None
    <3> QED
      BY <2>2, <3>2, OneIsSome DEF IInv, PipesInv
  <2> QED
    BY <2>1, <2>2
<1> QED
  BY <1>1, Inductive, PTL

\* WaitsKept: a wait is never forgotten, unless the send side has taken it; a wait
\* for data gets no event of another one; a reset stream has something to read.
THEOREM WaitsCorrect == Spec => []WaitsKept
<1>1. IInv => WaitsKept
  <2> SUFFICES ASSUME IInv PROVE WaitsKept
    OBVIOUS
  <2>1. \A x : Ahead(x) <=> ~None(x)
    <3>1. \A t \in Threads : \A x : x \in ToSet(todo[t]) <=> \E i \in 1 .. Len(todo[t]) : todo[t][i] = x
      BY DEF IInv, StreamTypes, ToSet
    <3> QED
      BY <3>1 DEF Ahead, None
  <2>2. WaitsInv
    BY DEF IInv
  <2> QED
    BY <2>1, <2>2 DEF WaitsKept, WaitsInv, ControlEnds, CloseFunc, Dirs
<1> QED
  BY <1>1, Inductive, PTL
=============================================================================
