-------------------------- MODULE SocketPoolProofs --------------------------
(***************************************************************************)
(* The socket pool keeps EventsAlive and FdsOwned for any orders,          *)
(* connections and descriptors and any finite number of client threads.    *)
(*                                                                         *)
(* The invariant says who knows of a socket.  The useing word counts the   *)
(* threads inside (UsersCounted), which keep it from being closed; what    *)
(* epoll, the batch and the handler of listen_task know of is not released *)
(* (EventsRight, HandlerRight), because _socket_close leaves it to         *)
(* listen_task, which frees nothing while it has events (ClosingRight);    *)
(* a socket whose fd_cat is about to become one that epoll may know is     *)
(* known to one thread only (AddersRight), so that no other comes to       *)
(* change it; and a descriptor passes from one owner to the next           *)
(* (FdsRight).                                                             *)
(***************************************************************************)
EXTENDS SocketPool, FiniteSetTheorems, NaturalsInduction, WellFoundedInduction, TLAPS

-----------------------------------------------------------------------------
(* The inductive invariant *)

\* Where listen_task has no socket.
Resting == {"wait", "next", "free"}

ListenPcs == Resting \cup {"in", "accept", "new", "ready", "out", "getsockopt", "connected",
                           "ordered", "hup"}

ClientPcs == {"idle", "socket", "connect", "bind", "set_error", "addr_error", "add", "unadd",
              "leave", "new", "ready", "start", "listener"}

\* Where a thread has a descriptor, and where it is going to register a socket.
FdPcs == {"connect", "bind", "set_error", "unadd", "new"}

AdderPcs == {"socket", "connect", "bind", "listener", "add"}

\* fd_cat of what epoll may know.
EventCats == {"JOIN_SOCKET", "CONNECT_SOCKET", "LISTEN_SOCKET"}

\* The threads between useing_ref_inc and useing_ref_dec of s.
Inside(t) ==
  \/ pc[t] \in {"start", "listener", "add", "leave", "unadd", "accept", "getsockopt", "connected"}
  \/ t = listen_task /\ pc[t] \in {"new", "ready"}

UsersOf(s) == {t \in Threads : Inside(t) /\ tgt[t] = s}

\* TypeOK, with an integer for the count of users, and the other variables.
SocketTypes ==
  /\ status \in [Sockets -> [st : {0, STATUS_CLOSED}, n : Int]]
  /\ fd_cat \in [Sockets -> Cats \cup {"none"}]
  /\ socket_fd \in [Sockets -> Fds \cup {NULL}]
  /\ listener \subseteq Conns /\ piped \subseteq Sockets /\ epoll \subseteq Sockets
  /\ lost \subseteq open /\ open \subseteq Fds
  /\ closer \in [Sockets -> Threads \cup {NULL}]
  /\ cstep \in [Sockets -> {"no", "fd", "pipe", "ref", "done"}]
  /\ dels \subseteq Sockets /\ frees \subseteq Sockets
  /\ released \in [Sockets -> {0, 1}]
  /\ pc \in [Threads -> ListenPcs \cup ClientPcs]
  /\ tgt \in [Threads -> Sockets \cup {NULL}]
  /\ fd \in [Threads -> Fds \cup {NULL}]
  /\ made \in [Threads -> Conns \cup {NULL}]
  /\ batch \subseteq [s : Sockets, bits : SUBSET {"in", "out", "hup"}]
  /\ events \subseteq {"in", "out", "hup"}

\* Where thread t may be, and with which socket.
TargetOk(t) ==
  /\ IF t = listen_task THEN pc[t] \in ListenPcs ELSE pc[t] \in ClientPcs
  /\ IF pc[t] \in Resting \cup {"idle"} THEN tgt[t] = NULL ELSE tgt[t] \in Sockets /\ Exists(tgt[t])
  /\ pc[t] \in {"socket", "connect", "bind", "set_error", "unadd"} => tgt[t] \in Orders
  /\ pc[t] \in {"start", "listener"} => tgt[t] \in Conns
  /\ pc[t] = "ready" => made[t] \in Conns /\ Exists(made[t])

\* An order is never a connection.
CatsRight ==
  /\ \A s \in Orders : fd_cat[s] \in {"none", "NO_SOCKET", "CONNECT_SOCKET", "LISTEN_SOCKET"}
  /\ \A s \in Conns : fd_cat[s] \in {"none", "UNJOIN_SOCKET", "JOIN_SOCKET"}

TargetsRight == CatsRight /\ \A t \in Threads : TargetOk(t)

\* The useing words count the threads inside.
UsersCounted == \A s \in Sockets : status[s].n = Cardinality(UsersOf(s))

\* _socket_close runs once, when the useing word allows it, and the socket is
\* released once, after it.
ClosingRight ==
  /\ \A s \in Sockets :
       /\ cstep[s] # "no" <=> STATUS_LEGAL_CLOSED(status[s])
       /\ closer[s] # NULL <=> cstep[s] \in {"fd", "pipe", "ref"}
       /\ fd_cat[s] = "none" => ~IsClosed(status[s])
       /\ s \in dels \cup frees => cstep[s] = "done" /\ released[s] = 0
       /\ released[s] = 1 => cstep[s] = "done"
  /\ dels \cap frees = {}
  /\ pc[listen_task] # "free" => frees = {}
  /\ pc[listen_task] \in {"wait", "free"} => batch = {}

\* The listener that listen_task would call is known.
Known(s) == fd_cat[s] = "JOIN_SOCKET" => s \in piped \cup listener

\* What epoll and listen_task may know of sockets.
EventsRight ==
  /\ \A s \in epoll : fd_cat[s] \in EventCats /\ cstep[s] \in {"no", "fd"} /\ Known(s)
  /\ \A e \in batch :
       fd_cat[e.s] \in EventCats /\ released[e.s] = 0 /\ Known(e.s) /\ e.s # tgt[listen_task]
  /\ \A e, f \in batch : e.s = f.s => e = f

\* What it knows of the one it is working on.  An order that has been connected
\* is an order like others from then on, but has no more bits to look at.
HandlerRight ==
  LET s == tgt[listen_task] IN
  pc[listen_task] \notin Resting =>
    /\ \/ fd_cat[s] \in EventCats /\ released[s] = 0
       \/ /\ fd_cat[s] = "NO_SOCKET" /\ "hup" \notin events
          /\ pc[listen_task] \in {"new", "ready", "connected", "ordered", "hup"}
    /\ Known(s)
    /\ pc[listen_task] = "getsockopt" => fd_cat[s] = "CONNECT_SOCKET"
    /\ pc[listen_task] = "accept" => fd_cat[s] = "LISTEN_SOCKET"
    /\ pc[listen_task] \in {"new", "ready"} => fd_cat[s] \in {"NO_SOCKET", "LISTEN_SOCKET"}

\* A socket that t is going to register is not known as registered yet.
AdderOk(t) ==
  pc[t] \in AdderPcs =>
    /\ tgt[t] \notin epoll /\ tgt[t] # tgt[listen_task]
    /\ \A e \in batch : e.s # tgt[t]
    /\ pc[t] \in {"socket", "connect", "bind"} => fd_cat[tgt[t]] = "NO_SOCKET"
    /\ pc[t] = "listener" => fd_cat[tgt[t]] = "JOIN_SOCKET"
    /\ pc[t] = "add" => fd_cat[tgt[t]] \in EventCats /\ Known(tgt[t])

\* One thread does it.
AddersRight ==
  /\ \A t \in Threads : AdderOk(t)
  /\ \A t, u \in Threads :
       pc[t] \in AdderPcs /\ pc[u] \in AdderPcs /\ tgt[t] = tgt[u] => t = u

\* Every open descriptor that is not lost has an owner and only one.
FdsRight ==
  /\ \A t \in Threads : fd[t] # NULL <=> pc[t] \in FdPcs
  /\ \A s \in Sockets : HasFd(s) => socket_fd[s] \in open \ lost
  /\ \A t \in Threads : fd[t] # NULL => fd[t] \in open \ lost
  /\ \A r, s \in Sockets : HasFd(r) /\ HasFd(s) /\ socket_fd[r] = socket_fd[s] => r = s
  /\ \A t, u \in Threads : fd[t] # NULL /\ fd[t] = fd[u] => t = u
  /\ \A s \in Sockets, t \in Threads : HasFd(s) => socket_fd[s] # fd[t]
  /\ \A f \in open \ lost :
       \/ \E s \in Sockets : HasFd(s) /\ socket_fd[s] = f
       \/ \E t \in Threads : fd[t] = f

IInv ==
  /\ SocketTypes /\ TargetsRight /\ UsersCounted /\ ClosingRight
  /\ EventsRight /\ HandlerRight /\ AddersRight /\ FdsRight

-----------------------------------------------------------------------------
(* Counting *)

One(b) == IF b THEN 1 ELSE 0

\* Two sets that differ in one element at most.
LEMMA SetChange ==
  ASSUME NEW S, NEW T, IsFiniteSet(S), IsFiniteSet(T), NEW t,
         \A u : u # t => (u \in S <=> u \in T)
  PROVE  Cardinality(T) = Cardinality(S) + One(t \in T) - One(t \in S)
<1>1. Cardinality(S) \in Nat /\ Cardinality(T) \in Nat
  BY FS_CardinalityType
<1>2. CASE t \in S <=> t \in T
  <2>1. S = T
    BY <1>2
  <2> QED
    BY <1>1, <1>2, <2>1 DEF One
<1>3. CASE t \in T /\ t \notin S
  <2>1. T = S \cup {t}
    BY <1>3
  <2> QED
    BY <1>1, <1>3, <2>1, FS_AddElement DEF One
<1>4. CASE t \in S /\ t \notin T
  <2>1. S = T \cup {t}
    BY <1>4
  <2> QED
    BY <1>1, <1>4, <2>1, FS_AddElement DEF One
<1> QED
  BY <1>2, <1>3, <1>4

\* There are finitely many threads, and not more users than threads.
LEMMA ThreadsFinite ==
  /\ IsFiniteSet(Threads)
  /\ \A s : IsFiniteSet(UsersOf(s)) /\ Cardinality(UsersOf(s)) \in 0 .. Cardinality(Threads)
<1>1. IsFiniteSet(Threads)
  BY SocketAssumption, FS_AddElement DEF Threads
<1>2. \A s : UsersOf(s) \subseteq Threads
  BY DEF UsersOf
<1>3. \A s : IsFiniteSet(UsersOf(s)) /\ Cardinality(UsersOf(s)) <= Cardinality(Threads)
  BY <1>1, <1>2, FS_Subset
<1> QED
  BY <1>1, <1>3, FS_CardinalityType

\* How the users of sockets change when thread t alone moves.
Moved(t) ==
  \A s \in Sockets :
    Cardinality(UsersOf(s)') =
      Cardinality(UsersOf(s)) + One(t \in UsersOf(s)') - One(t \in UsersOf(s))

\* When one thread moves, nobody else begins or ceases to use a socket.
LEMMA OneMoves ==
  ASSUME NEW t \in Threads, \A u \in Threads \ {t} : pc'[u] = pc[u] /\ tgt'[u] = tgt[u]
  PROVE  Moved(t)
<1>1. \A s, u : u # t => (u \in UsersOf(s) <=> u \in UsersOf(s)')
  BY DEF UsersOf, Inside
<1>2. ThreadsFinite /\ ThreadsFinite'
  BY ThreadsFinite, PTL
<1> QED
  BY <1>1, <1>2, SetChange DEF Moved

\* Who uses a socket keeps it from being closed and released.
LEMMA UserKeepsOpen ==
  ASSUME IInv, NEW s \in Sockets, NEW t \in UsersOf(s)
  PROVE  /\ status[s].n > 0 /\ ~STATUS_LEGAL_CLOSED(status[s])
         /\ cstep[s] = "no" /\ closer[s] = NULL /\ released[s] = 0 /\ s \notin dels \cup frees
<1>1. status[s].n > 0
  BY ThreadsFinite, FS_EmptySet DEF IInv, UsersCounted
<1>2. ~STATUS_LEGAL_CLOSED(status[s])
  BY <1>1 DEF STATUS_LEGAL_CLOSED, NoUser
<1> QED
  BY <1>1, <1>2 DEF IInv, ClosingRight, SocketTypes

-----------------------------------------------------------------------------
(* What a step leaves alone *)

\* The others stay where they are.
OnlyMoves(t) == \A u \in Threads \ {t} : pc'[u] = pc[u] /\ tgt'[u] = tgt[u] /\ made'[u] = made[u]

\* No socket ceases to exist.
LEMMA TargetsStep ==
  ASSUME TargetsRight, NEW t \in Threads, OnlyMoves(t), TargetOk(t)', CatsRight',
         \A s \in Sockets : Exists(s) => Exists(s)', Conns \subseteq Sockets
  PROVE  TargetsRight'
<1>1. ASSUME NEW u \in Threads \ {t} PROVE TargetOk(u)'
  <2>1. TargetOk(u) /\ pc'[u] = pc[u] /\ tgt'[u] = tgt[u] /\ made'[u] = made[u]
    BY DEF TargetsRight, OnlyMoves
  <2> QED
    BY <2>1 DEF TargetOk
<1> QED
  BY <1>1 DEF TargetsRight

\* The useing words count right if they are changed by the thread that moves.
LEMMA UsersStep ==
  ASSUME UsersCounted, NEW t \in Threads, OnlyMoves(t),
         \A s \in Sockets :
           status'[s].n = status[s].n + One(t \in UsersOf(s)') - One(t \in UsersOf(s))
  PROVE  UsersCounted'
<1>1. Moved(t)
  BY OneMoves DEF OnlyMoves
<1> QED
  BY <1>1 DEF Moved, UsersCounted

\* A step that closes nothing.
LEMMA SameClosing ==
  ASSUME ClosingRight, UNCHANGED <<status, closer, cstep, dels, released, frees, batch>>,
         \/ pc'[listen_task] = pc[listen_task]
         \/ pc[listen_task] \notin {"wait", "free"} /\ pc'[listen_task] \notin {"wait", "free"},
         \A s \in Sockets : Exists(s) => Exists(s)'
  PROVE  ClosingRight'
BY DEF ClosingRight, Exists

\* A step that registers nothing.
LEMMA SameEvents ==
  ASSUME EventsRight, UNCHANGED <<released, batch>>, tgt'[listen_task] = tgt[listen_task],
         \A s \in epoll : cstep[s] \in {"no", "fd"} => cstep'[s] \in {"no", "fd"},
         epoll' \subseteq epoll, \A s \in epoll : fd_cat'[s] = fd_cat[s],
         \A e \in batch : fd_cat'[e.s] = fd_cat[e.s],
         piped \subseteq piped', listener \subseteq listener'
  PROVE  EventsRight'
BY DEF EventsRight, Known

\* A step of a client that listen_task does not notice.
LEMMA SameHandler ==
  ASSUME HandlerRight, pc'[listen_task] = pc[listen_task], tgt'[listen_task] = tgt[listen_task],
         events' = events, released' = released,
         pc[listen_task] \notin Resting => fd_cat'[tgt[listen_task]] = fd_cat[tgt[listen_task]],
         piped \subseteq piped', listener \subseteq listener'
  PROVE  HandlerRight'
BY DEF HandlerRight, Known

\* A step in which nobody but perhaps t comes to be about to register a socket.
LEMMA AddersStep ==
  ASSUME AddersRight, TargetsRight, NEW t \in Threads, OnlyMoves(t), AdderOk(t)',
         pc'[t] \in AdderPcs => \A u \in Threads \ {t} : pc[u] \in AdderPcs => tgt[u] # tgt'[t],
         \A u \in Threads \ {t} : pc[u] \in AdderPcs =>
           /\ tgt[u] \notin epoll' /\ tgt[u] # tgt'[listen_task] /\ \A e \in batch' : e.s # tgt[u]
           /\ fd_cat'[tgt[u]] = fd_cat[tgt[u]],
         piped \subseteq piped', listener \subseteq listener'
  PROVE  AddersRight'
<1>1. ASSUME NEW u \in Threads \ {t} PROVE AdderOk(u)'
  <2>1. AdderOk(u) /\ pc'[u] = pc[u] /\ tgt'[u] = tgt[u]
    BY DEF AddersRight, OnlyMoves
  <2> QED
    BY <2>1 DEF AdderOk, Known
<1>2. \A u, v \in Threads \ {t} :
        pc'[u] \in AdderPcs /\ pc'[v] \in AdderPcs /\ tgt'[u] = tgt'[v] => u = v
  BY DEF AddersRight, OnlyMoves
<1>3. \A u \in Threads \ {t} : ~(pc'[u] \in AdderPcs /\ pc'[t] \in AdderPcs /\ tgt'[u] = tgt'[t])
  BY DEF OnlyMoves
<1> QED
  BY <1>1, <1>2, <1>3 DEF AddersRight

\* A step in which no descriptor is opened, closed or passed on.
LEMMA SameFds ==
  ASSUME FdsRight, UNCHANGED <<open, lost, fd, socket_fd>>,
         \A s \in Sockets : HasFd(s)' <=> HasFd(s),
         \A t \in Threads : pc'[t] \in FdPcs <=> pc[t] \in FdPcs
  PROVE  FdsRight'
BY DEF FdsRight

\* fd and the program counters change for t only.
FdMoves(t) ==
  /\ \A u \in Threads \ {t} : fd'[u] = fd[u] /\ (pc'[u] \in FdPcs <=> pc[u] \in FdPcs)
  /\ fd'[t] # NULL <=> pc'[t] \in FdPcs

\* t gives its descriptor up.
LEMMA FdDropped ==
  ASSUME FdsRight, NEW t \in Threads, FdMoves(t), fd[t] # NULL, fd'[t] = NULL,
         \A f : f \in open' \ lost' <=> f \in open \ lost /\ f # fd[t],
         socket_fd' = socket_fd, \A s \in Sockets : HasFd(s)' <=> HasFd(s), NULL \notin open
  PROVE  FdsRight'
BY DEF FdsRight, FdMoves

\* t opens a descriptor.
LEMMA FdOpened ==
  ASSUME FdsRight, NEW t \in Threads, FdMoves(t), fd[t] = NULL, fd'[t] # NULL,
         fd'[t] \notin open, open' = open \cup {fd'[t]}, lost' = lost, lost \subseteq open,
         socket_fd' = socket_fd, \A s \in Sockets : HasFd(s)' <=> HasFd(s), NULL \notin open
  PROVE  FdsRight'
<1>1. \A s \in Sockets : HasFd(s) => socket_fd[s] # fd'[t]
  BY DEF FdsRight
<1>2. \A u \in Threads : fd[u] # fd'[t]
  BY DEF FdsRight
<1>3. \A f : f \in open' \ lost' <=> f \in open \ lost \/ f = fd'[t]
  OBVIOUS
<1> QED
  BY <1>1, <1>2, <1>3 DEF FdsRight, FdMoves

\* t gives its descriptor to the socket r.
LEMMA FdGiven ==
  ASSUME FdsRight, NEW t \in Threads, FdMoves(t), fd[t] # NULL, fd'[t] = NULL,
         NEW r \in Sockets, ~HasFd(r), HasFd(r)', socket_fd'[r] = fd[t],
         \A s \in Sockets \ {r} : socket_fd'[s] = socket_fd[s] /\ (HasFd(s)' <=> HasFd(s)),
         UNCHANGED <<open, lost>>, NULL \notin open
  PROVE  FdsRight'
BY DEF FdsRight, FdMoves

\* t takes the descriptor of the socket r.
LEMMA FdTaken ==
  ASSUME FdsRight, NEW t \in Threads, FdMoves(t), fd[t] = NULL,
         NEW r \in Sockets, HasFd(r), ~HasFd(r)', fd'[t] = socket_fd[r], socket_fd' = socket_fd,
         \A s \in Sockets \ {r} : HasFd(s)' <=> HasFd(s),
         UNCHANGED <<open, lost>>, NULL \notin open
  PROVE  FdsRight'
BY DEF FdsRight, FdMoves

\* The descriptor of the socket r is closed.
LEMMA FdClosed ==
  ASSUME FdsRight, NEW r \in Sockets, HasFd(r), ~HasFd(r)', open' = open \ {socket_fd[r]},
         UNCHANGED <<socket_fd, fd, lost>>, lost \subseteq open,
         \A t \in Threads : pc'[t] \in FdPcs <=> pc[t] \in FdPcs,
         \A s \in Sockets \ {r} : HasFd(s)' <=> HasFd(s), NULL \notin open
  PROVE  FdsRight'
BY DEF FdsRight

\* The names of sockets, threads and descriptors are different.
LEMMA Basics ==
  /\ Orders \subseteq Sockets /\ Conns \subseteq Sockets /\ Orders \cap Conns = {}
  /\ Clients \subseteq Threads /\ listen_task \in Threads /\ listen_task \notin Clients
  /\ NULL \notin Sockets /\ NULL \notin Threads /\ NULL \notin Fds
  /\ Sockets \cap Threads = {}
  /\ \A s \in Sockets : s \in Orders \/ s \in Conns
BY SocketAssumption DEF Sockets, Threads

\* Where a thread is and which socket it has stay within their types.
LEMMA MovesTyped ==
  ASSUME SocketTypes, NEW t \in Threads,
         pc' = [pc EXCEPT ![t] = pc'[t]], tgt' = [tgt EXCEPT ![t] = tgt'[t]],
         pc'[t] \in ListenPcs \cup ClientPcs, tgt'[t] \in Sockets \cup {NULL}
  PROVE  pc' \in [Threads -> ListenPcs \cup ClientPcs] /\ tgt' \in [Threads -> Sockets \cup {NULL}]
<1>1. pc \in [Threads -> ListenPcs \cup ClientPcs] /\ tgt \in [Threads -> Sockets \cup {NULL}]
  BY DEF SocketTypes
<1> QED
  BY <1>1

\* listen_task has a socket while it handles an event.
LEMMA HandlerHas ==
  ASSUME TargetsRight
  PROVE  pc[listen_task] \notin Resting => tgt[listen_task] \in Sockets
BY Basics DEF TargetsRight, TargetOk, ListenPcs, Resting

\* The lowest free number is a free number.
LEMMA FreeFdFree == Fds \ open # {} => FreeFd \in Fds \ open
<1> SUFFICES ASSUME Fds \ open # {} PROVE FreeFd \in Fds \ open
  OBVIOUS
<1>1. \E f \in Fds \ open : \A g \in Fds \ open : ~(<<g, f>> \in OpToRel(<, Nat))
  BY SocketAssumption, NatLessThanWellFounded, WFMin
<1>2. ASSUME NEW f \in Nat, NEW g \in Nat, ~(<<g, f>> \in OpToRel(<, Nat)) PROVE f <= g
  BY <1>2 DEF OpToRel
<1>3. \E f \in Fds \ open : \A g \in Fds \ open : f <= g
  BY <1>1, <1>2, SocketAssumption
<1> QED
  BY <1>3 DEF FreeFd

-----------------------------------------------------------------------------
(* The useing word, and the calls of _socket_close *)

Words == [st : {0, STATUS_CLOSED}, n : Int]

\* What the operations of UseingStatus do to a word.
LEMMA WordOps ==
  ASSUME NEW w \in Words
  PROVE  /\ AddUser(w) \in Words /\ AddUser(w).n = w.n + 1 /\ AddUser(w).st = w.st
         /\ SubUser(w) \in Words /\ SubUser(w).n = w.n - 1 /\ SubUser(w).st = w.st
         /\ MarkClosed(w) \in Words /\ MarkClosed(w).n = w.n /\ MarkClosed(w).st = STATUS_CLOSED
         /\ w.n \in Int
BY DEF Words, AddUser, SubUser, MarkClosed

\* listen_task does not begin or end what happens after a batch.
SamePhase ==
  \/ pc'[listen_task] = pc[listen_task]
  \/ pc[listen_task] \notin {"wait", "free"} /\ pc'[listen_task] \notin {"wait", "free"}

\* A thread enters a socket that is not closed.
LEMMA IncCalls ==
  ASSUME IInv, NEW s \in Sockets, ~IsClosed(status[s]), useing_ref_inc(s),
         UNCHANGED <<closeVars, frees, batch>>, SamePhase, \A r \in Sockets : Exists(r) =>
            Exists(r)'
  PROVE  /\ status' \in [Sockets -> Words]
         /\ \A r \in Sockets : status'[r].n = (IF r = s THEN status[r].n + 1 ELSE status[r].n)
         /\ ClosingRight'
<1>1. status \in [Sockets -> Words]
  BY DEF IInv, SocketTypes, Words
<1>2. \A r \in Sockets : status'[r] = IF r = s THEN AddUser(status[r]) ELSE status[r]
  BY <1>1 DEF useing_ref_inc
<1>3. /\ status' \in [Sockets -> Words]
      /\ \A r \in Sockets : status'[r].n = (IF r = s THEN status[r].n + 1 ELSE status[r].n)
      /\ \A r \in Sockets : status'[r].st = status[r].st
  BY <1>1, <1>2, WordOps DEF useing_ref_inc
<1>4. \A r \in Sockets : STATUS_LEGAL_CLOSED(status'[r]) <=> STATUS_LEGAL_CLOSED(status[r])
  BY <1>2, <1>3 DEF STATUS_LEGAL_CLOSED, IsClosed
<1>5. \A r \in Sockets : IsClosed(status'[r]) <=> IsClosed(status[r])
  BY <1>3 DEF IsClosed
<1>6. UNCHANGED <<closer, cstep, dels, released, frees, batch>>
  BY DEF closeVars
<1> QED
  BY <1>3, <1>4, <1>5, <1>6 DEF IInv, ClosingRight, SamePhase, Exists

\* What a step that may call _socket_close does.
MayClose ==
  /\ closer' \in [Sockets -> Threads \cup {NULL}]
  /\ cstep' \in [Sockets -> {"no", "fd", "pipe", "ref", "done"}]
  /\ \A r \in Sockets : cstep'[r] \in {"no", "fd"} <=> cstep[r] \in {"no", "fd"}
  /\ UNCHANGED <<dels, released>>

\* A thread calls _socket_close or does not.
LEMMA CloseCalls ==
  ASSUME IInv, NEW t \in Threads, NEW s \in Sockets, NEW cond \in BOOLEAN, CallsClose(t, s, cond),
         cstep[s] = "no"
  PROVE  /\ MayClose
         /\ \A r \in Sockets : cstep'[r] = IF r = s /\ cond THEN "fd" ELSE cstep[r]
         /\ \A r \in Sockets : closer'[r] = IF r = s /\ cond THEN t ELSE closer[r]
BY DEF IInv, SocketTypes, CallsClose, MayClose

\* A thread leaves a socket.
LEMMA DecCalls ==
  ASSUME IInv, NEW t \in Threads, NEW s \in Sockets, t \in UsersOf(s), useing_ref_dec(t, s),
         UNCHANGED <<frees, batch>>, SamePhase, \A r \in Sockets : Exists(r) => Exists(r)'
  PROVE  /\ status' \in [Sockets -> Words]
         /\ \A r \in Sockets : status'[r].n = (IF r = s THEN status[r].n - 1 ELSE status[r].n)
         /\ ClosingRight' /\ MayClose
<1>1. status \in [Sockets -> Words]
  BY DEF IInv, SocketTypes, Words
<1>2. \A r \in Sockets : status'[r] = IF r = s THEN SubUser(status[r]) ELSE status[r]
  BY <1>1 DEF useing_ref_dec
<1>3. /\ status' \in [Sockets -> Words]
      /\ \A r \in Sockets : status'[r].n = (IF r = s THEN status[r].n - 1 ELSE status[r].n)
      /\ \A r \in Sockets : status'[r].st = status[r].st
  BY <1>1, <1>2, WordOps DEF useing_ref_dec
<1>4. cstep[s] = "no" /\ closer[s] = NULL /\ released[s] = 0 /\ s \notin dels \cup frees
  BY UserKeepsOpen
<1>5. PICK cond \in BOOLEAN : CallsClose(t, s, cond) /\ (cond <=> STATUS_LEGAL_CLOSED(status'[s]))
  <2>1. CallsClose(t, s, STATUS_LEGAL_CLOSED(status'[s]))
    BY <1>2 DEF useing_ref_dec
  <2>2. STATUS_LEGAL_CLOSED(status'[s]) \in BOOLEAN
    BY DEF STATUS_LEGAL_CLOSED, IsClosed, NoUser
  <2> QED
    BY <2>1, <2>2
<1>6. /\ MayClose
      /\ \A r \in Sockets : cstep'[r] = IF r = s /\ cond THEN "fd" ELSE cstep[r]
      /\ \A r \in Sockets : closer'[r] = IF r = s /\ cond THEN t ELSE closer[r]
  BY <1>4, <1>5, CloseCalls
<1>7. \A r \in Sockets : IsClosed(status'[r]) <=> IsClosed(status[r])
  BY <1>3 DEF IsClosed
<1>8. \A r \in Sockets \ {s} : status'[r] = status[r]
  BY <1>2
<1> QED
  BY <1>3, <1>4, <1>5, <1>6, <1>7, <1>8, Basics
  DEF IInv, ClosingRight, SamePhase, Exists, MayClose

\* A thread closes a socket, which may be closed already.
LEMMA SetCalls ==
  ASSUME IInv, NEW t \in Threads, NEW s \in Sockets, Exists(s), set_status_closed(t, s),
         UNCHANGED <<frees, batch>>, SamePhase, \A r \in Sockets : Exists(r) <=> Exists(r)'
  PROVE  /\ status' \in [Sockets -> Words]
         /\ \A r \in Sockets : status'[r].n = status[r].n
         /\ ClosingRight' /\ MayClose
<1>1. status \in [Sockets -> Words]
  BY DEF IInv, SocketTypes, Words
<1>2. CASE IsClosed(status[s])
  <2>1. UNCHANGED <<status, closer, cstep, dels, released>>
    BY <1>2 DEF set_status_closed, closeVars
  <2>2. ClosingRight'
    BY <2>1, SameClosing DEF SamePhase, IInv
  <2> QED
    BY <1>1, <2>1, <2>2 DEF MayClose, IInv, SocketTypes
<1>3. CASE ~IsClosed(status[s])
  <2>1. \A r \in Sockets : status'[r] = IF r = s THEN MarkClosed(status[r]) ELSE status[r]
    BY <1>1, <1>3 DEF set_status_closed
  <2>2. /\ status' \in [Sockets -> Words]
        /\ \A r \in Sockets : status'[r].n = status[r].n
        /\ \A r \in Sockets \ {s} : status'[r] = status[r]
        /\ status'[s].st = STATUS_CLOSED
    BY <1>1, <1>3, <2>1, WordOps DEF set_status_closed
  <2>3. cstep[s] = "no" /\ closer[s] = NULL /\ released[s] = 0 /\ s \notin dels \cup frees
    BY <1>3 DEF IInv, ClosingRight, STATUS_LEGAL_CLOSED, SocketTypes
  <2>4. PICK cond \in BOOLEAN : CallsClose(t, s, cond) /\ (cond <=> status[s].n = 0)
    BY <1>3 DEF set_status_closed, NoUser
  <2>5. /\ MayClose
        /\ \A r \in Sockets : cstep'[r] = IF r = s /\ cond THEN "fd" ELSE cstep[r]
        /\ \A r \in Sockets : closer'[r] = IF r = s /\ cond THEN t ELSE closer[r]
    BY <2>3, <2>4, CloseCalls
  <2>6. STATUS_LEGAL_CLOSED(status'[s]) <=> cond
    BY <2>2, <2>4 DEF STATUS_LEGAL_CLOSED, IsClosed, NoUser
  <2>7. ClosingRight'
    BY <2>2, <2>3, <2>5, <2>6, Basics DEF IInv, ClosingRight, SamePhase, Exists, MayClose
  <2> QED
    BY <2>2, <2>5, <2>7
<1> QED
  BY <1>2, <1>3

\* A thread closes a socket or leaves it as it is.
LEMMA ClosesOrNot ==
  ASSUME IInv, NEW t \in Threads, NEW s \in Sockets, Exists(s),
         set_status_closed(t, s) \/ UNCHANGED <<status, closeVars>>,
         UNCHANGED <<frees, batch>>, SamePhase, fd_cat' = fd_cat
  PROVE  /\ status' \in [Sockets -> Words]
         /\ \A r \in Sockets : status'[r].n = status[r].n
         /\ ClosingRight' /\ MayClose
<1>1. \A r \in Sockets : Exists(r) <=> Exists(r)'
  BY DEF Exists
<1>2. CASE set_status_closed(t, s)
  BY <1>1, <1>2, SetCalls
<1>3. CASE UNCHANGED <<status, closeVars>>
  <2>1. UNCHANGED <<status, closer, cstep, dels, released>>
    BY <1>3 DEF closeVars
  <2>2. ClosingRight'
    BY <1>1, <2>1, SameClosing DEF SamePhase, IInv
  <2> QED
    BY <2>1, <2>2 DEF MayClose, IInv, SocketTypes, Words
<1> QED
  BY <1>2, <1>3

\* The steps of listen_task that may close the socket and go on.
QuietStep ==
  /\ \/ pc[listen_task] = "in" /\ Takes(listen_task, "out", tgt[listen_task])
     \/ pc[listen_task] \in {"out", "ordered"} /\ Takes(listen_task, "hup", tgt[listen_task])
  /\ set_status_closed(listen_task, tgt[listen_task]) \/ UNCHANGED <<status, closeVars>>
  /\ UNCHANGED <<fd_cat, socket_fd, listener, piped, kernelVars, fd, made, taskVars>>

\* The steps in which it enters an order.
EnterStep ==
  /\ \/ /\ pc[listen_task] = "in" /\ fd_cat[tgt[listen_task]] = "LISTEN_SOCKET"
        /\ Takes(listen_task, "accept", tgt[listen_task])
     \/ /\ pc[listen_task] = "out" /\ fd_cat[tgt[listen_task]] = "CONNECT_SOCKET"
        /\ Takes(listen_task, "getsockopt", tgt[listen_task])
  /\ MayEnter(tgt[listen_task]) /\ useing_ref_inc(tgt[listen_task])
  /\ UNCHANGED <<fd_cat, socket_fd, listener, piped, kernelVars, closeVars, fd, made, taskVars>>

\* The steps in which it leaves one.
LeaveStep ==
  /\ \/ pc[listen_task] = "accept" /\ Takes(listen_task, "out", tgt[listen_task])
     \/ pc[listen_task] = "connected" /\ Takes(listen_task, "ordered", tgt[listen_task])
  /\ useing_ref_dec(listen_task, tgt[listen_task])
  /\ UNCHANGED <<fd_cat, socket_fd, listener, piped, kernelVars, fd, made, taskVars>>

-----------------------------------------------------------------------------
(* Every action keeps the invariant *)

\* A new order has no descriptor and is known to its caller only.
LEMMA BeginOrderKeeps ==
  ASSUME IInv, NEW t \in Clients, NEW s \in Sockets, BeginOrder(t, s)
  PROVE  IInv'
<1> USE Basics DEF IInv
<1>1. /\ pc[t] = "idle" /\ pc'[t] = "socket" /\ tgt'[t] = s /\ s \in Orders /\ fd_cat[s] = "none"
      /\ \A r \in Sockets : fd_cat'[r] = IF r = s THEN "NO_SOCKET" ELSE fd_cat[r]
      /\ UNCHANGED <<status, socket_fd, listener, piped, epoll, open, lost, closer, cstep, dels,
         released, fd, made, batch, events, frees>>
  BY DEF BeginOrder, At, Goto, Takes, SocketTypes, TargetsRight, TargetOk, ListenPcs, Resting,
      sockVars, kernelVars, closeVars, threadVars, taskVars, Exists
<1>2. pc' = [pc EXCEPT ![t] = pc'[t]] /\ tgt' = [tgt EXCEPT ![t] = tgt'[t]]
  BY DEF BeginOrder, At, Goto, Takes, SocketTypes
<1>3. OnlyMoves(t) /\ t # listen_task /\ pc'[listen_task] = pc[listen_task]
      /\ tgt'[listen_task] = tgt[listen_task]
  BY <1>1, <1>2 DEF OnlyMoves, SocketTypes, TargetsRight, TargetOk, ListenPcs, Resting
<1>4. pc' \in [Threads -> ListenPcs \cup ClientPcs] /\ tgt' \in [Threads -> Sockets \cup {NULL}]
  <2>1. pc'[t] \in ListenPcs \cup ClientPcs /\ tgt'[t] \in Sockets \cup {NULL}
    BY <1>1 DEF SocketTypes, TargetsRight, TargetOk, ListenPcs, ClientPcs, Resting
  <2> QED
    BY <1>2, <2>1, MovesTyped
<1>5. /\ fd_cat' \in [Sockets -> Cats \cup {"none"}]
  BY <1>1 DEF BeginOrder, At, Goto, Takes, SocketTypes, Cats
<1>6. /\ s \notin epoll /\ s # tgt[listen_task] /\ \A e \in batch : e.s # s
      /\ \A u \in Threads : tgt[u] # s
  BY <1>1 DEF EventsRight, TargetsRight, TargetOk, Exists, EventCats
<1>7. SocketTypes'
  BY <1>1, <1>4, <1>5 DEF SocketTypes
<1>8. TargetsRight'
  <2>1. TargetOk(t)'
    BY <1>1, <1>3 DEF TargetsRight, TargetOk, Exists, ListenPcs, ClientPcs, Resting
  <2>2. CatsRight'
    BY <1>1, <1>3 DEF TargetsRight, CatsRight
  <2> QED
    BY <1>1, <1>3, <2>1, <2>2, TargetsStep DEF Exists
<1>9. UsersCounted'
  <2>1. \A r \in Sockets : t \in UsersOf(r)' <=> t \in UsersOf(r)
    BY <1>1, <1>3 DEF UsersOf, Inside
  <2>2. \A r \in Sockets : status'[r].n = status[r].n /\ status[r].n \in Int
    BY <1>1, <1>3 DEF SocketTypes
  <2> QED
    BY <1>1, <1>3, <2>1, <2>2, UsersStep DEF One
<1>10. ClosingRight'
  BY <1>1, <1>3, SameClosing DEF Exists
<1>11. EventsRight'
  BY <1>1, <1>3, SameEvents, <1>6 DEF SocketTypes
<1>12. HandlerRight'
  BY <1>1, <1>3, SameHandler, <1>6, HandlerHas
<1>13. AddersRight'
  <2>1. AdderOk(t)'
    BY <1>1, <1>3, <1>6 DEF AddersRight, AdderOk, AdderPcs, Known
  <2> QED
    BY <1>1, <1>3, <2>1, AddersStep, <1>6
    DEF AddersRight, AdderOk, AdderPcs, TargetsRight, TargetOk, Resting
<1>14. FdsRight'
  <2>1. \A r \in Sockets : HasFd(r)' <=> HasFd(r)
    BY <1>1, <1>3 DEF HasFd
  <2> QED
    BY <1>1, <1>3, <2>1, SameFds DEF FdPcs, OnlyMoves
<1> QED
  BY <1>7, <1>8, <1>9, <1>10, <1>11, <1>12, <1>13, <1>14

\* The lowest free descriptor gets its only owner, the variable of the caller.
LEMMA NewFdKeeps ==
  ASSUME IInv, NEW t \in Threads, NewFd(t)
  PROVE  IInv'
<1> USE Basics DEF IInv
<1>1. /\ pc[t] = "socket" /\ pc'[t] \in {"connect", "bind"} /\ tgt'[t] = tgt[t]
      /\ pc' = [pc EXCEPT ![t] = pc'[t]]
      /\ open' = open \cup {FreeFd} /\ FreeFd \in Fds \ open
      /\ \A u \in Threads : fd'[u] = IF u = t THEN FreeFd ELSE fd[u]
      /\ UNCHANGED <<status, fd_cat, socket_fd, listener, piped, epoll, lost, closer, cstep, dels,
         released, made, batch, events, frees>>
  BY FreeFdFree
  DEF NewFd, At, Goto, Takes, SocketTypes, TargetsRight, TargetOk, ListenPcs, Resting, sockVars,
      kernelVars, closeVars, threadVars, taskVars
<1>2. pc' = [pc EXCEPT ![t] = pc'[t]] /\ tgt' = [tgt EXCEPT ![t] = tgt'[t]]
  BY DEF NewFd, At, Goto, Takes, SocketTypes
<1>3. OnlyMoves(t) /\ t # listen_task /\ pc'[listen_task] = pc[listen_task]
      /\ tgt'[listen_task] = tgt[listen_task]
  BY <1>1, <1>2 DEF OnlyMoves, SocketTypes, TargetsRight, TargetOk, ListenPcs, Resting
<1>4. pc' \in [Threads -> ListenPcs \cup ClientPcs] /\ tgt' \in [Threads -> Sockets \cup {NULL}]
  <2>1. pc'[t] \in ListenPcs \cup ClientPcs /\ tgt'[t] \in Sockets \cup {NULL}
    BY <1>1 DEF SocketTypes, TargetsRight, TargetOk, ListenPcs, ClientPcs, Resting
  <2> QED
    BY <1>2, <2>1, MovesTyped
<1>5. /\ fd' \in [Threads -> Fds \cup {NULL}]
  BY <1>1 DEF NewFd, At, Goto, Takes, SocketTypes
<1>6. SocketTypes'
  BY <1>1, <1>4, <1>5 DEF SocketTypes
<1>7. TargetsRight'
  <2>1. TargetOk(t)'
    BY <1>1, <1>3 DEF TargetsRight, TargetOk, Exists, ListenPcs, ClientPcs, Resting
  <2>2. CatsRight'
    BY <1>1, <1>3 DEF TargetsRight, CatsRight
  <2> QED
    BY <1>1, <1>3, <2>1, <2>2, TargetsStep DEF Exists
<1>8. UsersCounted'
  <2>1. \A s \in Sockets : t \in UsersOf(s)' <=> t \in UsersOf(s)
    BY <1>1, <1>3 DEF UsersOf, Inside
  <2>2. \A s \in Sockets : status'[s].n = status[s].n /\ status[s].n \in Int
    BY <1>1, <1>3 DEF SocketTypes
  <2> QED
    BY <1>1, <1>3, <2>1, <2>2, UsersStep DEF One
<1>9. ClosingRight'
  BY <1>1, <1>3, SameClosing DEF Exists
<1>10. EventsRight'
  BY <1>1, <1>3, SameEvents
<1>11. HandlerRight'
  BY <1>1, <1>3, SameHandler
<1>12. AddersRight'
  <2>1. AdderOk(t)'
    BY <1>1, <1>3 DEF AddersRight, AdderOk, AdderPcs, Known
  <2> QED
    BY <1>1, <1>3, <2>1, AddersStep DEF AddersRight, AdderOk, AdderPcs
<1>13. FdsRight'
  <2>1. FdMoves(t) /\ fd[t] = NULL /\ fd'[t] # NULL
    BY <1>1, <1>3 DEF FdMoves, OnlyMoves, FdsRight, FdPcs, SocketTypes
  <2> QED
    BY <1>1, <1>3, <2>1, FdOpened DEF HasFd, SocketTypes
<1> QED
  BY <1>6, <1>7, <1>8, <1>9, <1>10, <1>11, <1>12, <1>13

\* The caller keeps the order and, up to set_error, the descriptor.
LEMMA OrderFailsKeeps ==
  ASSUME IInv, NEW t \in Threads, OrderFails(t)
  PROVE  IInv'
<1> USE Basics DEF IInv
<1>1. /\ pc' = [pc EXCEPT ![t] = pc'[t]]
      /\ \/ pc[t] = "socket" /\ pc'[t] = "addr_error"
         \/ pc[t] \in {"connect", "bind"} /\ pc'[t] = "set_error"
      /\ tgt'[t] = tgt[t]
      /\ UNCHANGED <<status, fd_cat, socket_fd, listener, piped, epoll, open, lost, closer, cstep,
         dels, released, fd, made, batch, events, frees>>
  BY DEF OrderFails, At, Goto, Takes, SocketTypes, TargetsRight, TargetOk, ListenPcs, Resting,
      sockVars, kernelVars, closeVars, threadVars, taskVars
<1>2. pc' = [pc EXCEPT ![t] = pc'[t]] /\ tgt' = [tgt EXCEPT ![t] = tgt'[t]]
  BY DEF OrderFails, At, Goto, Takes, SocketTypes
<1>3. OnlyMoves(t) /\ t # listen_task /\ pc'[listen_task] = pc[listen_task]
      /\ tgt'[listen_task] = tgt[listen_task]
  BY <1>1, <1>2 DEF OnlyMoves, SocketTypes, TargetsRight, TargetOk, ListenPcs, Resting
<1>4. pc' \in [Threads -> ListenPcs \cup ClientPcs] /\ tgt' \in [Threads -> Sockets \cup {NULL}]
  <2>1. pc'[t] \in ListenPcs \cup ClientPcs /\ tgt'[t] \in Sockets \cup {NULL}
    BY <1>1 DEF SocketTypes, TargetsRight, TargetOk, ListenPcs, ClientPcs, Resting
  <2> QED
    BY <1>2, <2>1, MovesTyped
<1>5. SocketTypes'
  BY <1>1, <1>4 DEF SocketTypes
<1>6. TargetsRight'
  <2>1. TargetOk(t)'
    BY <1>1, <1>3 DEF TargetsRight, TargetOk, Exists, ListenPcs, ClientPcs, Resting
  <2>2. CatsRight'
    BY <1>1, <1>3 DEF TargetsRight, CatsRight
  <2> QED
    BY <1>1, <1>3, <2>1, <2>2, TargetsStep DEF Exists
<1>7. UsersCounted'
  <2>1. \A s \in Sockets : t \in UsersOf(s)' <=> t \in UsersOf(s)
    BY <1>1, <1>3 DEF UsersOf, Inside
  <2>2. \A s \in Sockets : status'[s].n = status[s].n /\ status[s].n \in Int
    BY <1>1, <1>3 DEF SocketTypes
  <2> QED
    BY <1>1, <1>3, <2>1, <2>2, UsersStep DEF One
<1>8. ClosingRight'
  BY <1>1, <1>3, SameClosing DEF Exists
<1>9. EventsRight'
  BY <1>1, <1>3, SameEvents
<1>10. HandlerRight'
  BY <1>1, <1>3, SameHandler
<1>11. AddersRight'
  <2>1. AdderOk(t)'
    BY <1>1, <1>3 DEF AddersRight, AdderOk, AdderPcs, Known
  <2> QED
    BY <1>1, <1>3, <2>1, AddersStep DEF AddersRight, AdderOk, AdderPcs
<1>12. FdsRight'
  BY <1>1, <1>3, SameFds DEF HasFd, FdPcs, OnlyMoves
<1> QED
  BY <1>5, <1>6, <1>7, <1>8, <1>9, <1>10, <1>11, <1>12

\* The descriptor that nobody will close is lost.
LEMMA ConnectFailsKeeps ==
  ASSUME IInv, NEW t \in Threads, ConnectFails(t)
  PROVE  IInv'
<1> USE Basics DEF IInv
<1>1. /\ pc[t] = "connect" /\ pc'[t] = "idle" /\ tgt'[t] = NULL
      /\ lost' = lost \cup {fd[t]} /\ fd[t] \in open \ lost
      /\ \A u \in Threads : fd'[u] = IF u = t THEN NULL ELSE fd[u]
      /\ UNCHANGED <<status, fd_cat, socket_fd, listener, piped, epoll, open, closer, cstep, dels,
         released, made, batch, events, frees>>
  BY DEF ConnectFails, At, Goto, Takes, SocketTypes, TargetsRight, TargetOk, ListenPcs, Resting,
      sockVars, kernelVars, closeVars, threadVars, taskVars, FdsRight, FdPcs
<1>2. pc' = [pc EXCEPT ![t] = pc'[t]] /\ tgt' = [tgt EXCEPT ![t] = tgt'[t]]
  BY DEF ConnectFails, At, Goto, Takes, SocketTypes
<1>3. OnlyMoves(t) /\ t # listen_task /\ pc'[listen_task] = pc[listen_task]
      /\ tgt'[listen_task] = tgt[listen_task]
  BY <1>1, <1>2 DEF OnlyMoves, SocketTypes, TargetsRight, TargetOk, ListenPcs, Resting
<1>4. pc' \in [Threads -> ListenPcs \cup ClientPcs] /\ tgt' \in [Threads -> Sockets \cup {NULL}]
  <2>1. pc'[t] \in ListenPcs \cup ClientPcs /\ tgt'[t] \in Sockets \cup {NULL}
    BY <1>1 DEF SocketTypes, TargetsRight, TargetOk, ListenPcs, ClientPcs, Resting
  <2> QED
    BY <1>2, <2>1, MovesTyped
<1>5. /\ fd' \in [Threads -> Fds \cup {NULL}]
  BY <1>1 DEF ConnectFails, At, Goto, Takes, SocketTypes
<1>6. SocketTypes'
  BY <1>1, <1>4, <1>5 DEF SocketTypes
<1>7. TargetsRight'
  <2>1. TargetOk(t)'
    BY <1>1, <1>3 DEF TargetsRight, TargetOk, Exists, ListenPcs, ClientPcs, Resting
  <2>2. CatsRight'
    BY <1>1, <1>3 DEF TargetsRight, CatsRight
  <2> QED
    BY <1>1, <1>3, <2>1, <2>2, TargetsStep DEF Exists
<1>8. UsersCounted'
  <2>1. \A s \in Sockets : t \in UsersOf(s)' <=> t \in UsersOf(s)
    BY <1>1, <1>3 DEF UsersOf, Inside
  <2>2. \A s \in Sockets : status'[s].n = status[s].n /\ status[s].n \in Int
    BY <1>1, <1>3 DEF SocketTypes
  <2> QED
    BY <1>1, <1>3, <2>1, <2>2, UsersStep DEF One
<1>9. ClosingRight'
  BY <1>1, <1>3, SameClosing DEF Exists
<1>10. EventsRight'
  BY <1>1, <1>3, SameEvents
<1>11. HandlerRight'
  BY <1>1, <1>3, SameHandler
<1>12. AddersRight'
  <2>1. AdderOk(t)'
    BY <1>1, <1>3 DEF AddersRight, AdderOk, AdderPcs, Known
  <2> QED
    BY <1>1, <1>3, <2>1, AddersStep DEF AddersRight, AdderOk, AdderPcs
<1>13. FdsRight'
  <2>1. FdMoves(t) /\ fd[t] # NULL /\ fd'[t] = NULL
    BY <1>1, <1>3 DEF FdMoves, OnlyMoves, FdsRight, FdPcs
  <2> QED
    BY <1>1, <1>3, <2>1, FdDropped DEF HasFd, SocketTypes
<1> QED
  BY <1>6, <1>7, <1>8, <1>9, <1>10, <1>11, <1>12, <1>13

\* The descriptor goes on to _new_socket.
LEMMA ConnectSucceedsKeeps ==
  ASSUME IInv, NEW t \in Threads, ConnectSucceeds(t)
  PROVE  IInv'
<1> USE Basics DEF IInv
<1>1. /\ pc[t] = "connect" /\ pc'[t] = "new" /\ tgt'[t] = tgt[t]
      /\ UNCHANGED <<status, fd_cat, socket_fd, listener, piped, epoll, open, lost, closer, cstep,
         dels, released, fd, made, batch, events, frees>>
  BY DEF ConnectSucceeds, At, Goto, Takes, SocketTypes, TargetsRight, TargetOk, ListenPcs, Resting,
      sockVars, kernelVars, closeVars, threadVars, taskVars
<1>2. pc' = [pc EXCEPT ![t] = pc'[t]] /\ tgt' = [tgt EXCEPT ![t] = tgt'[t]]
  BY DEF ConnectSucceeds, At, Goto, Takes, SocketTypes
<1>3. OnlyMoves(t) /\ t # listen_task /\ pc'[listen_task] = pc[listen_task]
      /\ tgt'[listen_task] = tgt[listen_task]
  BY <1>1, <1>2 DEF OnlyMoves, SocketTypes, TargetsRight, TargetOk, ListenPcs, Resting
<1>4. pc' \in [Threads -> ListenPcs \cup ClientPcs] /\ tgt' \in [Threads -> Sockets \cup {NULL}]
  <2>1. pc'[t] \in ListenPcs \cup ClientPcs /\ tgt'[t] \in Sockets \cup {NULL}
    BY <1>1 DEF SocketTypes, TargetsRight, TargetOk, ListenPcs, ClientPcs, Resting
  <2> QED
    BY <1>2, <2>1, MovesTyped
<1>5. SocketTypes'
  BY <1>1, <1>4 DEF SocketTypes
<1>6. TargetsRight'
  <2>1. TargetOk(t)'
    BY <1>1, <1>3 DEF TargetsRight, TargetOk, Exists, ListenPcs, ClientPcs, Resting
  <2>2. CatsRight'
    BY <1>1, <1>3 DEF TargetsRight, CatsRight
  <2> QED
    BY <1>1, <1>3, <2>1, <2>2, TargetsStep DEF Exists
<1>7. UsersCounted'
  <2>1. \A s \in Sockets : t \in UsersOf(s)' <=> t \in UsersOf(s)
    BY <1>1, <1>3 DEF UsersOf, Inside
  <2>2. \A s \in Sockets : status'[s].n = status[s].n /\ status[s].n \in Int
    BY <1>1, <1>3 DEF SocketTypes
  <2> QED
    BY <1>1, <1>3, <2>1, <2>2, UsersStep DEF One
<1>8. ClosingRight'
  BY <1>1, <1>3, SameClosing DEF Exists
<1>9. EventsRight'
  BY <1>1, <1>3, SameEvents
<1>10. HandlerRight'
  BY <1>1, <1>3, SameHandler
<1>11. AddersRight'
  <2>1. AdderOk(t)'
    BY <1>1, <1>3 DEF AddersRight, AdderOk, AdderPcs, Known
  <2> QED
    BY <1>1, <1>3, <2>1, AddersStep DEF AddersRight, AdderOk, AdderPcs
<1>12. FdsRight'
  BY <1>1, <1>3, SameFds DEF HasFd, FdPcs, OnlyMoves
<1> QED
  BY <1>5, <1>6, <1>7, <1>8, <1>9, <1>10, <1>11, <1>12

\* useing_ref_inc fails: the descriptor stays with the caller.
LEMMA OrderRefusedKeeps ==
  ASSUME IInv, NEW t \in Threads, OrderEnter(t), IsClosed(status[tgt[t]])
  PROVE  IInv'
<1> USE Basics DEF IInv
<1>1. /\ pc[t] \in {"connect", "bind"} /\ pc'[t] = "set_error" /\ tgt'[t] = tgt[t]
      /\ UNCHANGED <<status, fd_cat, socket_fd, listener, piped, epoll, open, lost, closer, cstep,
         dels, released, fd, made, batch, events, frees>>
  BY DEF OrderEnter, At, Goto, Takes, MayEnter, SocketTypes, TargetsRight, TargetOk, ListenPcs,
      Resting, sockVars, kernelVars, closeVars, threadVars, taskVars
<1>2. pc' = [pc EXCEPT ![t] = pc'[t]] /\ tgt' = [tgt EXCEPT ![t] = tgt'[t]]
  BY DEF OrderEnter, At, Goto, Takes, MayEnter, SocketTypes
<1>3. OnlyMoves(t) /\ t # listen_task /\ pc'[listen_task] = pc[listen_task]
      /\ tgt'[listen_task] = tgt[listen_task]
  BY <1>1, <1>2 DEF OnlyMoves, SocketTypes, TargetsRight, TargetOk, ListenPcs, Resting
<1>4. pc' \in [Threads -> ListenPcs \cup ClientPcs] /\ tgt' \in [Threads -> Sockets \cup {NULL}]
  <2>1. pc'[t] \in ListenPcs \cup ClientPcs /\ tgt'[t] \in Sockets \cup {NULL}
    BY <1>1 DEF SocketTypes, TargetsRight, TargetOk, ListenPcs, ClientPcs, Resting
  <2> QED
    BY <1>2, <2>1, MovesTyped
<1>5. SocketTypes'
  BY <1>1, <1>4 DEF SocketTypes
<1>6. TargetsRight'
  <2>1. TargetOk(t)'
    BY <1>1, <1>3 DEF TargetsRight, TargetOk, Exists, ListenPcs, ClientPcs, Resting
  <2>2. CatsRight'
    BY <1>1, <1>3 DEF TargetsRight, CatsRight
  <2> QED
    BY <1>1, <1>3, <2>1, <2>2, TargetsStep DEF Exists
<1>7. UsersCounted'
  <2>1. \A s \in Sockets : t \in UsersOf(s)' <=> t \in UsersOf(s)
    BY <1>1, <1>3 DEF UsersOf, Inside
  <2>2. \A s \in Sockets : status'[s].n = status[s].n /\ status[s].n \in Int
    BY <1>1, <1>3 DEF SocketTypes
  <2> QED
    BY <1>1, <1>3, <2>1, <2>2, UsersStep DEF One
<1>8. ClosingRight'
  BY <1>1, <1>3, SameClosing DEF Exists
<1>9. EventsRight'
  BY <1>1, <1>3, SameEvents
<1>10. HandlerRight'
  BY <1>1, <1>3, SameHandler
<1>11. AddersRight'
  <2>1. AdderOk(t)'
    BY <1>1, <1>3 DEF AddersRight, AdderOk, AdderPcs, Known
  <2> QED
    BY <1>1, <1>3, <2>1, AddersStep DEF AddersRight, AdderOk, AdderPcs
<1>12. FdsRight'
  BY <1>1, <1>3, SameFds DEF HasFd, FdPcs, OnlyMoves
<1> QED
  BY <1>5, <1>6, <1>7, <1>8, <1>9, <1>10, <1>11, <1>12

\* The descriptor passes to the order, which nobody has registered yet.
LEMMA OrderEnterKeeps ==
  ASSUME IInv, NEW t \in Threads, OrderEnter(t), ~IsClosed(status[tgt[t]])
  PROVE  IInv'
<1> USE Basics DEF IInv
<1>1. /\ pc[t] \in {"connect", "bind"} /\ pc'[t] = "add" /\ tgt'[t] = tgt[t] /\ tgt[t] \in Orders
      /\ useing_ref_inc(tgt[t])
      /\ \A r \in Sockets \ {tgt[t]} : fd_cat'[r] = fd_cat[r] /\ socket_fd'[r] = socket_fd[r]
      /\ fd_cat'[tgt[t]] \in {"CONNECT_SOCKET", "LISTEN_SOCKET"} /\ socket_fd'[tgt[t]] = fd[t]
      /\ \A u \in Threads : fd'[u] = IF u = t THEN NULL ELSE fd[u]
      /\ UNCHANGED <<listener, piped, epoll, open, lost, closer, cstep, dels, released, made,
         batch, events, frees>>
  BY DEF OrderEnter, At, Goto, Takes, MayEnter, SocketTypes, TargetsRight, TargetOk, ListenPcs,
      Resting, sockVars, kernelVars, closeVars, threadVars, taskVars
<1>2. pc' = [pc EXCEPT ![t] = pc'[t]] /\ tgt' = [tgt EXCEPT ![t] = tgt'[t]]
  BY DEF OrderEnter, At, Goto, Takes, MayEnter, SocketTypes
<1>3. OnlyMoves(t) /\ t # listen_task /\ pc'[listen_task] = pc[listen_task]
      /\ tgt'[listen_task] = tgt[listen_task]
  BY <1>1, <1>2 DEF OnlyMoves, SocketTypes, TargetsRight, TargetOk, ListenPcs, Resting
<1>4. pc' \in [Threads -> ListenPcs \cup ClientPcs] /\ tgt' \in [Threads -> Sockets \cup {NULL}]
  <2>1. pc'[t] \in ListenPcs \cup ClientPcs /\ tgt'[t] \in Sockets \cup {NULL}
    BY <1>1 DEF SocketTypes, TargetsRight, TargetOk, ListenPcs, ClientPcs, Resting
  <2> QED
    BY <1>2, <2>1, MovesTyped
<1>5. /\ fd_cat' \in [Sockets -> Cats \cup {"none"}]
      /\ fd' \in [Threads -> Fds \cup {NULL}]
      /\ socket_fd' \in [Sockets -> Fds \cup {NULL}]
  BY <1>1 DEF OrderEnter, At, Goto, Takes, MayEnter, SocketTypes, Cats
<1>6. /\ status' \in [Sockets -> Words] /\ ClosingRight'
      /\ \A r \in Sockets : status'[r].n = (IF r = tgt[t] THEN status[r].n + 1 ELSE status[r].n)
  BY <1>1, <1>3, IncCalls DEF SamePhase, Exists, closeVars
<1>7. /\ fd_cat[tgt[t]] = "NO_SOCKET"
      /\ tgt[t] \notin epoll /\ tgt[t] # tgt[listen_task] /\ \A e \in batch : e.s # tgt[t]
      /\ \A u \in Threads \ {t} : pc[u] \in AdderPcs => tgt[u] # tgt[t]
  BY <1>1 DEF AddersRight, AdderOk, AdderPcs
<1>8. SocketTypes'
  BY <1>1, <1>4, <1>5, <1>6 DEF SocketTypes, Words
<1>9. TargetsRight'
  <2>1. TargetOk(t)'
    BY <1>1, <1>3 DEF TargetsRight, TargetOk, Exists, ListenPcs, ClientPcs, Resting
  <2>2. CatsRight'
    BY <1>1, <1>3 DEF TargetsRight, CatsRight
  <2> QED
    BY <1>1, <1>3, <2>1, <2>2, TargetsStep DEF Exists
<1>10. UsersCounted'
  <2>1. \A r \in Sockets : t \notin UsersOf(r) /\ (t \in UsersOf(r)' <=> r = tgt[t])
    BY <1>1, <1>3 DEF UsersOf, Inside
  <2>2. \A r \in Sockets : status'[r].n = (IF r = tgt[t] THEN status[r].n + 1 ELSE status[r].n) /\
     status[r].n \in Int
    BY <1>6 DEF SocketTypes
  <2> QED
    BY <1>1, <1>3, <2>1, <2>2, UsersStep DEF One
<1>11. ClosingRight'
  BY <1>6
<1>12. EventsRight'
  BY <1>1, <1>3, SameEvents, <1>7 DEF SocketTypes
<1>13. HandlerRight'
  BY <1>1, <1>3, SameHandler, <1>7, HandlerHas
<1>14. AddersRight'
  <2>1. AdderOk(t)'
    BY <1>1, <1>3, <1>7 DEF AddersRight, AdderOk, AdderPcs, Known, EventCats
  <2> QED
    BY <1>1, <1>3, <2>1, AddersStep, <1>7
    DEF AddersRight, AdderOk, AdderPcs, TargetsRight, TargetOk, Resting
<1>15. FdsRight'
  <2>1. FdMoves(t) /\ fd[t] # NULL /\ fd'[t] = NULL
    BY <1>1, <1>3 DEF FdMoves, OnlyMoves, FdsRight, FdPcs
  <2>2. cstep[tgt[t]] = "no"
    BY <1>1, <1>3 DEF ClosingRight, STATUS_LEGAL_CLOSED
  <2>3. ~HasFd(tgt[t]) /\ HasFd(tgt[t])' /\ \A r \in Sockets \ {tgt[t]} : HasFd(r)' <=> HasFd(r)
    BY <1>1, <1>3, <1>7, <2>2 DEF HasFd
  <2>4. NULL \notin open
    BY DEF SocketTypes
  <2> QED
    BY <1>1, <1>3, <2>1, <2>3, <2>4, FdGiven
<1> QED
  BY <1>8, <1>9, <1>10, <1>11, <1>12, <1>13, <1>14, <1>15

\* The caller is inside, so that what it registers is not closed.
LEMMA EpollAddKeeps ==
  ASSUME IInv, NEW t \in Threads, EpollAdd(t)
  PROVE  IInv'
<1> USE Basics DEF IInv
<1>1. /\ pc[t] = "add" /\ pc'[t] = "leave" /\ tgt'[t] = tgt[t]
      /\ epoll' = epoll \cup {tgt[t]} /\ tgt[t] \in Sockets
      /\ UNCHANGED <<status, fd_cat, socket_fd, listener, piped, open, lost, closer, cstep, dels,
         released, fd, made, batch, events, frees>>
  BY DEF EpollAdd, At, Goto, Takes, SocketTypes, TargetsRight, TargetOk, ListenPcs, Resting, sockVars,
      kernelVars, closeVars, threadVars, taskVars
<1>2. pc' = [pc EXCEPT ![t] = pc'[t]] /\ tgt' = [tgt EXCEPT ![t] = tgt'[t]]
  BY DEF EpollAdd, At, Goto, Takes, SocketTypes
<1>3. OnlyMoves(t) /\ t # listen_task /\ pc'[listen_task] = pc[listen_task]
      /\ tgt'[listen_task] = tgt[listen_task]
  BY <1>1, <1>2 DEF OnlyMoves, SocketTypes, TargetsRight, TargetOk, ListenPcs, Resting
<1>4. pc' \in [Threads -> ListenPcs \cup ClientPcs] /\ tgt' \in [Threads -> Sockets \cup {NULL}]
  <2>1. pc'[t] \in ListenPcs \cup ClientPcs /\ tgt'[t] \in Sockets \cup {NULL}
    BY <1>1 DEF SocketTypes, TargetsRight, TargetOk, ListenPcs, ClientPcs, Resting
  <2> QED
    BY <1>2, <2>1, MovesTyped
<1>5. SocketTypes'
  BY <1>1, <1>4 DEF SocketTypes
<1>6. TargetsRight'
  <2>1. TargetOk(t)'
    BY <1>1, <1>3 DEF TargetsRight, TargetOk, Exists, ListenPcs, ClientPcs, Resting
  <2>2. CatsRight'
    BY <1>1, <1>3 DEF TargetsRight, CatsRight
  <2> QED
    BY <1>1, <1>3, <2>1, <2>2, TargetsStep DEF Exists
<1>7. UsersCounted'
  <2>1. \A s \in Sockets : t \in UsersOf(s)' <=> t \in UsersOf(s)
    BY <1>1, <1>3 DEF UsersOf, Inside
  <2>2. \A s \in Sockets : status'[s].n = status[s].n /\ status[s].n \in Int
    BY <1>1, <1>3 DEF SocketTypes
  <2> QED
    BY <1>1, <1>3, <2>1, <2>2, UsersStep DEF One
<1>8. ClosingRight'
  BY <1>1, <1>3, SameClosing DEF Exists
<1>9. EventsRight'
  <2>1. t \in UsersOf(tgt[t])
    BY <1>1, <1>3 DEF UsersOf, Inside
  <2>2. cstep[tgt[t]] = "no"
    BY <1>1, <1>3, <2>1, UserKeepsOpen
  <2>3. fd_cat[tgt[t]] \in EventCats /\ Known(tgt[t])
    BY <1>1, <1>3 DEF AddersRight, AdderOk, AdderPcs
  <2> QED
    BY <1>1, <1>3, <2>2, <2>3 DEF EventsRight, Known
<1>10. HandlerRight'
  BY <1>1, <1>3, SameHandler
<1>11. AddersRight'
  <2>1. AdderOk(t)'
    BY <1>1, <1>3 DEF AddersRight, AdderOk, AdderPcs, Known
  <2> QED
    BY <1>1, <1>3, <2>1, AddersStep DEF AddersRight, AdderOk, AdderPcs
<1>12. FdsRight'
  BY <1>1, <1>3, SameFds DEF HasFd, FdPcs, OnlyMoves
<1> QED
  BY <1>5, <1>6, <1>7, <1>8, <1>9, <1>10, <1>11, <1>12

\* The descriptor of an order that epoll refuses passes back to the caller.
LEMMA OrderUnaddedKeeps ==
  ASSUME IInv, NEW t \in Threads, EpollAddFails(t), tgt[t] \in Orders
  PROVE  IInv'
<1> USE Basics DEF IInv
<1>1. /\ pc[t] = "add" /\ pc'[t] = "unadd" /\ tgt'[t] = tgt[t]
      /\ \A r \in Sockets : fd_cat'[r] = IF r = tgt[t] THEN "NO_SOCKET" ELSE fd_cat[r]
      /\ \A u \in Threads : fd'[u] = IF u = t THEN socket_fd[tgt[t]] ELSE fd[u]
      /\ UNCHANGED <<status, socket_fd, listener, piped, epoll, open, lost, closer, cstep, dels,
         released, made, batch, events, frees>>
  BY DEF EpollAddFails, At, Goto, Takes, CatUnadded, SocketTypes, TargetsRight, TargetOk, ListenPcs,
      Resting, sockVars, kernelVars, closeVars, threadVars, taskVars
<1>2. pc' = [pc EXCEPT ![t] = pc'[t]] /\ tgt' = [tgt EXCEPT ![t] = tgt'[t]]
  BY DEF EpollAddFails, At, Goto, Takes, CatUnadded, SocketTypes
<1>3. OnlyMoves(t) /\ t # listen_task /\ pc'[listen_task] = pc[listen_task]
      /\ tgt'[listen_task] = tgt[listen_task]
  BY <1>1, <1>2 DEF OnlyMoves, SocketTypes, TargetsRight, TargetOk, ListenPcs, Resting
<1>4. pc' \in [Threads -> ListenPcs \cup ClientPcs] /\ tgt' \in [Threads -> Sockets \cup {NULL}]
  <2>1. pc'[t] \in ListenPcs \cup ClientPcs /\ tgt'[t] \in Sockets \cup {NULL}
    BY <1>1 DEF SocketTypes, TargetsRight, TargetOk, ListenPcs, ClientPcs, Resting
  <2> QED
    BY <1>2, <2>1, MovesTyped
<1>5. /\ fd_cat' \in [Sockets -> Cats \cup {"none"}]
      /\ fd' \in [Threads -> Fds \cup {NULL}]
  BY <1>1 DEF EpollAddFails, At, Goto, Takes, CatUnadded, SocketTypes, Cats
<1>6. /\ tgt[t] \notin epoll /\ tgt[t] # tgt[listen_task] /\ \A e \in batch : e.s # tgt[t]
      /\ \A u \in Threads \ {t} : pc[u] \in AdderPcs => tgt[u] # tgt[t]
      /\ fd_cat[tgt[t]] \in EventCats
  BY <1>1 DEF AddersRight, AdderOk, AdderPcs
<1>7. cstep[tgt[t]] = "no"
  BY <1>1, UserKeepsOpen DEF UsersOf, Inside
<1>8. SocketTypes'
  BY <1>1, <1>4, <1>5 DEF SocketTypes
<1>9. TargetsRight'
  <2>1. TargetOk(t)'
    BY <1>1, <1>3 DEF TargetsRight, TargetOk, Exists, ListenPcs, ClientPcs, Resting
  <2>2. CatsRight'
    BY <1>1, <1>3 DEF TargetsRight, CatsRight
  <2> QED
    BY <1>1, <1>3, <2>1, <2>2, TargetsStep DEF Exists
<1>10. UsersCounted'
  <2>1. \A s \in Sockets : t \in UsersOf(s)' <=> t \in UsersOf(s)
    BY <1>1, <1>3 DEF UsersOf, Inside
  <2>2. \A s \in Sockets : status'[s].n = status[s].n /\ status[s].n \in Int
    BY <1>1, <1>3 DEF SocketTypes
  <2> QED
    BY <1>1, <1>3, <2>1, <2>2, UsersStep DEF One
<1>11. ClosingRight'
  BY <1>1, <1>3, SameClosing DEF Exists
<1>12. EventsRight'
  BY <1>1, <1>3, SameEvents, <1>6 DEF SocketTypes
<1>13. HandlerRight'
  BY <1>1, <1>3, SameHandler, <1>6, HandlerHas
<1>14. AddersRight'
  <2>1. AdderOk(t)'
    BY <1>1, <1>3, <1>6 DEF AddersRight, AdderOk, AdderPcs, Known
  <2> QED
    BY <1>1, <1>3, <2>1, AddersStep, <1>6
    DEF AddersRight, AdderOk, AdderPcs, TargetsRight, TargetOk, Resting
<1>15. FdsRight'
  <2>1. HasFd(tgt[t]) /\ ~HasFd(tgt[t])' /\ \A r \in Sockets \ {tgt[t]} : HasFd(r)' <=> HasFd(r)
    BY <1>1, <1>3, <1>6, <1>7 DEF HasFd, EventCats
  <2>2. NULL \notin open
    BY DEF SocketTypes
  <2>3. FdMoves(t) /\ fd[t] = NULL
    BY <1>1, <1>3, <2>1, <2>2 DEF FdMoves, OnlyMoves, FdsRight, FdPcs
  <2> QED
    BY <1>1, <1>3, <2>1, <2>2, <2>3, FdTaken
<1> QED
  BY <1>8, <1>9, <1>10, <1>11, <1>12, <1>13, <1>14, <1>15

\* A connection that epoll refuses keeps its descriptor.
LEMMA ConnUnaddedKeeps ==
  ASSUME IInv, NEW t \in Threads, EpollAddFails(t), tgt[t] \in Conns
  PROVE  IInv'
<1> USE Basics DEF IInv
<1>1. /\ pc[t] = "add" /\ pc'[t] = "leave" /\ tgt'[t] = tgt[t]
      /\ \A r \in Sockets : fd_cat'[r] = IF r = tgt[t] THEN "UNJOIN_SOCKET" ELSE fd_cat[r]
      /\ UNCHANGED <<status, socket_fd, listener, piped, epoll, open, lost, closer, cstep, dels,
         released, fd, made, batch, events, frees>>
  BY DEF EpollAddFails, At, Goto, Takes, CatUnadded, SocketTypes, TargetsRight, TargetOk, ListenPcs,
      Resting, sockVars, kernelVars, closeVars, threadVars, taskVars
<1>2. pc' = [pc EXCEPT ![t] = pc'[t]] /\ tgt' = [tgt EXCEPT ![t] = tgt'[t]]
  BY DEF EpollAddFails, At, Goto, Takes, CatUnadded, SocketTypes
<1>3. OnlyMoves(t) /\ t # listen_task /\ pc'[listen_task] = pc[listen_task]
      /\ tgt'[listen_task] = tgt[listen_task]
  BY <1>1, <1>2 DEF OnlyMoves, SocketTypes, TargetsRight, TargetOk, ListenPcs, Resting
<1>4. pc' \in [Threads -> ListenPcs \cup ClientPcs] /\ tgt' \in [Threads -> Sockets \cup {NULL}]
  <2>1. pc'[t] \in ListenPcs \cup ClientPcs /\ tgt'[t] \in Sockets \cup {NULL}
    BY <1>1 DEF SocketTypes, TargetsRight, TargetOk, ListenPcs, ClientPcs, Resting
  <2> QED
    BY <1>2, <2>1, MovesTyped
<1>5. /\ fd_cat' \in [Sockets -> Cats \cup {"none"}]
  BY <1>1 DEF EpollAddFails, At, Goto, Takes, CatUnadded, SocketTypes, Cats
<1>6. /\ tgt[t] \notin epoll /\ tgt[t] # tgt[listen_task] /\ \A e \in batch : e.s # tgt[t]
      /\ \A u \in Threads \ {t} : pc[u] \in AdderPcs => tgt[u] # tgt[t]
      /\ fd_cat[tgt[t]] \in EventCats
  BY <1>1 DEF AddersRight, AdderOk, AdderPcs
<1>7. cstep[tgt[t]] = "no"
  BY <1>1, UserKeepsOpen DEF UsersOf, Inside
<1>8. SocketTypes'
  BY <1>1, <1>4, <1>5 DEF SocketTypes
<1>9. TargetsRight'
  <2>1. TargetOk(t)'
    BY <1>1, <1>3 DEF TargetsRight, TargetOk, Exists, ListenPcs, ClientPcs, Resting
  <2>2. CatsRight'
    BY <1>1, <1>3 DEF TargetsRight, CatsRight
  <2> QED
    BY <1>1, <1>3, <2>1, <2>2, TargetsStep DEF Exists
<1>10. UsersCounted'
  <2>1. \A s \in Sockets : t \in UsersOf(s)' <=> t \in UsersOf(s)
    BY <1>1, <1>3 DEF UsersOf, Inside
  <2>2. \A s \in Sockets : status'[s].n = status[s].n /\ status[s].n \in Int
    BY <1>1, <1>3 DEF SocketTypes
  <2> QED
    BY <1>1, <1>3, <2>1, <2>2, UsersStep DEF One
<1>11. ClosingRight'
  BY <1>1, <1>3, SameClosing DEF Exists
<1>12. EventsRight'
  BY <1>1, <1>3, SameEvents, <1>6 DEF SocketTypes
<1>13. HandlerRight'
  BY <1>1, <1>3, SameHandler, <1>6, HandlerHas
<1>14. AddersRight'
  <2>1. AdderOk(t)'
    BY <1>1, <1>3, <1>6 DEF AddersRight, AdderOk, AdderPcs, Known
  <2> QED
    BY <1>1, <1>3, <2>1, AddersStep, <1>6
    DEF AddersRight, AdderOk, AdderPcs, TargetsRight, TargetOk, Resting
<1>15. FdsRight'
  <2>1. \A r \in Sockets : HasFd(r)' <=> HasFd(r)
    BY <1>1, <1>3, <1>6, <1>7 DEF HasFd, EventCats
  <2> QED
    BY <1>1, <1>3, <2>1, SameFds DEF FdPcs, OnlyMoves
<1> QED
  BY <1>8, <1>9, <1>10, <1>11, <1>12, <1>13, <1>14, <1>15

\* The caller leaves the socket, and may be the one that closes it.
LEMMA LeaveKeeps ==
  ASSUME IInv, NEW t \in Threads, Leave(t)
  PROVE  IInv'
<1> USE Basics DEF IInv
<1>1. /\ \/ pc[t] = "leave" /\ pc'[t] = "idle" /\ tgt'[t] = NULL
         \/ pc[t] = "unadd" /\ pc'[t] = "set_error" /\ tgt'[t] = tgt[t]
      /\ tgt[t] \in Sockets
      /\ useing_ref_dec(t, tgt[t])
      /\ UNCHANGED <<fd_cat, socket_fd, listener, piped, epoll, open, lost, fd, made, batch,
         events, frees>>
  BY DEF Leave, At, Goto, Takes, SocketTypes, TargetsRight, TargetOk, ListenPcs, Resting, sockVars,
      kernelVars, closeVars, threadVars, taskVars
<1>2. pc' = [pc EXCEPT ![t] = pc'[t]] /\ tgt' = [tgt EXCEPT ![t] = tgt'[t]]
  BY DEF Leave, At, Goto, Takes, SocketTypes
<1>3. OnlyMoves(t) /\ t # listen_task /\ pc'[listen_task] = pc[listen_task]
      /\ tgt'[listen_task] = tgt[listen_task]
  BY <1>1, <1>2 DEF OnlyMoves, SocketTypes, TargetsRight, TargetOk, ListenPcs, Resting
<1>4. pc' \in [Threads -> ListenPcs \cup ClientPcs] /\ tgt' \in [Threads -> Sockets \cup {NULL}]
  <2>1. pc'[t] \in ListenPcs \cup ClientPcs /\ tgt'[t] \in Sockets \cup {NULL}
    BY <1>1 DEF SocketTypes, TargetsRight, TargetOk, ListenPcs, ClientPcs, Resting
  <2> QED
    BY <1>2, <2>1, MovesTyped
<1>5. t \in UsersOf(tgt[t])
  BY <1>1 DEF UsersOf, Inside
<1>6. /\ status' \in [Sockets -> Words] /\ ClosingRight' /\ MayClose
      /\ \A r \in Sockets : status'[r].n = (IF r = tgt[t] THEN status[r].n - 1 ELSE status[r].n)
  BY <1>1, <1>3, <1>5, DecCalls DEF SamePhase, Exists
<1>7. SocketTypes'
  BY <1>1, <1>4, <1>6 DEF SocketTypes, MayClose, Words
<1>8. TargetsRight'
  <2>1. TargetOk(t)'
    BY <1>1, <1>3 DEF TargetsRight, TargetOk, Exists, ListenPcs, ClientPcs, Resting
  <2>2. CatsRight'
    BY <1>1, <1>3 DEF TargetsRight, CatsRight
  <2> QED
    BY <1>1, <1>3, <2>1, <2>2, TargetsStep DEF Exists
<1>9. UsersCounted'
  <2>1. \A r \in Sockets : t \notin UsersOf(r)' /\ (t \in UsersOf(r) <=> r = tgt[t])
    BY <1>1, <1>3 DEF UsersOf, Inside
  <2>2. \A r \in Sockets : status'[r].n = (IF r = tgt[t] THEN status[r].n - 1 ELSE status[r].n) /\
     status[r].n \in Int
    BY <1>1, <1>3, <1>6 DEF SocketTypes
  <2> QED
    BY <1>1, <1>3, <2>1, <2>2, UsersStep DEF One
<1>10. ClosingRight'
  BY <1>6
<1>11. EventsRight'
  BY <1>1, <1>3, SameEvents, <1>6 DEF MayClose, SocketTypes
<1>12. HandlerRight'
  BY <1>1, <1>3, SameHandler, <1>6 DEF MayClose
<1>13. AddersRight'
  <2>1. AdderOk(t)'
    BY <1>1, <1>3 DEF AddersRight, AdderOk, AdderPcs, Known
  <2> QED
    BY <1>1, <1>3, <2>1, AddersStep DEF AddersRight, AdderOk, AdderPcs
<1>14. FdsRight'
  BY <1>1, <1>3, SameFds, <1>6 DEF HasFd, FdPcs, OnlyMoves, MayClose
<1> QED
  BY <1>7, <1>8, <1>9, <1>10, <1>11, <1>12, <1>13, <1>14

\* The descriptor is closed together with its only owner.
LEMMA SetErrorKeeps ==
  ASSUME IInv, NEW t \in Threads, SetError(t)
  PROVE  IInv'
<1> USE Basics DEF IInv
<1>1. /\ pc[t] = "set_error" /\ pc'[t] = "addr_error" /\ tgt'[t] = tgt[t]
      /\ open' = open \ {fd[t]}
      /\ \A u \in Threads : fd'[u] = IF u = t THEN NULL ELSE fd[u]
      /\ UNCHANGED <<status, fd_cat, socket_fd, listener, piped, epoll, lost, closer, cstep, dels,
         released, made, batch, events, frees>>
  BY DEF SetError, At, Goto, Takes, SocketTypes, TargetsRight, TargetOk, ListenPcs, Resting, sockVars,
      kernelVars, closeVars, threadVars, taskVars
<1>2. pc' = [pc EXCEPT ![t] = pc'[t]] /\ tgt' = [tgt EXCEPT ![t] = tgt'[t]]
  BY DEF SetError, At, Goto, Takes, SocketTypes
<1>3. OnlyMoves(t) /\ t # listen_task /\ pc'[listen_task] = pc[listen_task]
      /\ tgt'[listen_task] = tgt[listen_task]
  BY <1>1, <1>2 DEF OnlyMoves, SocketTypes, TargetsRight, TargetOk, ListenPcs, Resting
<1>4. pc' \in [Threads -> ListenPcs \cup ClientPcs] /\ tgt' \in [Threads -> Sockets \cup {NULL}]
  <2>1. pc'[t] \in ListenPcs \cup ClientPcs /\ tgt'[t] \in Sockets \cup {NULL}
    BY <1>1 DEF SocketTypes, TargetsRight, TargetOk, ListenPcs, ClientPcs, Resting
  <2> QED
    BY <1>2, <2>1, MovesTyped
<1>5. /\ fd' \in [Threads -> Fds \cup {NULL}]
  BY <1>1 DEF SetError, At, Goto, Takes, SocketTypes
<1>6. fd[t] \in open \ lost
  BY <1>1 DEF FdsRight, FdPcs
<1>7. SocketTypes'
  BY <1>1, <1>4, <1>5, <1>6 DEF SocketTypes
<1>8. TargetsRight'
  <2>1. TargetOk(t)'
    BY <1>1, <1>3 DEF TargetsRight, TargetOk, Exists, ListenPcs, ClientPcs, Resting
  <2>2. CatsRight'
    BY <1>1, <1>3 DEF TargetsRight, CatsRight
  <2> QED
    BY <1>1, <1>3, <2>1, <2>2, TargetsStep DEF Exists
<1>9. UsersCounted'
  <2>1. \A s \in Sockets : t \in UsersOf(s)' <=> t \in UsersOf(s)
    BY <1>1, <1>3 DEF UsersOf, Inside
  <2>2. \A s \in Sockets : status'[s].n = status[s].n /\ status[s].n \in Int
    BY <1>1, <1>3 DEF SocketTypes
  <2> QED
    BY <1>1, <1>3, <2>1, <2>2, UsersStep DEF One
<1>10. ClosingRight'
  BY <1>1, <1>3, SameClosing DEF Exists
<1>11. EventsRight'
  BY <1>1, <1>3, SameEvents
<1>12. HandlerRight'
  BY <1>1, <1>3, SameHandler
<1>13. AddersRight'
  <2>1. AdderOk(t)'
    BY <1>1, <1>3 DEF AddersRight, AdderOk, AdderPcs, Known
  <2> QED
    BY <1>1, <1>3, <2>1, AddersStep DEF AddersRight, AdderOk, AdderPcs
<1>14. FdsRight'
  <2>1. FdMoves(t) /\ fd[t] # NULL /\ fd'[t] = NULL
    BY <1>1, <1>3 DEF FdMoves, OnlyMoves, FdsRight, FdPcs
  <2> QED
    BY <1>1, <1>3, <2>1, FdDropped DEF HasFd, SocketTypes
<1> QED
  BY <1>7, <1>8, <1>9, <1>10, <1>11, <1>12, <1>13, <1>14

\* The socket is closed by its caller, or was closed already.
LEMMA AddrErrorKeeps ==
  ASSUME IInv, NEW t \in Threads, AddrError(t)
  PROVE  IInv'
<1> USE Basics DEF IInv
<1>1. /\ pc[t] = "addr_error" /\ pc'[t] = "idle" /\ tgt'[t] = NULL
      /\ tgt[t] \in Sockets /\ fd_cat[tgt[t]] # "none"
      /\ set_status_closed(t, tgt[t])
      /\ UNCHANGED <<fd_cat, socket_fd, listener, piped, epoll, open, lost, fd, made, batch,
         events, frees>>
  BY DEF AddrError, At, Goto, Takes, SocketTypes, TargetsRight, TargetOk, ListenPcs, Resting, sockVars,
      kernelVars, closeVars, threadVars, taskVars, Exists
<1>2. pc' = [pc EXCEPT ![t] = pc'[t]] /\ tgt' = [tgt EXCEPT ![t] = tgt'[t]]
  BY DEF AddrError, At, Goto, Takes, SocketTypes
<1>3. OnlyMoves(t) /\ t # listen_task /\ pc'[listen_task] = pc[listen_task]
      /\ tgt'[listen_task] = tgt[listen_task]
  BY <1>1, <1>2 DEF OnlyMoves, SocketTypes, TargetsRight, TargetOk, ListenPcs, Resting
<1>4. pc' \in [Threads -> ListenPcs \cup ClientPcs] /\ tgt' \in [Threads -> Sockets \cup {NULL}]
  <2>1. pc'[t] \in ListenPcs \cup ClientPcs /\ tgt'[t] \in Sockets \cup {NULL}
    BY <1>1 DEF SocketTypes, TargetsRight, TargetOk, ListenPcs, ClientPcs, Resting
  <2> QED
    BY <1>2, <2>1, MovesTyped
<1>5. /\ status' \in [Sockets -> Words] /\ ClosingRight' /\ MayClose
      /\ \A r \in Sockets : status'[r].n = status[r].n
  BY <1>1, <1>3, ClosesOrNot DEF SamePhase, Exists
<1>6. SocketTypes'
  BY <1>1, <1>4, <1>5 DEF SocketTypes, MayClose, Words
<1>7. TargetsRight'
  <2>1. TargetOk(t)'
    BY <1>1, <1>3 DEF TargetsRight, TargetOk, Exists, ListenPcs, ClientPcs, Resting
  <2>2. CatsRight'
    BY <1>1, <1>3 DEF TargetsRight, CatsRight
  <2> QED
    BY <1>1, <1>3, <2>1, <2>2, TargetsStep DEF Exists
<1>8. UsersCounted'
  <2>1. \A s \in Sockets : t \in UsersOf(s)' <=> t \in UsersOf(s)
    BY <1>1, <1>3 DEF UsersOf, Inside
  <2>2. \A s \in Sockets : status'[s].n = status[s].n /\ status[s].n \in Int
    BY <1>1, <1>3, <1>5 DEF SocketTypes
  <2> QED
    BY <1>1, <1>3, <2>1, <2>2, UsersStep DEF One
<1>9. ClosingRight'
  BY <1>5
<1>10. EventsRight'
  BY <1>1, <1>3, SameEvents, <1>5 DEF MayClose, SocketTypes
<1>11. HandlerRight'
  BY <1>1, <1>3, SameHandler, <1>5 DEF MayClose
<1>12. AddersRight'
  <2>1. AdderOk(t)'
    BY <1>1, <1>3 DEF AddersRight, AdderOk, AdderPcs, Known
  <2> QED
    BY <1>1, <1>3, <2>1, AddersStep DEF AddersRight, AdderOk, AdderPcs
<1>13. FdsRight'
  BY <1>1, <1>3, SameFds, <1>5 DEF HasFd, FdPcs, OnlyMoves, MayClose
<1> QED
  BY <1>6, <1>7, <1>8, <1>9, <1>10, <1>11, <1>12, <1>13

\* _new_socket fails in a client: its descriptor is lost.
LEMMA NewFailsKeeps ==
  ASSUME IInv, NEW t \in Clients, NewFails(t)
  PROVE  IInv'
<1> USE Basics DEF IInv
<1>1. /\ pc[t] = "new" /\ pc'[t] = "addr_error" /\ tgt'[t] = tgt[t]
      /\ lost' = lost \cup {fd[t]} /\ fd[t] \in open \ lost
      /\ \A u \in Threads : fd'[u] = IF u = t THEN NULL ELSE fd[u]
      /\ UNCHANGED <<status, fd_cat, socket_fd, listener, piped, epoll, open, closer, cstep, dels,
         released, made, batch, events, frees>>
  BY DEF NewFails, At, Goto, Takes, SocketTypes, TargetsRight, TargetOk, ListenPcs, Resting, sockVars,
      kernelVars, closeVars, threadVars, taskVars, AfterNew, FdsRight, FdPcs
<1>2. pc' = [pc EXCEPT ![t] = pc'[t]] /\ tgt' = [tgt EXCEPT ![t] = tgt'[t]]
  BY DEF NewFails, At, Goto, Takes, SocketTypes
<1>3. OnlyMoves(t) /\ t # listen_task /\ pc'[listen_task] = pc[listen_task]
      /\ tgt'[listen_task] = tgt[listen_task]
  BY <1>1, <1>2 DEF OnlyMoves, SocketTypes, TargetsRight, TargetOk, ListenPcs, Resting
<1>4. pc' \in [Threads -> ListenPcs \cup ClientPcs] /\ tgt' \in [Threads -> Sockets \cup {NULL}]
  <2>1. pc'[t] \in ListenPcs \cup ClientPcs /\ tgt'[t] \in Sockets \cup {NULL}
    BY <1>1 DEF SocketTypes, TargetsRight, TargetOk, ListenPcs, ClientPcs, Resting
  <2> QED
    BY <1>2, <2>1, MovesTyped
<1>5. /\ fd' \in [Threads -> Fds \cup {NULL}]
  BY <1>1 DEF NewFails, At, Goto, Takes, SocketTypes
<1>6. SocketTypes'
  BY <1>1, <1>4, <1>5 DEF SocketTypes
<1>7. TargetsRight'
  <2>1. TargetOk(t)'
    BY <1>1, <1>3 DEF TargetsRight, TargetOk, Exists, ListenPcs, ClientPcs, Resting
  <2>2. CatsRight'
    BY <1>1, <1>3 DEF TargetsRight, CatsRight
  <2> QED
    BY <1>1, <1>3, <2>1, <2>2, TargetsStep DEF Exists
<1>8. UsersCounted'
  <2>1. \A s \in Sockets : t \in UsersOf(s)' <=> t \in UsersOf(s)
    BY <1>1, <1>3 DEF UsersOf, Inside
  <2>2. \A s \in Sockets : status'[s].n = status[s].n /\ status[s].n \in Int
    BY <1>1, <1>3 DEF SocketTypes
  <2> QED
    BY <1>1, <1>3, <2>1, <2>2, UsersStep DEF One
<1>9. ClosingRight'
  BY <1>1, <1>3, SameClosing DEF Exists
<1>10. EventsRight'
  BY <1>1, <1>3, SameEvents
<1>11. HandlerRight'
  BY <1>1, <1>3, SameHandler
<1>12. AddersRight'
  <2>1. AdderOk(t)'
    BY <1>1, <1>3 DEF AddersRight, AdderOk, AdderPcs, Known
  <2> QED
    BY <1>1, <1>3, <2>1, AddersStep DEF AddersRight, AdderOk, AdderPcs
<1>13. FdsRight'
  <2>1. FdMoves(t) /\ fd[t] # NULL /\ fd'[t] = NULL
    BY <1>1, <1>3 DEF FdMoves, OnlyMoves, FdsRight, FdPcs
  <2> QED
    BY <1>1, <1>3, <2>1, FdDropped DEF HasFd, SocketTypes
<1> QED
  BY <1>6, <1>7, <1>8, <1>9, <1>10, <1>11, <1>12, <1>13

\* The same in listen_task, which stays inside the order.
LEMMA NewFailsListenKeeps ==
  ASSUME IInv, NewFails(listen_task)
  PROVE  IInv'
<1> USE Basics DEF IInv
<1>1. /\ pc[listen_task] = "new" /\ tgt'[listen_task] = tgt[listen_task]
      /\ pc'[listen_task] =
           (IF fd_cat[tgt[listen_task]] = "LISTEN_SOCKET" THEN "accept" ELSE "connected")
      /\ lost' = lost \cup {fd[listen_task]} /\ fd[listen_task] \in open \ lost
      /\ \A u \in Threads : fd'[u] = IF u = listen_task THEN NULL ELSE fd[u]
      /\ UNCHANGED <<status, fd_cat, socket_fd, listener, piped, epoll, open, closer, cstep, dels,
         released, made, batch, events, frees>>
  BY DEF NewFails, At, Goto, Takes, AfterNew, SocketTypes, TargetsRight, TargetOk, ListenPcs, Resting,
      sockVars, kernelVars, closeVars, threadVars, taskVars, FdsRight, FdPcs
<1>2. pc' = [pc EXCEPT ![listen_task] = pc'[listen_task]]
      /\ tgt' = [tgt EXCEPT ![listen_task] = tgt'[listen_task]]
  BY DEF NewFails, At, Goto, Takes, AfterNew, SocketTypes
<1>3. OnlyMoves(listen_task)
  BY <1>1, <1>2 DEF OnlyMoves, SocketTypes, TargetsRight, TargetOk, ListenPcs, Resting
<1>4. pc' \in [Threads -> ListenPcs \cup ClientPcs] /\ tgt' \in [Threads -> Sockets \cup {NULL}]
  <2>1. pc'[listen_task] \in ListenPcs \cup ClientPcs /\ tgt'[listen_task] \in Sockets \cup {NULL}
    BY <1>1 DEF SocketTypes, TargetsRight, TargetOk, ListenPcs, ClientPcs, Resting
  <2> QED
    BY <1>2, <2>1, MovesTyped
<1>5. /\ fd' \in [Threads -> Fds \cup {NULL}]
  BY <1>1 DEF NewFails, At, Goto, Takes, AfterNew, SocketTypes
<1>6. SocketTypes'
  BY <1>1, <1>4, <1>5 DEF SocketTypes
<1>7. TargetsRight'
  <2>1. TargetOk(listen_task)'
    BY <1>1, <1>3 DEF TargetsRight, TargetOk, Exists, ListenPcs, ClientPcs, Resting
  <2>2. CatsRight'
    BY <1>1, <1>3 DEF TargetsRight, CatsRight
  <2> QED
    BY <1>1, <1>3, <2>1, <2>2, TargetsStep DEF Exists
<1>8. UsersCounted'
  <2>1. \A s \in Sockets : listen_task \in UsersOf(s)' <=> listen_task \in UsersOf(s)
    BY <1>1, <1>3 DEF UsersOf, Inside
  <2>2. \A s \in Sockets : status'[s].n = status[s].n /\ status[s].n \in Int
    BY <1>1, <1>3 DEF SocketTypes
  <2> QED
    BY <1>1, <1>3, <2>1, <2>2, UsersStep DEF One
<1>9. ClosingRight'
  BY <1>1, <1>3, SameClosing DEF Exists
<1>10. EventsRight'
  BY <1>1, <1>3, SameEvents
<1>11. HandlerRight'
  BY <1>1, <1>3 DEF HandlerRight, Known, Resting
<1>12. AddersRight'
  <2>1. AdderOk(listen_task)'
    BY <1>1, <1>3 DEF AddersRight, AdderOk, AdderPcs, Known
  <2> QED
    BY <1>1, <1>3, <2>1, AddersStep DEF AddersRight, AdderOk, AdderPcs
<1>13. FdsRight'
  <2>1. FdMoves(listen_task) /\ fd[listen_task] # NULL /\ fd'[listen_task] = NULL
    BY <1>1, <1>3 DEF FdMoves, OnlyMoves, FdsRight, FdPcs
  <2> QED
    BY <1>1, <1>3, <2>1, FdDropped DEF HasFd, SocketTypes
<1> QED
  BY <1>6, <1>7, <1>8, <1>9, <1>10, <1>11, <1>12, <1>13

\* A new connection gets the descriptor of a client.
LEMMA NewConnKeeps ==
  ASSUME IInv, NEW t \in Clients, NEW c \in Conns, NewConn(t, c)
  PROVE  IInv'
<1> USE Basics DEF IInv
<1>1. /\ pc[t] = "new" /\ pc'[t] = "ready" /\ tgt'[t] = tgt[t] /\ fd_cat[c] = "none"
      /\ \A r \in Sockets : fd_cat'[r] = IF r = c THEN "UNJOIN_SOCKET" ELSE fd_cat[r]
      /\ \A r \in Sockets : socket_fd'[r] = IF r = c THEN fd[t] ELSE socket_fd[r]
      /\ \A u \in Threads : fd'[u] = IF u = t THEN NULL ELSE fd[u]
      /\ \A u \in Threads : made'[u] = IF u = t THEN c ELSE made[u]
      /\ UNCHANGED <<status, listener, piped, epoll, open, lost, closer, cstep, dels, released,
         batch, events, frees>>
  BY DEF NewConn, At, Goto, Takes, SocketTypes, TargetsRight, TargetOk, ListenPcs, Resting, sockVars,
      kernelVars, closeVars, threadVars, taskVars, Exists
<1>2. pc' = [pc EXCEPT ![t] = pc'[t]] /\ tgt' = [tgt EXCEPT ![t] = tgt'[t]]
  BY DEF NewConn, At, Goto, Takes, SocketTypes
<1>3. OnlyMoves(t) /\ t # listen_task /\ pc'[listen_task] = pc[listen_task]
      /\ tgt'[listen_task] = tgt[listen_task]
  BY <1>1, <1>2 DEF OnlyMoves, SocketTypes, TargetsRight, TargetOk, ListenPcs, Resting
<1>4. pc' \in [Threads -> ListenPcs \cup ClientPcs] /\ tgt' \in [Threads -> Sockets \cup {NULL}]
  <2>1. pc'[t] \in ListenPcs \cup ClientPcs /\ tgt'[t] \in Sockets \cup {NULL}
    BY <1>1 DEF SocketTypes, TargetsRight, TargetOk, ListenPcs, ClientPcs, Resting
  <2> QED
    BY <1>2, <2>1, MovesTyped
<1>5. /\ fd_cat' \in [Sockets -> Cats \cup {"none"}]
      /\ fd' \in [Threads -> Fds \cup {NULL}]
      /\ socket_fd' \in [Sockets -> Fds \cup {NULL}]
      /\ made' \in [Threads -> Conns \cup {NULL}]
  BY <1>1 DEF NewConn, At, Goto, Takes, SocketTypes, Cats
<1>6. /\ c \notin epoll /\ \A e \in batch : e.s # c
      /\ \A u \in Threads : tgt[u] # c
      /\ cstep[c] = "no"
  <2>1. c \notin epoll /\ \A e \in batch : e.s # c
    BY <1>1 DEF EventsRight, EventCats
  <2>2. \A u \in Threads : tgt[u] # c
    BY <1>1 DEF TargetsRight, TargetOk, Exists
  <2>3. cstep[c] = "no"
    BY <1>1 DEF ClosingRight, STATUS_LEGAL_CLOSED
  <2> QED
    BY <2>1, <2>2, <2>3
<1>7. SocketTypes'
  BY <1>1, <1>4, <1>5 DEF SocketTypes
<1>8. TargetsRight'
  <2>1. TargetOk(t)'
    BY <1>1, <1>3 DEF TargetsRight, TargetOk, Exists, ListenPcs, ClientPcs, Resting
  <2>2. CatsRight'
    BY <1>1, <1>3 DEF TargetsRight, CatsRight
  <2> QED
    BY <1>1, <1>3, <2>1, <2>2, TargetsStep DEF Exists
<1>9. UsersCounted'
  <2>1. \A s \in Sockets : t \in UsersOf(s)' <=> t \in UsersOf(s)
    BY <1>1, <1>3 DEF UsersOf, Inside
  <2>2. \A s \in Sockets : status'[s].n = status[s].n /\ status[s].n \in Int
    BY <1>1, <1>3 DEF SocketTypes
  <2> QED
    BY <1>1, <1>3, <2>1, <2>2, UsersStep DEF One
<1>10. ClosingRight'
  BY <1>1, <1>3, SameClosing DEF Exists
<1>11. EventsRight'
  BY <1>1, <1>3, SameEvents, <1>6 DEF SocketTypes
<1>12. HandlerRight'
  BY <1>1, <1>3, SameHandler, <1>6, HandlerHas
<1>13. AddersRight'
  <2>1. AdderOk(t)'
    BY <1>1, <1>3, <1>6 DEF AddersRight, AdderOk, AdderPcs, Known
  <2> QED
    BY <1>1, <1>3, <2>1, AddersStep, <1>6
    DEF AddersRight, AdderOk, AdderPcs, TargetsRight, TargetOk, Resting
<1>14. FdsRight'
  <2>1. FdMoves(t) /\ fd[t] # NULL /\ fd'[t] = NULL
    BY <1>1, <1>3 DEF FdMoves, OnlyMoves, FdsRight, FdPcs
  <2>2. ~HasFd(c) /\ HasFd(c)' /\ \A r \in Sockets \ {c} : HasFd(r)' <=> HasFd(r)
    BY <1>1, <1>3, <1>6 DEF HasFd
  <2>3. NULL \notin open
    BY DEF SocketTypes
  <2> QED
    BY <1>1, <1>3, <2>1, <2>2, <2>3, FdGiven
<1> QED
  BY <1>7, <1>8, <1>9, <1>10, <1>11, <1>12, <1>13, <1>14

\* The same for one that listen_task makes of an order.
LEMMA NewConnListenKeeps ==
  ASSUME IInv, NEW c \in Conns, NewConn(listen_task, c)
  PROVE  IInv'
<1> USE Basics DEF IInv
<1>1. /\ pc[listen_task] = "new" /\ pc'[listen_task] = "ready"
      /\ tgt'[listen_task] = tgt[listen_task] /\ fd_cat[c] = "none"
      /\ \A r \in Sockets : fd_cat'[r] = IF r = c THEN "UNJOIN_SOCKET" ELSE fd_cat[r]
      /\ \A r \in Sockets : socket_fd'[r] = IF r = c THEN fd[listen_task] ELSE socket_fd[r]
      /\ \A u \in Threads : fd'[u] = IF u = listen_task THEN NULL ELSE fd[u]
      /\ \A u \in Threads : made'[u] = IF u = listen_task THEN c ELSE made[u]
      /\ UNCHANGED <<status, listener, piped, epoll, open, lost, closer, cstep, dels, released,
         batch, events, frees>>
  BY DEF NewConn, At, Goto, Takes, SocketTypes, TargetsRight, TargetOk, ListenPcs, Resting, sockVars,
      kernelVars, closeVars, threadVars, taskVars, Exists
<1>2. pc' = [pc EXCEPT ![listen_task] = pc'[listen_task]]
      /\ tgt' = [tgt EXCEPT ![listen_task] = tgt'[listen_task]]
  BY DEF NewConn, At, Goto, Takes, SocketTypes
<1>3. OnlyMoves(listen_task)
  BY <1>1, <1>2 DEF OnlyMoves, SocketTypes, TargetsRight, TargetOk, ListenPcs, Resting
<1>4. pc' \in [Threads -> ListenPcs \cup ClientPcs] /\ tgt' \in [Threads -> Sockets \cup {NULL}]
  <2>1. pc'[listen_task] \in ListenPcs \cup ClientPcs /\ tgt'[listen_task] \in Sockets \cup {NULL}
    BY <1>1 DEF SocketTypes, TargetsRight, TargetOk, ListenPcs, ClientPcs, Resting
  <2> QED
    BY <1>2, <2>1, MovesTyped
<1>5. /\ fd_cat' \in [Sockets -> Cats \cup {"none"}]
      /\ fd' \in [Threads -> Fds \cup {NULL}]
      /\ socket_fd' \in [Sockets -> Fds \cup {NULL}]
      /\ made' \in [Threads -> Conns \cup {NULL}]
  BY <1>1 DEF NewConn, At, Goto, Takes, SocketTypes, Cats
<1>6. /\ c \notin epoll /\ \A e \in batch : e.s # c
      /\ \A u \in Threads : tgt[u] # c
      /\ cstep[c] = "no"
  <2>1. c \notin epoll /\ \A e \in batch : e.s # c
    BY <1>1 DEF EventsRight, EventCats
  <2>2. \A u \in Threads : tgt[u] # c
    BY <1>1 DEF TargetsRight, TargetOk, Exists
  <2>3. cstep[c] = "no"
    BY <1>1 DEF ClosingRight, STATUS_LEGAL_CLOSED
  <2> QED
    BY <2>1, <2>2, <2>3
<1>7. SocketTypes'
  BY <1>1, <1>4, <1>5 DEF SocketTypes
<1>8. TargetsRight'
  <2>1. TargetOk(listen_task)'
    BY <1>1, <1>3 DEF TargetsRight, TargetOk, Exists, ListenPcs, ClientPcs, Resting
  <2>2. CatsRight'
    BY <1>1, <1>3 DEF TargetsRight, CatsRight
  <2> QED
    BY <1>1, <1>3, <2>1, <2>2, TargetsStep DEF Exists
<1>9. UsersCounted'
  <2>1. \A s \in Sockets : listen_task \in UsersOf(s)' <=> listen_task \in UsersOf(s)
    BY <1>1, <1>3 DEF UsersOf, Inside
  <2>2. \A s \in Sockets : status'[s].n = status[s].n /\ status[s].n \in Int
    BY <1>1, <1>3 DEF SocketTypes
  <2> QED
    BY <1>1, <1>3, <2>1, <2>2, UsersStep DEF One
<1>10. ClosingRight'
  BY <1>1, <1>3, SameClosing DEF Exists
<1>11. EventsRight'
  BY <1>1, <1>3, SameEvents, <1>6 DEF SocketTypes
<1>12. HandlerRight'
  BY <1>1, <1>3, <1>6, HandlerHas DEF HandlerRight, Known, Resting
<1>13. AddersRight'
  <2>1. AdderOk(listen_task)'
    BY <1>1, <1>3, <1>6 DEF AddersRight, AdderOk, AdderPcs, Known
  <2> QED
    BY <1>1, <1>3, <2>1, AddersStep, <1>6
    DEF AddersRight, AdderOk, AdderPcs, TargetsRight, TargetOk, Resting
<1>14. FdsRight'
  <2>1. FdMoves(listen_task) /\ fd[listen_task] # NULL /\ fd'[listen_task] = NULL
    BY <1>1, <1>3 DEF FdMoves, OnlyMoves, FdsRight, FdPcs
  <2>2. ~HasFd(c) /\ HasFd(c)' /\ \A r \in Sockets \ {c} : HasFd(r)' <=> HasFd(r)
    BY <1>1, <1>3, <1>6 DEF HasFd
  <2>3. NULL \notin open
    BY DEF SocketTypes
  <2> QED
    BY <1>1, <1>3, <2>1, <2>2, <2>3, FdGiven
<1> QED
  BY <1>7, <1>8, <1>9, <1>10, <1>11, <1>12, <1>13, <1>14

\* A client closes the connection that on_ready does not take.
LEMMA on_readyKeeps ==
  ASSUME IInv, NEW t \in Clients, on_ready(t)
  PROVE  IInv'
<1> USE Basics DEF IInv
<1>1. /\ pc[t] = "ready" /\ tgt'[t] = tgt[t]
      /\ pc'[t] = "addr_error"
      /\ made[t] \in Sockets /\ fd_cat[made[t]] # "none"
      /\ set_status_closed(t, made[t]) \/ UNCHANGED <<status, closeVars>>
      /\ \A u \in Threads : made'[u] = IF u = t THEN NULL ELSE made[u]
      /\ UNCHANGED <<fd_cat, socket_fd, listener, piped, epoll, open, lost, fd, batch, events,
         frees>>
  BY DEF on_ready, At, Goto, Takes, AfterNew, SocketTypes, TargetsRight, TargetOk, ListenPcs, Resting,
      sockVars, kernelVars, closeVars, threadVars, taskVars, Exists
<1>2. pc' = [pc EXCEPT ![t] = pc'[t]] /\ tgt' = [tgt EXCEPT ![t] = tgt'[t]]
  BY DEF on_ready, At, Goto, Takes, AfterNew, SocketTypes
<1>3. OnlyMoves(t) /\ t # listen_task /\ pc'[listen_task] = pc[listen_task]
      /\ tgt'[listen_task] = tgt[listen_task]
  BY <1>1, <1>2 DEF OnlyMoves, SocketTypes, TargetsRight, TargetOk, ListenPcs, Resting
<1>4. pc' \in [Threads -> ListenPcs \cup ClientPcs] /\ tgt' \in [Threads -> Sockets \cup {NULL}]
  <2>1. pc'[t] \in ListenPcs \cup ClientPcs /\ tgt'[t] \in Sockets \cup {NULL}
    BY <1>1 DEF SocketTypes, TargetsRight, TargetOk, ListenPcs, ClientPcs, Resting
  <2> QED
    BY <1>2, <2>1, MovesTyped
<1>5. /\ made' \in [Threads -> Conns \cup {NULL}]
  BY <1>1 DEF on_ready, At, Goto, Takes, AfterNew, SocketTypes
<1>6. /\ status' \in [Sockets -> Words] /\ ClosingRight' /\ MayClose
      /\ \A r \in Sockets : status'[r].n = status[r].n
  BY <1>1, <1>3, ClosesOrNot DEF SamePhase, Exists, Resting
<1>7. SocketTypes'
  BY <1>1, <1>4, <1>5, <1>6 DEF SocketTypes, MayClose, Words
<1>8. TargetsRight'
  <2>1. TargetOk(t)'
    BY <1>1, <1>3 DEF TargetsRight, TargetOk, Exists, ListenPcs, ClientPcs, Resting
  <2>2. CatsRight'
    BY <1>1, <1>3 DEF TargetsRight, CatsRight
  <2> QED
    BY <1>1, <1>3, <2>1, <2>2, TargetsStep DEF Exists
<1>9. UsersCounted'
  <2>1. \A s \in Sockets : t \in UsersOf(s)' <=> t \in UsersOf(s)
    BY <1>1, <1>3 DEF UsersOf, Inside
  <2>2. \A s \in Sockets : status'[s].n = status[s].n /\ status[s].n \in Int
    BY <1>1, <1>3, <1>6 DEF SocketTypes
  <2> QED
    BY <1>1, <1>3, <2>1, <2>2, UsersStep DEF One
<1>10. ClosingRight'
  BY <1>6
<1>11. EventsRight'
  BY <1>1, <1>3, SameEvents, <1>6 DEF MayClose, SocketTypes
<1>12. HandlerRight'
  BY <1>1, <1>3, SameHandler, <1>6 DEF MayClose
<1>13. AddersRight'
  <2>1. AdderOk(t)'
    BY <1>1, <1>3 DEF AddersRight, AdderOk, AdderPcs, Known
  <2> QED
    BY <1>1, <1>3, <2>1, AddersStep DEF AddersRight, AdderOk, AdderPcs
<1>14. FdsRight'
  BY <1>1, <1>3, SameFds, <1>6 DEF HasFd, FdPcs, OnlyMoves, MayClose
<1> QED
  BY <1>7, <1>8, <1>9, <1>10, <1>11, <1>12, <1>13, <1>14

\* listen_task does the same and stays inside the order.
LEMMA on_readyListenKeeps ==
  ASSUME IInv, on_ready(listen_task)
  PROVE  IInv'
<1> USE Basics DEF IInv
<1>1. /\ pc[listen_task] = "ready" /\ tgt'[listen_task] = tgt[listen_task]
      /\ pc'[listen_task] = (IF fd_cat[tgt[listen_task]] = "LISTEN_SOCKET" THEN "accept" ELSE
         "connected")
      /\ made[listen_task] \in Sockets /\ fd_cat[made[listen_task]] # "none"
      /\ set_status_closed(listen_task, made[listen_task]) \/ UNCHANGED <<status, closeVars>>
      /\ \A u \in Threads : made'[u] = IF u = listen_task THEN NULL ELSE made[u]
      /\ UNCHANGED <<fd_cat, socket_fd, listener, piped, epoll, open, lost, fd, batch, events,
         frees>>
  BY DEF on_ready, At, Goto, Takes, AfterNew, SocketTypes, TargetsRight, TargetOk, ListenPcs, Resting,
      sockVars, kernelVars, closeVars, threadVars, taskVars, Exists
<1>2. pc' = [pc EXCEPT ![listen_task] = pc'[listen_task]]
      /\ tgt' = [tgt EXCEPT ![listen_task] = tgt'[listen_task]]
  BY DEF on_ready, At, Goto, Takes, AfterNew, SocketTypes
<1>3. OnlyMoves(listen_task)
  BY <1>1, <1>2 DEF OnlyMoves, SocketTypes, TargetsRight, TargetOk, ListenPcs, Resting
<1>4. pc' \in [Threads -> ListenPcs \cup ClientPcs] /\ tgt' \in [Threads -> Sockets \cup {NULL}]
  <2>1. pc'[listen_task] \in ListenPcs \cup ClientPcs /\ tgt'[listen_task] \in Sockets \cup {NULL}
    BY <1>1 DEF SocketTypes, TargetsRight, TargetOk, ListenPcs, ClientPcs, Resting
  <2> QED
    BY <1>2, <2>1, MovesTyped
<1>5. /\ made' \in [Threads -> Conns \cup {NULL}]
  BY <1>1 DEF on_ready, At, Goto, Takes, AfterNew, SocketTypes
<1>6. /\ status' \in [Sockets -> Words] /\ ClosingRight' /\ MayClose
      /\ \A r \in Sockets : status'[r].n = status[r].n
  BY <1>1, <1>3, ClosesOrNot DEF SamePhase, Exists, Resting
<1>7. SocketTypes'
  BY <1>1, <1>4, <1>5, <1>6 DEF SocketTypes, MayClose, Words
<1>8. TargetsRight'
  <2>1. TargetOk(listen_task)'
    BY <1>1, <1>3 DEF TargetsRight, TargetOk, Exists, ListenPcs, ClientPcs, Resting
  <2>2. CatsRight'
    BY <1>1, <1>3 DEF TargetsRight, CatsRight
  <2> QED
    BY <1>1, <1>3, <2>1, <2>2, TargetsStep DEF Exists
<1>9. UsersCounted'
  <2>1. \A s \in Sockets : listen_task \in UsersOf(s)' <=> listen_task \in UsersOf(s)
    BY <1>1, <1>3 DEF UsersOf, Inside
  <2>2. \A s \in Sockets : status'[s].n = status[s].n /\ status[s].n \in Int
    BY <1>1, <1>3, <1>6 DEF SocketTypes
  <2> QED
    BY <1>1, <1>3, <2>1, <2>2, UsersStep DEF One
<1>10. ClosingRight'
  BY <1>6
<1>11. EventsRight'
  BY <1>1, <1>3, SameEvents, <1>6 DEF MayClose, SocketTypes
<1>12. HandlerRight'
  BY <1>1, <1>3, <1>6 DEF HandlerRight, Known, Resting, MayClose
<1>13. AddersRight'
  <2>1. AdderOk(listen_task)'
    BY <1>1, <1>3 DEF AddersRight, AdderOk, AdderPcs, Known
  <2> QED
    BY <1>1, <1>3, <2>1, AddersStep DEF AddersRight, AdderOk, AdderPcs
<1>14. FdsRight'
  BY <1>1, <1>3, SameFds, <1>6 DEF HasFd, FdPcs, OnlyMoves, MayClose
<1> QED
  BY <1>7, <1>8, <1>9, <1>10, <1>11, <1>12, <1>13, <1>14

\* A client enters a connection that is not closed.
LEMMA BeginKeeps ==
  ASSUME IInv, NEW t \in Clients, NEW c \in Conns, Begin(t, c)
  PROVE  IInv'
<1> USE Basics DEF IInv
<1>1. /\ pc[t] = "idle" /\ pc'[t] \in {"leave", "start"} /\ tgt'[t] = c /\ c \in Conns /\ fd_cat[c]
         # "none" /\ ~IsClosed(status[c])
      /\ useing_ref_inc(c)
      /\ UNCHANGED <<fd_cat, socket_fd, listener, piped, epoll, open, lost, closer, cstep, dels,
         released, fd, made, batch, events, frees>>
  BY DEF Begin, At, Goto, Takes, Reaches, MayEnter, SocketTypes, TargetsRight, TargetOk, ListenPcs,
      Resting, sockVars, kernelVars, closeVars, threadVars, taskVars, Exists
<1>2. pc' = [pc EXCEPT ![t] = pc'[t]] /\ tgt' = [tgt EXCEPT ![t] = tgt'[t]]
  BY DEF Begin, At, Goto, Takes, Reaches, MayEnter, SocketTypes
<1>3. OnlyMoves(t) /\ t # listen_task /\ pc'[listen_task] = pc[listen_task]
      /\ tgt'[listen_task] = tgt[listen_task]
  BY <1>1, <1>2 DEF OnlyMoves, SocketTypes, TargetsRight, TargetOk, ListenPcs, Resting
<1>4. pc' \in [Threads -> ListenPcs \cup ClientPcs] /\ tgt' \in [Threads -> Sockets \cup {NULL}]
  <2>1. pc'[t] \in ListenPcs \cup ClientPcs /\ tgt'[t] \in Sockets \cup {NULL}
    BY <1>1 DEF SocketTypes, TargetsRight, TargetOk, ListenPcs, ClientPcs, Resting
  <2> QED
    BY <1>2, <2>1, MovesTyped
<1>5. /\ status' \in [Sockets -> Words] /\ ClosingRight'
      /\ \A r \in Sockets : status'[r].n = (IF r = c THEN status[r].n + 1 ELSE status[r].n)
  BY <1>1, <1>3, IncCalls DEF SamePhase, Exists, closeVars
<1>6. SocketTypes'
  BY <1>1, <1>4, <1>5 DEF SocketTypes, Words
<1>7. TargetsRight'
  <2>1. TargetOk(t)'
    BY <1>1, <1>3 DEF TargetsRight, TargetOk, Exists, ListenPcs, ClientPcs, Resting
  <2>2. CatsRight'
    BY <1>1, <1>3 DEF TargetsRight, CatsRight
  <2> QED
    BY <1>1, <1>3, <2>1, <2>2, TargetsStep DEF Exists
<1>8. UsersCounted'
  <2>1. \A r \in Sockets : t \notin UsersOf(r) /\ (t \in UsersOf(r)' <=> r = c)
    BY <1>1, <1>3 DEF UsersOf, Inside
  <2>2. \A r \in Sockets : status'[r].n = (IF r = c THEN status[r].n + 1 ELSE status[r].n) /\
     status[r].n \in Int
    BY <1>5 DEF SocketTypes
  <2> QED
    BY <1>1, <1>3, <2>1, <2>2, UsersStep DEF One
<1>9. ClosingRight'
  BY <1>5
<1>10. EventsRight'
  BY <1>1, <1>3, SameEvents
<1>11. HandlerRight'
  BY <1>1, <1>3, SameHandler
<1>12. AddersRight'
  <2>1. AdderOk(t)'
    BY <1>1, <1>3 DEF AddersRight, AdderOk, AdderPcs, Known
  <2> QED
    BY <1>1, <1>3, <2>1, AddersStep DEF AddersRight, AdderOk, AdderPcs
<1>13. FdsRight'
  BY <1>1, <1>3, SameFds DEF HasFd, FdPcs, OnlyMoves
<1> QED
  BY <1>6, <1>7, <1>8, <1>9, <1>10, <1>11, <1>12, <1>13

\* The caller that joins the connection is the only one to register it.
LEMMA StartSwapKeeps ==
  ASSUME IInv, NEW t \in Threads, StartSwap(t)
  PROVE  IInv'
<1> USE Basics DEF IInv
<1>1. /\ pc[t] = "start" /\ tgt'[t] = tgt[t] /\ tgt[t] \in Conns
      /\ \A r \in Sockets : fd_cat'[r] = IF r = tgt[t] /\ fd_cat[r] = "UNJOIN_SOCKET" THEN
         "JOIN_SOCKET" ELSE fd_cat[r]
      /\ pc'[t] = IF fd_cat[tgt[t]] = "UNJOIN_SOCKET" THEN "listener" ELSE "leave"
      /\ UNCHANGED <<status, socket_fd, listener, piped, epoll, open, lost, closer, cstep, dels,
         released, fd, made, batch, events, frees>>
  BY DEF StartSwap, At, Goto, Takes, SocketTypes, TargetsRight, TargetOk, ListenPcs, Resting, sockVars,
      kernelVars, closeVars, threadVars, taskVars
<1>2. pc' = [pc EXCEPT ![t] = pc'[t]] /\ tgt' = [tgt EXCEPT ![t] = tgt'[t]]
  BY DEF StartSwap, At, Goto, Takes, SocketTypes
<1>3. OnlyMoves(t) /\ t # listen_task /\ pc'[listen_task] = pc[listen_task]
      /\ tgt'[listen_task] = tgt[listen_task]
  BY <1>1, <1>2 DEF OnlyMoves, SocketTypes, TargetsRight, TargetOk, ListenPcs, Resting
<1>4. pc' \in [Threads -> ListenPcs \cup ClientPcs] /\ tgt' \in [Threads -> Sockets \cup {NULL}]
  <2>1. pc'[t] \in ListenPcs \cup ClientPcs /\ tgt'[t] \in Sockets \cup {NULL}
    BY <1>1 DEF SocketTypes, TargetsRight, TargetOk, ListenPcs, ClientPcs, Resting
  <2> QED
    BY <1>2, <2>1, MovesTyped
<1>5. /\ fd_cat' \in [Sockets -> Cats \cup {"none"}]
  BY <1>1 DEF StartSwap, At, Goto, Takes, SocketTypes, Cats
<1>6. fd_cat[tgt[t]] = "UNJOIN_SOCKET" =>
        /\ tgt[t] \notin epoll /\ tgt[t] # tgt[listen_task] /\ \A e \in batch : e.s # tgt[t]
        /\ \A u \in Threads : pc[u] \in AdderPcs => tgt[u] # tgt[t]
  <2>1. fd_cat[tgt[t]] = "UNJOIN_SOCKET" =>
          /\ tgt[t] \notin epoll /\ \A e \in batch : e.s # tgt[t]
          /\ \A u \in Threads : pc[u] \in AdderPcs => tgt[u] # tgt[t]
    BY <1>1 DEF EventsRight, EventCats, AddersRight, AdderOk, AdderPcs
  <2>2. fd_cat[tgt[t]] = "UNJOIN_SOCKET" => tgt[t] # tgt[listen_task]
    BY <1>1 DEF HandlerRight, EventCats, TargetsRight, TargetOk
  <2> QED
    BY <2>1, <2>2
<1>7. cstep[tgt[t]] = "no"
  BY <1>1, UserKeepsOpen DEF UsersOf, Inside
<1>8. SocketTypes'
  BY <1>1, <1>4, <1>5 DEF SocketTypes
<1>9. TargetsRight'
  <2>1. TargetOk(t)'
    BY <1>1, <1>3 DEF TargetsRight, TargetOk, Exists, ListenPcs, ClientPcs, Resting
  <2>2. CatsRight'
    BY <1>1, <1>3 DEF TargetsRight, CatsRight
  <2> QED
    BY <1>1, <1>3, <2>1, <2>2, TargetsStep DEF Exists
<1>10. UsersCounted'
  <2>1. \A s \in Sockets : t \in UsersOf(s)' <=> t \in UsersOf(s)
    BY <1>1, <1>3 DEF UsersOf, Inside
  <2>2. \A s \in Sockets : status'[s].n = status[s].n /\ status[s].n \in Int
    BY <1>1, <1>3 DEF SocketTypes
  <2> QED
    BY <1>1, <1>3, <2>1, <2>2, UsersStep DEF One
<1>11. ClosingRight'
  BY <1>1, <1>3, SameClosing DEF Exists
<1>12. EventsRight'
  BY <1>1, <1>3, SameEvents, <1>6 DEF SocketTypes
<1>13. HandlerRight'
  BY <1>1, <1>3, SameHandler, <1>6, HandlerHas
<1>14. AddersRight'
  <2>1. AdderOk(t)'
    BY <1>1, <1>3, <1>6 DEF AddersRight, AdderOk, AdderPcs, Known
  <2> QED
    BY <1>1, <1>3, <2>1, AddersStep, <1>6
    DEF AddersRight, AdderOk, AdderPcs, TargetsRight, TargetOk, Resting
<1>15. FdsRight'
  <2>1. \A r \in Sockets : HasFd(r)' <=> HasFd(r)
    BY <1>1, <1>3, <1>7 DEF HasFd
  <2> QED
    BY <1>1, <1>3, <2>1, SameFds DEF FdPcs, OnlyMoves
<1> QED
  BY <1>8, <1>9, <1>10, <1>11, <1>12, <1>13, <1>14, <1>15

\* The listener is known, or the pipe closed, before epoll is told.
LEMMA StartListenerKeeps ==
  ASSUME IInv, NEW t \in Threads, StartListener(t)
  PROVE  IInv'
<1> USE Basics DEF IInv
<1>1. /\ pc[t] = "listener" /\ pc'[t] = "add" /\ tgt'[t] = tgt[t] /\ tgt[t] \in Conns
      /\ listener' = IF tgt[t] \in piped THEN listener ELSE listener \cup {tgt[t]}
      /\ UNCHANGED <<status, fd_cat, socket_fd, piped, epoll, open, lost, closer, cstep, dels,
         released, fd, made, batch, events, frees>>
  BY DEF StartListener, At, Goto, Takes, SocketTypes, TargetsRight, TargetOk, ListenPcs, Resting,
      sockVars, kernelVars, closeVars, threadVars, taskVars
<1>2. pc' = [pc EXCEPT ![t] = pc'[t]] /\ tgt' = [tgt EXCEPT ![t] = tgt'[t]]
  BY DEF StartListener, At, Goto, Takes, SocketTypes
<1>3. OnlyMoves(t) /\ t # listen_task /\ pc'[listen_task] = pc[listen_task]
      /\ tgt'[listen_task] = tgt[listen_task]
  BY <1>1, <1>2 DEF OnlyMoves, SocketTypes, TargetsRight, TargetOk, ListenPcs, Resting
<1>4. pc' \in [Threads -> ListenPcs \cup ClientPcs] /\ tgt' \in [Threads -> Sockets \cup {NULL}]
  <2>1. pc'[t] \in ListenPcs \cup ClientPcs /\ tgt'[t] \in Sockets \cup {NULL}
    BY <1>1 DEF SocketTypes, TargetsRight, TargetOk, ListenPcs, ClientPcs, Resting
  <2> QED
    BY <1>2, <2>1, MovesTyped
<1>5. SocketTypes'
  BY <1>1, <1>4 DEF SocketTypes
<1>6. TargetsRight'
  <2>1. TargetOk(t)'
    BY <1>1, <1>3 DEF TargetsRight, TargetOk, Exists, ListenPcs, ClientPcs, Resting
  <2>2. CatsRight'
    BY <1>1, <1>3 DEF TargetsRight, CatsRight
  <2> QED
    BY <1>1, <1>3, <2>1, <2>2, TargetsStep DEF Exists
<1>7. UsersCounted'
  <2>1. \A s \in Sockets : t \in UsersOf(s)' <=> t \in UsersOf(s)
    BY <1>1, <1>3 DEF UsersOf, Inside
  <2>2. \A s \in Sockets : status'[s].n = status[s].n /\ status[s].n \in Int
    BY <1>1, <1>3 DEF SocketTypes
  <2> QED
    BY <1>1, <1>3, <2>1, <2>2, UsersStep DEF One
<1>8. ClosingRight'
  BY <1>1, <1>3, SameClosing DEF Exists
<1>9. EventsRight'
  BY <1>1, <1>3, SameEvents
<1>10. HandlerRight'
  BY <1>1, <1>3, SameHandler
<1>11. AddersRight'
  <2>1. AdderOk(t)'
    BY <1>1, <1>3 DEF AddersRight, AdderOk, AdderPcs, Known, EventCats
  <2> QED
    BY <1>1, <1>3, <2>1, AddersStep DEF AddersRight, AdderOk, AdderPcs
<1>12. FdsRight'
  BY <1>1, <1>3, SameFds DEF HasFd, FdPcs, OnlyMoves
<1> QED
  BY <1>5, <1>6, <1>7, <1>8, <1>9, <1>10, <1>11, <1>12

\* A client closes a connection that listen_task may be working on.
LEMMA socket_closeKeeps ==
  ASSUME IInv, NEW t \in Clients, NEW c \in Conns, socket_close(t, c)
  PROVE  IInv'
<1> USE Basics DEF IInv
<1>1. /\ fd_cat[c] # "none"
      /\ set_status_closed(t, c)
      /\ UNCHANGED <<fd_cat, socket_fd, listener, piped, epoll, open, lost, pc, tgt, fd, made,
         batch, events, frees>>
  BY DEF socket_close, At, Goto, Takes, Reaches, SocketTypes, TargetsRight, TargetOk, ListenPcs,
      Resting, sockVars, kernelVars, closeVars, threadVars, taskVars, Exists
<1>2. /\ status' \in [Sockets -> Words] /\ ClosingRight' /\ MayClose
      /\ \A r \in Sockets : status'[r].n = status[r].n
  BY <1>1, ClosesOrNot DEF SamePhase, Exists
<1>3. SocketTypes'
  BY <1>1, <1>2 DEF SocketTypes, MayClose, Words
<1>4. TargetsRight'
  BY <1>1 DEF TargetsRight, CatsRight, TargetOk, Exists
<1>5. UsersCounted'
  BY <1>1, <1>2 DEF UsersCounted, UsersOf, Inside
<1>6. ClosingRight'
  BY <1>2
<1>7. EventsRight'
  BY <1>1, SameEvents, <1>2 DEF MayClose, SocketTypes
<1>8. HandlerRight'
  BY <1>1, SameHandler, <1>2 DEF MayClose
<1>9. AddersRight'
  BY <1>1 DEF AddersRight, AdderOk, Known
<1>10. FdsRight'
  BY <1>1, SameFds, <1>2 DEF HasFd, FdPcs, MayClose
<1> QED
  BY <1>3, <1>4, <1>5, <1>6, <1>7, <1>8, <1>9, <1>10

\* The pipe of a socket is closed, and the socket is going to be.
LEMMA ClientCloseKeeps ==
  ASSUME IInv, NEW t \in Clients, NEW s \in Sockets, ClientClose(t, s)
  PROVE  IInv'
<1> USE Basics DEF IInv
<1>1. /\ pc[t] = "idle" /\ pc'[t] = "addr_error" /\ tgt'[t] = s /\ fd_cat[s] # "none"
      /\ piped' = piped \cup {s}
      /\ UNCHANGED <<status, fd_cat, socket_fd, listener, epoll, open, lost, closer, cstep, dels,
         released, fd, made, batch, events, frees>>
  BY DEF ClientClose, At, Goto, Takes, Reaches, SocketTypes, TargetsRight, TargetOk, ListenPcs,
      Resting, sockVars, kernelVars, closeVars, threadVars, taskVars, Exists
<1>2. pc' = [pc EXCEPT ![t] = pc'[t]] /\ tgt' = [tgt EXCEPT ![t] = tgt'[t]]
  BY DEF ClientClose, At, Goto, Takes, Reaches, SocketTypes
<1>3. OnlyMoves(t) /\ t # listen_task /\ pc'[listen_task] = pc[listen_task]
      /\ tgt'[listen_task] = tgt[listen_task]
  BY <1>1, <1>2 DEF OnlyMoves, SocketTypes, TargetsRight, TargetOk, ListenPcs, Resting
<1>4. pc' \in [Threads -> ListenPcs \cup ClientPcs] /\ tgt' \in [Threads -> Sockets \cup {NULL}]
  <2>1. pc'[t] \in ListenPcs \cup ClientPcs /\ tgt'[t] \in Sockets \cup {NULL}
    BY <1>1 DEF SocketTypes, TargetsRight, TargetOk, ListenPcs, ClientPcs, Resting
  <2> QED
    BY <1>2, <2>1, MovesTyped
<1>5. SocketTypes'
  BY <1>1, <1>4 DEF SocketTypes
<1>6. TargetsRight'
  <2>1. TargetOk(t)'
    BY <1>1, <1>3 DEF TargetsRight, TargetOk, Exists, ListenPcs, ClientPcs, Resting
  <2>2. CatsRight'
    BY <1>1, <1>3 DEF TargetsRight, CatsRight
  <2> QED
    BY <1>1, <1>3, <2>1, <2>2, TargetsStep DEF Exists
<1>7. UsersCounted'
  <2>1. \A r \in Sockets : t \in UsersOf(r)' <=> t \in UsersOf(r)
    BY <1>1, <1>3 DEF UsersOf, Inside
  <2>2. \A r \in Sockets : status'[r].n = status[r].n /\ status[r].n \in Int
    BY <1>1, <1>3 DEF SocketTypes
  <2> QED
    BY <1>1, <1>3, <2>1, <2>2, UsersStep DEF One
<1>8. ClosingRight'
  BY <1>1, <1>3, SameClosing DEF Exists
<1>9. EventsRight'
  BY <1>1, <1>3, SameEvents
<1>10. HandlerRight'
  BY <1>1, <1>3, SameHandler
<1>11. AddersRight'
  <2>1. AdderOk(t)'
    BY <1>1, <1>3 DEF AddersRight, AdderOk, AdderPcs, Known
  <2> QED
    BY <1>1, <1>3, <2>1, AddersStep DEF AddersRight, AdderOk, AdderPcs
<1>12. FdsRight'
  BY <1>1, <1>3, SameFds DEF HasFd, FdPcs, OnlyMoves
<1> QED
  BY <1>5, <1>6, <1>7, <1>8, <1>9, <1>10, <1>11, <1>12

\* What epoll gives is registered, so that it is not released.
LEMMA EpollWaitKeeps ==
  ASSUME IInv, EpollWait
  PROVE  IInv'
<1> USE Basics DEF IInv
<1>1. /\ pc[listen_task] = "wait" /\ pc'[listen_task] = "next" /\ tgt'[listen_task] = NULL
      /\ UNCHANGED <<status, fd_cat, socket_fd, listener, piped, epoll, open, lost, closer, cstep,
         dels, released, fd, made, events, frees>>
  BY DEF EpollWait, At, Goto, Takes, SocketTypes, TargetsRight, TargetOk, ListenPcs, Resting, sockVars,
      kernelVars, closeVars, threadVars, taskVars
<1>2. pc' = [pc EXCEPT ![listen_task] = pc'[listen_task]]
      /\ tgt' = [tgt EXCEPT ![listen_task] = tgt'[listen_task]]
  BY DEF EpollWait, At, Goto, Takes, SocketTypes
<1>3. OnlyMoves(listen_task)
  BY <1>1, <1>2 DEF OnlyMoves, SocketTypes, TargetsRight, TargetOk, ListenPcs, Resting
<1>4. pc' \in [Threads -> ListenPcs \cup ClientPcs] /\ tgt' \in [Threads -> Sockets \cup {NULL}]
  <2>1. pc'[listen_task] \in ListenPcs \cup ClientPcs /\ tgt'[listen_task] \in Sockets \cup {NULL}
    BY <1>1 DEF SocketTypes, TargetsRight, TargetOk, ListenPcs, ClientPcs, Resting
  <2> QED
    BY <1>2, <2>1, MovesTyped
<1>5. PICK S \in SUBSET epoll :
        \E bits \in [S -> (SUBSET {"in", "out", "hup"}) \ {{}}] :
          batch' = {[s |-> s, bits |-> bits[s]] : s \in S}
  BY DEF EpollWait
<1>6. PICK bits \in [S -> (SUBSET {"in", "out", "hup"}) \ {{}}] :
        batch' = {[s |-> s, bits |-> bits[s]] : s \in S}
  BY <1>5
<1>7. /\ batch' \subseteq [s : Sockets, bits : SUBSET {"in", "out", "hup"}]
      /\ \A e \in batch' : e.s \in epoll
      /\ \A e, f \in batch' : e.s = f.s => e = f
  BY <1>6 DEF SocketTypes
<1>8. SocketTypes'
  BY <1>1, <1>4, <1>7 DEF SocketTypes
<1>9. TargetsRight'
  <2>1. TargetOk(listen_task)'
    BY <1>1, <1>3 DEF TargetsRight, TargetOk, Exists, ListenPcs, ClientPcs, Resting
  <2>2. CatsRight'
    BY <1>1, <1>3 DEF TargetsRight, CatsRight
  <2> QED
    BY <1>1, <1>3, <2>1, <2>2, TargetsStep DEF Exists
<1>10. UsersCounted'
  <2>1. \A s \in Sockets : listen_task \in UsersOf(s)' <=> listen_task \in UsersOf(s)
    BY <1>1, <1>3 DEF UsersOf, Inside
  <2>2. \A s \in Sockets : status'[s].n = status[s].n /\ status[s].n \in Int
    BY <1>1, <1>3 DEF SocketTypes
  <2> QED
    BY <1>1, <1>3, <2>1, <2>2, UsersStep DEF One
<1>11. ClosingRight'
  BY <1>1, <1>3 DEF ClosingRight, Exists
<1>12. EventsRight'
  <2>1. \A s \in epoll : s \in Sockets /\ released[s] = 0
    BY DEF EventsRight, ClosingRight, SocketTypes
  <2> QED
    BY <1>1, <1>3, <1>7, <2>1 DEF EventsRight, Known
<1>13. HandlerRight'
  BY <1>1, <1>3 DEF HandlerRight, Resting
<1>14. AddersRight'
  <2>1. AdderOk(listen_task)'
    BY <1>1, <1>3 DEF AdderOk, AdderPcs
  <2> QED
    BY <1>1, <1>3, <1>7, <2>1, AddersStep
    DEF AddersRight, AdderOk, AdderPcs, TargetsRight, TargetOk, Resting
<1>15. FdsRight'
  BY <1>1, <1>3, SameFds DEF HasFd, FdPcs, OnlyMoves
<1> QED
  BY <1>8, <1>9, <1>10, <1>11, <1>12, <1>13, <1>14, <1>15

\* The other events of the batch are of other sockets.
LEMMA NextEventKeeps ==
  ASSUME IInv, NEW e \in batch, NextEvent(e)
  PROVE  IInv'
<1> USE Basics DEF IInv
<1>1. /\ pc[listen_task] = "next" /\ pc'[listen_task] = "in" /\ tgt'[listen_task] = e.s
      /\ batch' = batch \ {e} /\ events' = e.bits
      /\ UNCHANGED <<status, fd_cat, socket_fd, listener, piped, epoll, open, lost, closer, cstep,
         dels, released, fd, made, frees>>
  BY DEF NextEvent, At, Goto, Takes, SocketTypes, TargetsRight, TargetOk, ListenPcs, Resting, sockVars,
      kernelVars, closeVars, threadVars, taskVars
<1>2. pc' = [pc EXCEPT ![listen_task] = pc'[listen_task]]
      /\ tgt' = [tgt EXCEPT ![listen_task] = tgt'[listen_task]]
  BY DEF NextEvent, At, Goto, Takes, SocketTypes
<1>3. OnlyMoves(listen_task)
  BY <1>1, <1>2 DEF OnlyMoves, SocketTypes, TargetsRight, TargetOk, ListenPcs, Resting
<1>4. pc' \in [Threads -> ListenPcs \cup ClientPcs] /\ tgt' \in [Threads -> Sockets \cup {NULL}]
  <2>1. pc'[listen_task] \in ListenPcs \cup ClientPcs /\ tgt'[listen_task] \in Sockets \cup {NULL}
    BY <1>1 DEF SocketTypes, TargetsRight, TargetOk, ListenPcs, ClientPcs, Resting
  <2> QED
    BY <1>2, <2>1, MovesTyped
<1>5. /\ events' \subseteq {"in", "out", "hup"}
      /\ batch' \subseteq batch /\ e.s \in Sockets
  BY <1>1 DEF NextEvent, At, Goto, Takes, SocketTypes
<1>6. SocketTypes'
  BY <1>1, <1>4, <1>5 DEF SocketTypes
<1>7. TargetsRight'
  <2>1. TargetOk(listen_task)'
    BY <1>1, <1>3
    DEF TargetsRight, TargetOk, Exists, ListenPcs, ClientPcs, Resting, EventsRight, EventCats,
        SocketTypes
  <2>2. CatsRight'
    BY <1>1, <1>3 DEF TargetsRight, CatsRight
  <2> QED
    BY <1>1, <1>3, <2>1, <2>2, TargetsStep DEF Exists
<1>8. UsersCounted'
  <2>1. \A s \in Sockets : listen_task \in UsersOf(s)' <=> listen_task \in UsersOf(s)
    BY <1>1, <1>3 DEF UsersOf, Inside
  <2>2. \A s \in Sockets : status'[s].n = status[s].n /\ status[s].n \in Int
    BY <1>1, <1>3 DEF SocketTypes
  <2> QED
    BY <1>1, <1>3, <2>1, <2>2, UsersStep DEF One
<1>9. ClosingRight'
  BY <1>1, <1>3 DEF ClosingRight, Exists
<1>10. EventsRight'
  BY <1>1, <1>3, <1>5 DEF EventsRight, Known
<1>11. HandlerRight'
  BY <1>1, <1>3 DEF EventsRight, HandlerRight, Known
<1>12. AddersRight'
  <2>1. AdderOk(listen_task)'
    BY <1>1, <1>3 DEF AdderOk, AdderPcs
  <2> QED
    BY <1>1, <1>3, <1>5, <2>1, AddersStep DEF AddersRight, AdderOk, AdderPcs
<1>13. FdsRight'
  BY <1>1, <1>3, SameFds DEF HasFd, FdPcs, OnlyMoves
<1> QED
  BY <1>6, <1>7, <1>8, <1>9, <1>10, <1>11, <1>12, <1>13

\* listen_task may close the socket, which is released after the batch only.
LEMMA QuietStepKeeps ==
  ASSUME IInv, QuietStep
  PROVE  IInv'
<1> USE Basics DEF IInv
<1>1. /\ \/ pc[listen_task] = "in" /\ pc'[listen_task] = "out"
         \/ pc[listen_task] \in {"out", "ordered"} /\ pc'[listen_task] = "hup"
      /\ tgt'[listen_task] = tgt[listen_task]
      /\ set_status_closed(listen_task, tgt[listen_task]) \/ UNCHANGED <<status, closeVars>>
      /\ UNCHANGED <<fd_cat, socket_fd, listener, piped, epoll, open, lost, fd, made, batch,
         events, frees>>
  BY DEF QuietStep, Takes, SocketTypes, TargetsRight, TargetOk, ListenPcs, Resting, sockVars,
      kernelVars, closeVars, threadVars, taskVars
<1>2. pc' = [pc EXCEPT ![listen_task] = pc'[listen_task]]
      /\ tgt' = [tgt EXCEPT ![listen_task] = tgt'[listen_task]]
  BY DEF QuietStep, Takes, SocketTypes
<1>3. OnlyMoves(listen_task)
  BY <1>1, <1>2 DEF OnlyMoves, SocketTypes, TargetsRight, TargetOk, ListenPcs, Resting
<1>4. pc' \in [Threads -> ListenPcs \cup ClientPcs] /\ tgt' \in [Threads -> Sockets \cup {NULL}]
  <2>1. pc'[listen_task] \in ListenPcs \cup ClientPcs /\ tgt'[listen_task] \in Sockets \cup {NULL}
    BY <1>1 DEF SocketTypes, TargetsRight, TargetOk, ListenPcs, ClientPcs, Resting
  <2> QED
    BY <1>2, <2>1, MovesTyped
<1>5. tgt[listen_task] \in Sockets /\ Exists(tgt[listen_task])
  BY <1>1 DEF TargetsRight, TargetOk, ListenPcs, Resting
<1>6. /\ status' \in [Sockets -> Words] /\ ClosingRight' /\ MayClose
      /\ \A r \in Sockets : status'[r].n = status[r].n
  BY <1>1, <1>3, <1>5, ClosesOrNot DEF SamePhase, Exists
<1>7. SocketTypes'
  BY <1>1, <1>4, <1>6 DEF SocketTypes, MayClose, Words
<1>8. TargetsRight'
  <2>1. TargetOk(listen_task)'
    BY <1>1, <1>3 DEF TargetsRight, TargetOk, Exists, ListenPcs, ClientPcs, Resting
  <2>2. CatsRight'
    BY <1>1, <1>3 DEF TargetsRight, CatsRight
  <2> QED
    BY <1>1, <1>3, <2>1, <2>2, TargetsStep DEF Exists
<1>9. UsersCounted'
  <2>1. \A s \in Sockets : listen_task \in UsersOf(s)' <=> listen_task \in UsersOf(s)
    BY <1>1, <1>3 DEF UsersOf, Inside
  <2>2. \A s \in Sockets : status'[s].n = status[s].n /\ status[s].n \in Int
    BY <1>1, <1>3, <1>6 DEF SocketTypes
  <2> QED
    BY <1>1, <1>3, <2>1, <2>2, UsersStep DEF One
<1>10. ClosingRight'
  BY <1>6
<1>11. EventsRight'
  BY <1>1, <1>3, SameEvents, <1>6 DEF MayClose, SocketTypes
<1>12. HandlerRight'
  BY <1>1, <1>3, <1>6 DEF HandlerRight, Known, Resting, MayClose
<1>13. AddersRight'
  <2>1. AdderOk(listen_task)'
    BY <1>1, <1>3 DEF AddersRight, AdderOk, AdderPcs, Known
  <2> QED
    BY <1>1, <1>3, <2>1, AddersStep DEF AddersRight, AdderOk, AdderPcs
<1>14. FdsRight'
  BY <1>1, <1>3, SameFds, <1>6 DEF HasFd, FdPcs, OnlyMoves, MayClose
<1> QED
  BY <1>7, <1>8, <1>9, <1>10, <1>11, <1>12, <1>13, <1>14

\* listen_task enters an order that is not closed.
LEMMA EnterStepKeeps ==
  ASSUME IInv, EnterStep
  PROVE  IInv'
<1> USE Basics DEF IInv
<1>1. /\ \/ /\ pc[listen_task] = "in" /\ pc'[listen_task] = "accept"
            /\ fd_cat[tgt[listen_task]] = "LISTEN_SOCKET"
         \/ /\ pc[listen_task] = "out" /\ pc'[listen_task] = "getsockopt"
            /\ fd_cat[tgt[listen_task]] = "CONNECT_SOCKET"
      /\ tgt'[listen_task] = tgt[listen_task]
      /\ ~IsClosed(status[tgt[listen_task]]) /\ useing_ref_inc(tgt[listen_task])
      /\ UNCHANGED <<fd_cat, socket_fd, listener, piped, epoll, open, lost, closer, cstep, dels,
         released, fd, made, batch, events, frees>>
  BY DEF EnterStep, Takes, MayEnter, SocketTypes, TargetsRight, TargetOk, ListenPcs, Resting, sockVars,
      kernelVars, closeVars, threadVars, taskVars
<1>2. pc' = [pc EXCEPT ![listen_task] = pc'[listen_task]]
      /\ tgt' = [tgt EXCEPT ![listen_task] = tgt'[listen_task]]
  BY DEF EnterStep, Takes, MayEnter, SocketTypes
<1>3. OnlyMoves(listen_task)
  BY <1>1, <1>2 DEF OnlyMoves, SocketTypes, TargetsRight, TargetOk, ListenPcs, Resting
<1>4. pc' \in [Threads -> ListenPcs \cup ClientPcs] /\ tgt' \in [Threads -> Sockets \cup {NULL}]
  <2>1. pc'[listen_task] \in ListenPcs \cup ClientPcs /\ tgt'[listen_task] \in Sockets \cup {NULL}
    BY <1>1 DEF SocketTypes, TargetsRight, TargetOk, ListenPcs, ClientPcs, Resting
  <2> QED
    BY <1>2, <2>1, MovesTyped
<1>5. tgt[listen_task] \in Sockets /\ Exists(tgt[listen_task])
  BY <1>1 DEF TargetsRight, TargetOk, ListenPcs, Resting
<1>6. /\ status' \in [Sockets -> Words] /\ ClosingRight'
      /\ \A r \in Sockets : status'[r].n = (IF r = tgt[listen_task] THEN status[r].n + 1 ELSE
         status[r].n)
  BY <1>1, <1>3, <1>5, IncCalls DEF SamePhase, Exists, closeVars
<1>7. SocketTypes'
  BY <1>1, <1>4, <1>6 DEF SocketTypes, Words
<1>8. TargetsRight'
  <2>1. TargetOk(listen_task)'
    BY <1>1, <1>3 DEF TargetsRight, TargetOk, Exists, ListenPcs, ClientPcs, Resting
  <2>2. CatsRight'
    BY <1>1, <1>3 DEF TargetsRight, CatsRight
  <2> QED
    BY <1>1, <1>3, <2>1, <2>2, TargetsStep DEF Exists
<1>9. UsersCounted'
  <2>1. \A r \in Sockets : listen_task \notin UsersOf(r)
                        /\ (listen_task \in UsersOf(r)' <=> r = tgt[listen_task])
    BY <1>1, <1>3 DEF UsersOf, Inside
  <2>2. \A r \in Sockets : status'[r].n = (IF r = tgt[listen_task] THEN status[r].n + 1 ELSE
     status[r].n) /\ status[r].n \in Int
    BY <1>6 DEF SocketTypes
  <2> QED
    BY <1>1, <1>3, <2>1, <2>2, UsersStep DEF One
<1>10. ClosingRight'
  BY <1>6
<1>11. EventsRight'
  BY <1>1, <1>3, SameEvents
<1>12. HandlerRight'
  BY <1>1, <1>3 DEF HandlerRight, Known, Resting
<1>13. AddersRight'
  <2>1. AdderOk(listen_task)'
    BY <1>1, <1>3 DEF AddersRight, AdderOk, AdderPcs, Known
  <2> QED
    BY <1>1, <1>3, <2>1, AddersStep DEF AddersRight, AdderOk, AdderPcs
<1>14. FdsRight'
  BY <1>1, <1>3, SameFds DEF HasFd, FdPcs, OnlyMoves
<1> QED
  BY <1>7, <1>8, <1>9, <1>10, <1>11, <1>12, <1>13, <1>14

\* listen_task leaves an order, and may be the one that closes it.
LEMMA LeaveStepKeeps ==
  ASSUME IInv, LeaveStep
  PROVE  IInv'
<1> USE Basics DEF IInv
<1>1. /\ \/ pc[listen_task] = "accept" /\ pc'[listen_task] = "out"
         \/ pc[listen_task] = "connected" /\ pc'[listen_task] = "ordered"
      /\ tgt'[listen_task] = tgt[listen_task]
      /\ useing_ref_dec(listen_task, tgt[listen_task])
      /\ UNCHANGED <<fd_cat, socket_fd, listener, piped, epoll, open, lost, fd, made, batch,
         events, frees>>
  BY DEF LeaveStep, Takes, SocketTypes, TargetsRight, TargetOk, ListenPcs, Resting, sockVars,
      kernelVars, closeVars, threadVars, taskVars
<1>2. pc' = [pc EXCEPT ![listen_task] = pc'[listen_task]]
      /\ tgt' = [tgt EXCEPT ![listen_task] = tgt'[listen_task]]
  BY DEF LeaveStep, Takes, SocketTypes
<1>3. OnlyMoves(listen_task)
  BY <1>1, <1>2 DEF OnlyMoves, SocketTypes, TargetsRight, TargetOk, ListenPcs, Resting
<1>4. pc' \in [Threads -> ListenPcs \cup ClientPcs] /\ tgt' \in [Threads -> Sockets \cup {NULL}]
  <2>1. pc'[listen_task] \in ListenPcs \cup ClientPcs /\ tgt'[listen_task] \in Sockets \cup {NULL}
    BY <1>1 DEF SocketTypes, TargetsRight, TargetOk, ListenPcs, ClientPcs, Resting
  <2> QED
    BY <1>2, <2>1, MovesTyped
<1>5. tgt[listen_task] \in Sockets /\ Exists(tgt[listen_task])
  BY <1>1 DEF TargetsRight, TargetOk, ListenPcs, Resting
<1>6. listen_task \in UsersOf(tgt[listen_task])
  BY <1>1 DEF UsersOf, Inside
<1>7. /\ status' \in [Sockets -> Words] /\ ClosingRight' /\ MayClose
      /\ \A r \in Sockets : status'[r].n = (IF r = tgt[listen_task] THEN status[r].n - 1 ELSE
         status[r].n)
  BY <1>1, <1>3, <1>5, <1>6, DecCalls DEF SamePhase, Exists
<1>8. SocketTypes'
  BY <1>1, <1>4, <1>7 DEF SocketTypes, MayClose, Words
<1>9. TargetsRight'
  <2>1. TargetOk(listen_task)'
    BY <1>1, <1>3 DEF TargetsRight, TargetOk, Exists, ListenPcs, ClientPcs, Resting
  <2>2. CatsRight'
    BY <1>1, <1>3 DEF TargetsRight, CatsRight
  <2> QED
    BY <1>1, <1>3, <2>1, <2>2, TargetsStep DEF Exists
<1>10. UsersCounted'
  <2>1. \A r \in Sockets : listen_task \notin UsersOf(r)'
                        /\ (listen_task \in UsersOf(r) <=> r = tgt[listen_task])
    BY <1>1, <1>3 DEF UsersOf, Inside
  <2>2. \A r \in Sockets : status'[r].n = (IF r = tgt[listen_task] THEN status[r].n - 1 ELSE
     status[r].n) /\ status[r].n \in Int
    BY <1>1, <1>3, <1>7 DEF SocketTypes
  <2> QED
    BY <1>1, <1>3, <2>1, <2>2, UsersStep DEF One
<1>11. ClosingRight'
  BY <1>7
<1>12. EventsRight'
  BY <1>1, <1>3, SameEvents, <1>7 DEF MayClose, SocketTypes
<1>13. HandlerRight'
  BY <1>1, <1>3, <1>7 DEF HandlerRight, Known, Resting, MayClose
<1>14. AddersRight'
  <2>1. AdderOk(listen_task)'
    BY <1>1, <1>3 DEF AddersRight, AdderOk, AdderPcs, Known
  <2> QED
    BY <1>1, <1>3, <2>1, AddersStep DEF AddersRight, AdderOk, AdderPcs
<1>15. FdsRight'
  BY <1>1, <1>3, SameFds, <1>7 DEF HasFd, FdPcs, OnlyMoves, MayClose
<1> QED
  BY <1>8, <1>9, <1>10, <1>11, <1>12, <1>13, <1>14, <1>15

\* The descriptor of accept belongs to listen_task.
LEMMA AcceptKeeps ==
  ASSUME IInv, Accept
  PROVE  IInv'
<1> USE Basics DEF IInv
<1>1. /\ pc[listen_task] = "accept" /\ pc'[listen_task] = "new"
      /\ tgt'[listen_task] = tgt[listen_task]
      /\ open' = open \cup {FreeFd} /\ FreeFd \in Fds \ open
      /\ \A u \in Threads : fd'[u] = IF u = listen_task THEN FreeFd ELSE fd[u]
      /\ UNCHANGED <<status, fd_cat, socket_fd, listener, piped, epoll, lost, closer, cstep, dels,
         released, made, batch, events, frees>>
  BY FreeFdFree
  DEF Accept, At, Goto, Takes, SocketTypes, TargetsRight, TargetOk, ListenPcs, Resting, sockVars,
      kernelVars, closeVars, threadVars, taskVars
<1>2. pc' = [pc EXCEPT ![listen_task] = pc'[listen_task]]
      /\ tgt' = [tgt EXCEPT ![listen_task] = tgt'[listen_task]]
  BY DEF Accept, At, Goto, Takes, SocketTypes
<1>3. OnlyMoves(listen_task)
  BY <1>1, <1>2 DEF OnlyMoves, SocketTypes, TargetsRight, TargetOk, ListenPcs, Resting
<1>4. pc' \in [Threads -> ListenPcs \cup ClientPcs] /\ tgt' \in [Threads -> Sockets \cup {NULL}]
  <2>1. pc'[listen_task] \in ListenPcs \cup ClientPcs /\ tgt'[listen_task] \in Sockets \cup {NULL}
    BY <1>1 DEF SocketTypes, TargetsRight, TargetOk, ListenPcs, ClientPcs, Resting
  <2> QED
    BY <1>2, <2>1, MovesTyped
<1>5. /\ fd' \in [Threads -> Fds \cup {NULL}]
  BY <1>1 DEF Accept, At, Goto, Takes, SocketTypes
<1>6. SocketTypes'
  BY <1>1, <1>4, <1>5 DEF SocketTypes
<1>7. TargetsRight'
  <2>1. TargetOk(listen_task)'
    BY <1>1, <1>3 DEF TargetsRight, TargetOk, Exists, ListenPcs, ClientPcs, Resting
  <2>2. CatsRight'
    BY <1>1, <1>3 DEF TargetsRight, CatsRight
  <2> QED
    BY <1>1, <1>3, <2>1, <2>2, TargetsStep DEF Exists
<1>8. UsersCounted'
  <2>1. \A s \in Sockets : listen_task \in UsersOf(s)' <=> listen_task \in UsersOf(s)
    BY <1>1, <1>3 DEF UsersOf, Inside
  <2>2. \A s \in Sockets : status'[s].n = status[s].n /\ status[s].n \in Int
    BY <1>1, <1>3 DEF SocketTypes
  <2> QED
    BY <1>1, <1>3, <2>1, <2>2, UsersStep DEF One
<1>9. ClosingRight'
  BY <1>1, <1>3, SameClosing DEF Exists
<1>10. EventsRight'
  BY <1>1, <1>3, SameEvents
<1>11. HandlerRight'
  BY <1>1, <1>3 DEF HandlerRight, Known, Resting
<1>12. AddersRight'
  <2>1. AdderOk(listen_task)'
    BY <1>1, <1>3 DEF AddersRight, AdderOk, AdderPcs, Known
  <2> QED
    BY <1>1, <1>3, <2>1, AddersStep DEF AddersRight, AdderOk, AdderPcs
<1>13. FdsRight'
  <2>1. FdMoves(listen_task) /\ fd[listen_task] = NULL /\ fd'[listen_task] # NULL
    BY <1>1, <1>3 DEF FdMoves, OnlyMoves, FdsRight, FdPcs, SocketTypes
  <2> QED
    BY <1>1, <1>3, <2>1, FdOpened DEF HasFd, SocketTypes
<1> QED
  BY <1>6, <1>7, <1>8, <1>9, <1>10, <1>11, <1>12, <1>13

\* The descriptor of a connected order passes to listen_task, which is inside.
LEMMA ConnectedKeeps ==
  ASSUME IInv, Connected
  PROVE  IInv'
<1> USE Basics DEF IInv
<1>1. /\ pc[listen_task] = "getsockopt" /\ pc'[listen_task] = "new"
      /\ tgt'[listen_task] = tgt[listen_task]
      /\ "hup" \notin events
      /\ \A r \in Sockets : fd_cat'[r] = IF r = tgt[listen_task] THEN "NO_SOCKET" ELSE fd_cat[r]
      /\ epoll' = epoll \ {tgt[listen_task]}
      /\ \A u \in Threads : fd'[u] = IF u = listen_task THEN socket_fd[tgt[listen_task]] ELSE fd[u]
      /\ UNCHANGED <<status, socket_fd, listener, piped, open, lost, closer, cstep, dels, released,
         made, batch, events, frees>>
  BY DEF Connected, At, Goto, Takes, SocketTypes, TargetsRight, TargetOk, ListenPcs, Resting, sockVars,
      kernelVars, closeVars, threadVars, taskVars
<1>2. pc' = [pc EXCEPT ![listen_task] = pc'[listen_task]]
      /\ tgt' = [tgt EXCEPT ![listen_task] = tgt'[listen_task]]
  BY DEF Connected, At, Goto, Takes, SocketTypes
<1>3. OnlyMoves(listen_task)
  BY <1>1, <1>2 DEF OnlyMoves, SocketTypes, TargetsRight, TargetOk, ListenPcs, Resting
<1>4. pc' \in [Threads -> ListenPcs \cup ClientPcs] /\ tgt' \in [Threads -> Sockets \cup {NULL}]
  <2>1. pc'[listen_task] \in ListenPcs \cup ClientPcs /\ tgt'[listen_task] \in Sockets \cup {NULL}
    BY <1>1 DEF SocketTypes, TargetsRight, TargetOk, ListenPcs, ClientPcs, Resting
  <2> QED
    BY <1>2, <2>1, MovesTyped
<1>5. /\ fd_cat' \in [Sockets -> Cats \cup {"none"}]
      /\ fd' \in [Threads -> Fds \cup {NULL}]
  BY <1>1 DEF Connected, At, Goto, Takes, SocketTypes, Cats, TargetsRight, TargetOk, Resting
<1>6. fd_cat[tgt[listen_task]] = "CONNECT_SOCKET"
  BY <1>1 DEF HandlerRight, Resting
<1>7. tgt[listen_task] \in Sockets /\ Exists(tgt[listen_task])
  BY <1>1 DEF TargetsRight, TargetOk, ListenPcs, Resting
<1>8. cstep[tgt[listen_task]] = "no"
  BY <1>1, <1>7, UserKeepsOpen DEF UsersOf, Inside
<1>9. tgt[listen_task] \in Orders
  BY <1>6, <1>7 DEF TargetsRight, CatsRight
<1>10. SocketTypes'
  BY <1>1, <1>4, <1>5 DEF SocketTypes
<1>11. TargetsRight'
  <2>1. TargetOk(listen_task)'
    BY <1>1, <1>3 DEF TargetsRight, TargetOk, Exists, ListenPcs, ClientPcs, Resting
  <2>2. CatsRight'
    BY <1>1, <1>3, <1>9 DEF TargetsRight, CatsRight
  <2> QED
    BY <1>1, <1>3, <2>1, <2>2, TargetsStep, <1>7 DEF Exists
<1>12. UsersCounted'
  <2>1. \A s \in Sockets : listen_task \in UsersOf(s)' <=> listen_task \in UsersOf(s)
    BY <1>1, <1>3 DEF UsersOf, Inside
  <2>2. \A s \in Sockets : status'[s].n = status[s].n /\ status[s].n \in Int
    BY <1>1, <1>3 DEF SocketTypes
  <2> QED
    BY <1>1, <1>3, <2>1, <2>2, UsersStep DEF One
<1>13. ClosingRight'
  BY <1>1, <1>3, SameClosing DEF Exists
<1>14. EventsRight'
  BY <1>1, <1>3 DEF EventsRight, Known, SocketTypes
<1>15. HandlerRight'
  BY <1>1, <1>3, <1>7 DEF HandlerRight, Known, Resting
<1>16. AddersRight'
  <2>1. AdderOk(listen_task)'
    BY <1>1, <1>3 DEF AddersRight, AdderOk, AdderPcs, Known
  <2> QED
    BY <1>1, <1>3, <2>1, AddersStep
    DEF AddersRight, AdderOk, AdderPcs, TargetsRight, TargetOk, Resting
<1>17. FdsRight'
  <2>1. HasFd(tgt[listen_task]) /\ ~HasFd(tgt[listen_task])' /\ \A r \in Sockets \
     {tgt[listen_task]} : HasFd(r)' <=> HasFd(r)
    BY <1>1, <1>3, <1>6, <1>7, <1>8 DEF HasFd
  <2>2. NULL \notin open
    BY DEF SocketTypes
  <2>3. FdMoves(listen_task) /\ fd[listen_task] = NULL
    BY <1>1, <1>3, <1>7, <2>1, <2>2 DEF FdMoves, OnlyMoves, FdsRight, FdPcs
  <2> QED
    BY <1>1, <1>3, <1>7, <2>1, <2>2, <2>3, FdTaken
<1> QED
  BY <1>10, <1>11, <1>12, <1>13, <1>14, <1>15, <1>16, <1>17

\* The order keeps the descriptor when connect has failed.
LEMMA NotConnectedKeeps ==
  ASSUME IInv, NotConnected
  PROVE  IInv'
<1> USE Basics DEF IInv
<1>1. /\ pc[listen_task] = "getsockopt" /\ pc'[listen_task] = "connected"
      /\ tgt'[listen_task] = tgt[listen_task]
      /\ UNCHANGED <<status, fd_cat, socket_fd, listener, piped, epoll, open, lost, closer, cstep,
         dels, released, fd, made, batch, events, frees>>
  BY DEF NotConnected, At, Goto, Takes, SocketTypes, TargetsRight, TargetOk, ListenPcs, Resting,
      sockVars, kernelVars, closeVars, threadVars, taskVars
<1>2. pc' = [pc EXCEPT ![listen_task] = pc'[listen_task]]
      /\ tgt' = [tgt EXCEPT ![listen_task] = tgt'[listen_task]]
  BY DEF NotConnected, At, Goto, Takes, SocketTypes
<1>3. OnlyMoves(listen_task)
  BY <1>1, <1>2 DEF OnlyMoves, SocketTypes, TargetsRight, TargetOk, ListenPcs, Resting
<1>4. pc' \in [Threads -> ListenPcs \cup ClientPcs] /\ tgt' \in [Threads -> Sockets \cup {NULL}]
  <2>1. pc'[listen_task] \in ListenPcs \cup ClientPcs /\ tgt'[listen_task] \in Sockets \cup {NULL}
    BY <1>1 DEF SocketTypes, TargetsRight, TargetOk, ListenPcs, ClientPcs, Resting
  <2> QED
    BY <1>2, <2>1, MovesTyped
<1>5. SocketTypes'
  BY <1>1, <1>4 DEF SocketTypes
<1>6. TargetsRight'
  <2>1. TargetOk(listen_task)'
    BY <1>1, <1>3 DEF TargetsRight, TargetOk, Exists, ListenPcs, ClientPcs, Resting
  <2>2. CatsRight'
    BY <1>1, <1>3 DEF TargetsRight, CatsRight
  <2> QED
    BY <1>1, <1>3, <2>1, <2>2, TargetsStep DEF Exists
<1>7. UsersCounted'
  <2>1. \A s \in Sockets : listen_task \in UsersOf(s)' <=> listen_task \in UsersOf(s)
    BY <1>1, <1>3 DEF UsersOf, Inside
  <2>2. \A s \in Sockets : status'[s].n = status[s].n /\ status[s].n \in Int
    BY <1>1, <1>3 DEF SocketTypes
  <2> QED
    BY <1>1, <1>3, <2>1, <2>2, UsersStep DEF One
<1>8. ClosingRight'
  BY <1>1, <1>3, SameClosing DEF Exists
<1>9. EventsRight'
  BY <1>1, <1>3, SameEvents
<1>10. HandlerRight'
  BY <1>1, <1>3 DEF HandlerRight, Known, Resting
<1>11. AddersRight'
  <2>1. AdderOk(listen_task)'
    BY <1>1, <1>3 DEF AddersRight, AdderOk, AdderPcs, Known
  <2> QED
    BY <1>1, <1>3, <2>1, AddersStep DEF AddersRight, AdderOk, AdderPcs
<1>12. FdsRight'
  BY <1>1, <1>3, SameFds DEF HasFd, FdPcs, OnlyMoves
<1> QED
  BY <1>5, <1>6, <1>7, <1>8, <1>9, <1>10, <1>11, <1>12

\* listen_task has done with the socket.
LEMMA HangUpKeeps ==
  ASSUME IInv, HangUp
  PROVE  IInv'
<1> USE Basics DEF IInv
<1>1. /\ pc[listen_task] = "hup" /\ pc'[listen_task] = "next" /\ tgt'[listen_task] = NULL
      /\ events' = {}
      /\ set_status_closed(listen_task, tgt[listen_task]) \/ UNCHANGED <<status, closeVars>>
      /\ UNCHANGED <<fd_cat, socket_fd, listener, piped, epoll, open, lost, fd, made, batch, frees>>
  BY DEF HangUp, At, Goto, Takes, SocketTypes, TargetsRight, TargetOk, ListenPcs, Resting, sockVars,
      kernelVars, closeVars, threadVars, taskVars
<1>2. pc' = [pc EXCEPT ![listen_task] = pc'[listen_task]]
      /\ tgt' = [tgt EXCEPT ![listen_task] = tgt'[listen_task]]
  BY DEF HangUp, At, Goto, Takes, SocketTypes
<1>3. OnlyMoves(listen_task)
  BY <1>1, <1>2 DEF OnlyMoves, SocketTypes, TargetsRight, TargetOk, ListenPcs, Resting
<1>4. pc' \in [Threads -> ListenPcs \cup ClientPcs] /\ tgt' \in [Threads -> Sockets \cup {NULL}]
  <2>1. pc'[listen_task] \in ListenPcs \cup ClientPcs /\ tgt'[listen_task] \in Sockets \cup {NULL}
    BY <1>1 DEF SocketTypes, TargetsRight, TargetOk, ListenPcs, ClientPcs, Resting
  <2> QED
    BY <1>2, <2>1, MovesTyped
<1>5. tgt[listen_task] \in Sockets /\ Exists(tgt[listen_task])
  BY <1>1 DEF TargetsRight, TargetOk, ListenPcs, Resting
<1>6. /\ status' \in [Sockets -> Words] /\ ClosingRight' /\ MayClose
      /\ \A r \in Sockets : status'[r].n = status[r].n
  BY <1>1, <1>3, <1>5, ClosesOrNot DEF SamePhase, Exists
<1>7. SocketTypes'
  BY <1>1, <1>4, <1>6 DEF SocketTypes, MayClose, Words
<1>8. TargetsRight'
  <2>1. TargetOk(listen_task)'
    BY <1>1, <1>3 DEF TargetsRight, TargetOk, Exists, ListenPcs, ClientPcs, Resting
  <2>2. CatsRight'
    BY <1>1, <1>3 DEF TargetsRight, CatsRight
  <2> QED
    BY <1>1, <1>3, <2>1, <2>2, TargetsStep DEF Exists
<1>9. UsersCounted'
  <2>1. \A s \in Sockets : listen_task \in UsersOf(s)' <=> listen_task \in UsersOf(s)
    BY <1>1, <1>3 DEF UsersOf, Inside
  <2>2. \A s \in Sockets : status'[s].n = status[s].n /\ status[s].n \in Int
    BY <1>1, <1>3, <1>6 DEF SocketTypes
  <2> QED
    BY <1>1, <1>3, <2>1, <2>2, UsersStep DEF One
<1>10. ClosingRight'
  BY <1>6
<1>11. EventsRight'
  BY <1>1, <1>3, <1>6 DEF EventsRight, Known, MayClose, SocketTypes
<1>12. HandlerRight'
  BY <1>1, <1>3 DEF HandlerRight, Resting
<1>13. AddersRight'
  <2>1. AdderOk(listen_task)'
    BY <1>1, <1>3 DEF AddersRight, AdderOk, AdderPcs, Known
  <2> QED
    BY <1>1, <1>3, <2>1, AddersStep
    DEF AddersRight, AdderOk, AdderPcs, TargetsRight, TargetOk, Resting
<1>14. FdsRight'
  BY <1>1, <1>3, SameFds, <1>6 DEF HasFd, FdPcs, OnlyMoves, MayClose
<1> QED
  BY <1>7, <1>8, <1>9, <1>10, <1>11, <1>12, <1>13, <1>14

\* What has been closed so far is released now that the batch is empty.
LEMMA TakeDelsKeeps ==
  ASSUME IInv, TakeDels
  PROVE  IInv'
<1> USE Basics DEF IInv
<1>1. /\ pc[listen_task] = "next" /\ pc'[listen_task] = "free" /\ tgt'[listen_task] = NULL
      /\ batch = {} /\ frees' = dels /\ dels' = {}
      /\ UNCHANGED <<status, fd_cat, socket_fd, listener, piped, epoll, open, lost, closer, cstep,
         released, fd, made, batch, events>>
  BY DEF TakeDels, At, Goto, Takes, SocketTypes, TargetsRight, TargetOk, ListenPcs, Resting, sockVars,
      kernelVars, closeVars, threadVars, taskVars
<1>2. pc' = [pc EXCEPT ![listen_task] = pc'[listen_task]]
      /\ tgt' = [tgt EXCEPT ![listen_task] = tgt'[listen_task]]
  BY DEF TakeDels, At, Goto, Takes, SocketTypes
<1>3. OnlyMoves(listen_task)
  BY <1>1, <1>2 DEF OnlyMoves, SocketTypes, TargetsRight, TargetOk, ListenPcs, Resting
<1>4. pc' \in [Threads -> ListenPcs \cup ClientPcs] /\ tgt' \in [Threads -> Sockets \cup {NULL}]
  <2>1. pc'[listen_task] \in ListenPcs \cup ClientPcs /\ tgt'[listen_task] \in Sockets \cup {NULL}
    BY <1>1 DEF SocketTypes, TargetsRight, TargetOk, ListenPcs, ClientPcs, Resting
  <2> QED
    BY <1>2, <2>1, MovesTyped
<1>5. SocketTypes'
  BY <1>1, <1>4 DEF SocketTypes
<1>6. TargetsRight'
  <2>1. TargetOk(listen_task)'
    BY <1>1, <1>3 DEF TargetsRight, TargetOk, Exists, ListenPcs, ClientPcs, Resting
  <2>2. CatsRight'
    BY <1>1, <1>3 DEF TargetsRight, CatsRight
  <2> QED
    BY <1>1, <1>3, <2>1, <2>2, TargetsStep DEF Exists
<1>7. UsersCounted'
  <2>1. \A s \in Sockets : listen_task \in UsersOf(s)' <=> listen_task \in UsersOf(s)
    BY <1>1, <1>3 DEF UsersOf, Inside
  <2>2. \A s \in Sockets : status'[s].n = status[s].n /\ status[s].n \in Int
    BY <1>1, <1>3 DEF SocketTypes
  <2> QED
    BY <1>1, <1>3, <2>1, <2>2, UsersStep DEF One
<1>8. ClosingRight'
  BY <1>1, <1>3 DEF ClosingRight, Exists
<1>9. EventsRight'
  BY <1>1, <1>3 DEF EventsRight, Known
<1>10. HandlerRight'
  BY <1>1, <1>3 DEF HandlerRight, Resting
<1>11. AddersRight'
  <2>1. AdderOk(listen_task)'
    BY <1>1, <1>3 DEF AddersRight, AdderOk, AdderPcs, Known
  <2> QED
    BY <1>1, <1>3, <2>1, AddersStep
    DEF AddersRight, AdderOk, AdderPcs, TargetsRight, TargetOk, Resting
<1>12. FdsRight'
  BY <1>1, <1>3, SameFds DEF HasFd, FdPcs, OnlyMoves
<1> QED
  BY <1>5, <1>6, <1>7, <1>8, <1>9, <1>10, <1>11, <1>12

\* What is released has been closed, and no event is left.
LEMMA FreeOneKeeps ==
  ASSUME IInv, FreeDel, NEW s \in frees, frees' = frees \ {s}, released' = [released EXCEPT
         ![s] = @ + 1], UNCHANGED <<pc, tgt>>
  PROVE  IInv'
<1> USE Basics DEF IInv
<1>1. /\ pc[listen_task] = "free"
      /\ s \in Sockets /\ frees' = frees \ {s}
      /\ UNCHANGED <<status, fd_cat, socket_fd, listener, piped, epoll, open, lost, closer, cstep,
         dels, pc, tgt, fd, made, batch, events>>
  BY DEF FreeDel, At, SocketTypes, TargetsRight, TargetOk, ListenPcs, Resting, sockVars, kernelVars,
      closeVars, threadVars, taskVars
<1>2. cstep[s] = "done" /\ released[s] = 0 /\ batch = {}
  BY <1>1 DEF ClosingRight
<1>3. /\ \A r \in Sockets : released'[r] = IF r = s THEN 1 ELSE released[r]
      /\ released' \in [Sockets -> {0, 1}]
  BY <1>1, <1>2 DEF SocketTypes
<1>4. SocketTypes'
  BY <1>1, <1>3 DEF SocketTypes
<1>5. TargetsRight'
  BY <1>1 DEF TargetsRight, CatsRight, TargetOk, Exists
<1>6. UsersCounted'
  BY <1>1 DEF UsersCounted, UsersOf, Inside
<1>7. ClosingRight'
  BY <1>1, <1>2, <1>3 DEF ClosingRight, Exists
<1>8. EventsRight'
  BY <1>1, <1>2 DEF EventsRight, Known
<1>9. HandlerRight'
  BY <1>1 DEF HandlerRight, Resting
<1>10. AddersRight'
  BY <1>1 DEF AddersRight, AdderOk, Known
<1>11. FdsRight'
  BY <1>1, SameFds DEF HasFd, FdPcs
<1> QED
  BY <1>4, <1>5, <1>6, <1>7, <1>8, <1>9, <1>10, <1>11

\* Nothing is left to be released when listen_task waits again.
LEMMA FreeEndKeeps ==
  ASSUME IInv, FreeDel, frees = {}, Goto(listen_task, "wait"), UNCHANGED <<frees, released>>
  PROVE  IInv'
<1> USE Basics DEF IInv
<1>1. /\ pc[listen_task] = "free" /\ pc'[listen_task] = "wait"
      /\ tgt'[listen_task] = tgt[listen_task]
      /\ frees = {}
      /\ UNCHANGED <<status, fd_cat, socket_fd, listener, piped, epoll, open, lost, closer, cstep,
         dels, released, fd, made, batch, events, frees>>
  BY DEF FreeDel, At, Goto, Takes, SocketTypes, TargetsRight, TargetOk, ListenPcs, Resting, sockVars,
      kernelVars, closeVars, threadVars, taskVars
<1>2. pc' = [pc EXCEPT ![listen_task] = pc'[listen_task]]
      /\ tgt' = [tgt EXCEPT ![listen_task] = tgt'[listen_task]]
  BY DEF FreeDel, At, Goto, Takes, SocketTypes
<1>3. OnlyMoves(listen_task)
  BY <1>1, <1>2 DEF OnlyMoves, SocketTypes, TargetsRight, TargetOk, ListenPcs, Resting
<1>4. pc' \in [Threads -> ListenPcs \cup ClientPcs] /\ tgt' \in [Threads -> Sockets \cup {NULL}]
  <2>1. pc'[listen_task] \in ListenPcs \cup ClientPcs /\ tgt'[listen_task] \in Sockets \cup {NULL}
    BY <1>1 DEF SocketTypes, TargetsRight, TargetOk, ListenPcs, ClientPcs, Resting
  <2> QED
    BY <1>2, <2>1, MovesTyped
<1>5. SocketTypes'
  BY <1>1, <1>4 DEF SocketTypes
<1>6. TargetsRight'
  <2>1. TargetOk(listen_task)'
    BY <1>1, <1>3 DEF TargetsRight, TargetOk, Exists, ListenPcs, ClientPcs, Resting
  <2>2. CatsRight'
    BY <1>1, <1>3 DEF TargetsRight, CatsRight
  <2> QED
    BY <1>1, <1>3, <2>1, <2>2, TargetsStep DEF Exists
<1>7. UsersCounted'
  <2>1. \A s \in Sockets : listen_task \in UsersOf(s)' <=> listen_task \in UsersOf(s)
    BY <1>1, <1>3 DEF UsersOf, Inside
  <2>2. \A s \in Sockets : status'[s].n = status[s].n /\ status[s].n \in Int
    BY <1>1, <1>3 DEF SocketTypes
  <2> QED
    BY <1>1, <1>3, <2>1, <2>2, UsersStep DEF One
<1>8. ClosingRight'
  BY <1>1, <1>3 DEF ClosingRight, Exists
<1>9. EventsRight'
  BY <1>1, <1>3, SameEvents
<1>10. HandlerRight'
  BY <1>1, <1>3 DEF HandlerRight, Resting
<1>11. AddersRight'
  <2>1. AdderOk(listen_task)'
    BY <1>1, <1>3 DEF AddersRight, AdderOk, AdderPcs, Known
  <2> QED
    BY <1>1, <1>3, <2>1, AddersStep DEF AddersRight, AdderOk, AdderPcs
<1>12. FdsRight'
  BY <1>1, <1>3, SameFds DEF HasFd, FdPcs, OnlyMoves
<1> QED
  BY <1>5, <1>6, <1>7, <1>8, <1>9, <1>10, <1>11, <1>12

\* The descriptor is closed together with its only owner.
LEMMA CloseFdKeeps ==
  ASSUME IInv, NEW s \in Sockets, CloseFd(s), fd_cat[s] # "NO_SOCKET"
  PROVE  IInv'
<1> USE Basics DEF IInv
<1>1. /\ cstep[s] = "fd"
      /\ \A r \in Sockets : cstep'[r] = IF r = s THEN "pipe" ELSE cstep[r]
      /\ epoll' = epoll \ {s} /\ open' = open \ {socket_fd[s]}
      /\ UNCHANGED <<status, fd_cat, socket_fd, listener, piped, lost, closer, dels, released, pc,
         tgt, fd, made, batch, events, frees>>
  BY DEF CloseFd, SocketTypes, TargetsRight, TargetOk, ListenPcs, Resting, sockVars, kernelVars,
      closeVars, threadVars, taskVars
<1>2. /\ cstep' \in [Sockets -> {"no", "fd", "pipe", "ref", "done"}]
  BY <1>1 DEF CloseFd, SocketTypes
<1>3. fd_cat[s] # "none" /\ HasFd(s) /\ socket_fd[s] \in open \ lost
  BY <1>1 DEF ClosingRight, STATUS_LEGAL_CLOSED, HasFd, FdsRight
<1>4. SocketTypes'
  BY <1>1, <1>2, <1>3 DEF SocketTypes
<1>5. TargetsRight'
  BY <1>1 DEF TargetsRight, CatsRight, TargetOk, Exists
<1>6. UsersCounted'
  BY <1>1 DEF UsersCounted, UsersOf, Inside
<1>7. ClosingRight'
  BY <1>1 DEF ClosingRight, Exists
<1>8. EventsRight'
  BY <1>1 DEF EventsRight, Known, SocketTypes
<1>9. HandlerRight'
  BY <1>1, SameHandler
<1>10. AddersRight'
  BY <1>1 DEF AddersRight, AdderOk, Known
<1>11. FdsRight'
  <2>1. ~HasFd(s)' /\ \A r \in Sockets \ {s} : HasFd(r)' <=> HasFd(r)
    BY <1>1 DEF HasFd
  <2> QED
    BY <1>1, <1>3, <2>1, FdClosed DEF SocketTypes
<1> QED
  BY <1>4, <1>5, <1>6, <1>7, <1>8, <1>9, <1>10, <1>11

\* A socket without a descriptor closes none.
LEMMA CloseNoFdKeeps ==
  ASSUME IInv, NEW s \in Sockets, CloseFd(s), fd_cat[s] = "NO_SOCKET"
  PROVE  IInv'
<1> USE Basics DEF IInv
<1>1. /\ cstep[s] = "fd" /\ fd_cat[s] = "NO_SOCKET"
      /\ \A r \in Sockets : cstep'[r] = IF r = s THEN "pipe" ELSE cstep[r]
      /\ UNCHANGED <<status, fd_cat, socket_fd, listener, piped, epoll, open, lost, closer, dels,
         released, pc, tgt, fd, made, batch, events, frees>>
  BY DEF CloseFd, SocketTypes, TargetsRight, TargetOk, ListenPcs, Resting, sockVars, kernelVars,
      closeVars, threadVars, taskVars
<1>2. /\ cstep' \in [Sockets -> {"no", "fd", "pipe", "ref", "done"}]
  BY <1>1 DEF CloseFd, SocketTypes
<1>3. SocketTypes'
  BY <1>1, <1>2 DEF SocketTypes
<1>4. TargetsRight'
  BY <1>1 DEF TargetsRight, CatsRight, TargetOk, Exists
<1>5. UsersCounted'
  BY <1>1 DEF UsersCounted, UsersOf, Inside
<1>6. ClosingRight'
  BY <1>1 DEF ClosingRight, Exists
<1>7. EventsRight'
  BY <1>1 DEF EventsRight, Known, SocketTypes, EventCats
<1>8. HandlerRight'
  BY <1>1, SameHandler
<1>9. AddersRight'
  BY <1>1 DEF AddersRight, AdderOk, Known
<1>10. FdsRight'
  <2>1. \A r \in Sockets : HasFd(r)' <=> HasFd(r)
    BY <1>1 DEF HasFd
  <2> QED
    BY <1>1, <2>1, SameFds
<1> QED
  BY <1>3, <1>4, <1>5, <1>6, <1>7, <1>8, <1>9, <1>10

\* Closing the pipe is not noticed.
LEMMA ClosePipeOfKeeps ==
  ASSUME IInv, NEW s \in Sockets, ClosePipeOf(s)
  PROVE  IInv'
<1> USE Basics DEF IInv
<1>1. /\ cstep[s] = "pipe"
      /\ \A r \in Sockets : cstep'[r] = IF r = s THEN "ref" ELSE cstep[r]
      /\ piped' = piped \cup {s}
      /\ UNCHANGED <<status, fd_cat, socket_fd, listener, epoll, open, lost, closer, dels,
         released, pc, tgt, fd, made, batch, events, frees>>
  BY DEF ClosePipeOf, At, Goto, Takes, SocketTypes, TargetsRight, TargetOk, ListenPcs, Resting,
      sockVars, kernelVars, closeVars, threadVars, taskVars
<1>2. /\ cstep' \in [Sockets -> {"no", "fd", "pipe", "ref", "done"}]
  BY <1>1 DEF ClosePipeOf, At, Goto, Takes, SocketTypes
<1>3. SocketTypes'
  BY <1>1, <1>2 DEF SocketTypes
<1>4. TargetsRight'
  BY <1>1 DEF TargetsRight, CatsRight, TargetOk, Exists
<1>5. UsersCounted'
  BY <1>1 DEF UsersCounted, UsersOf, Inside
<1>6. ClosingRight'
  BY <1>1 DEF ClosingRight, Exists
<1>7. EventsRight'
  BY <1>1 DEF EventsRight, Known, SocketTypes
<1>8. HandlerRight'
  BY <1>1, SameHandler
<1>9. AddersRight'
  BY <1>1 DEF AddersRight, AdderOk, Known
<1>10. FdsRight'
  <2>1. \A r \in Sockets : HasFd(r)' <=> HasFd(r)
    BY <1>1 DEF HasFd
  <2> QED
    BY <1>1, <2>1, SameFds
<1> QED
  BY <1>3, <1>4, <1>5, <1>6, <1>7, <1>8, <1>9, <1>10

\* listen_task may know of the socket, which is left to it.
LEMMA EndDeferredKeeps ==
  ASSUME IInv, NEW s \in Sockets, EndClose(s), Deferred(s)
  PROVE  IInv'
<1> USE Basics DEF IInv
<1>1. /\ cstep[s] = "ref"
      /\ \A r \in Sockets : cstep'[r] = IF r = s THEN "done" ELSE cstep[r]
      /\ \A r \in Sockets : closer'[r] = IF r = s THEN NULL ELSE closer[r]
      /\ dels' = dels \cup {s}
      /\ UNCHANGED <<status, fd_cat, socket_fd, listener, piped, epoll, open, lost, released, pc,
         tgt, fd, made, batch, events, frees>>
  BY DEF EndClose, SocketTypes, TargetsRight, TargetOk, ListenPcs, Resting, sockVars, kernelVars,
      closeVars, threadVars, taskVars
<1>2. /\ cstep' \in [Sockets -> {"no", "fd", "pipe", "ref", "done"}]
      /\ closer' \in [Sockets -> Threads \cup {NULL}]
  BY <1>1 DEF EndClose, SocketTypes
<1>3. released[s] = 0 /\ s \notin dels \cup frees
  BY <1>1 DEF ClosingRight, SocketTypes
<1>4. SocketTypes'
  BY <1>1, <1>2 DEF SocketTypes
<1>5. TargetsRight'
  BY <1>1 DEF TargetsRight, CatsRight, TargetOk, Exists
<1>6. UsersCounted'
  BY <1>1 DEF UsersCounted, UsersOf, Inside
<1>7. ClosingRight'
  BY <1>1, <1>3 DEF ClosingRight, Exists
<1>8. EventsRight'
  BY <1>1 DEF EventsRight, Known, SocketTypes
<1>9. HandlerRight'
  BY <1>1, SameHandler
<1>10. AddersRight'
  BY <1>1 DEF AddersRight, AdderOk, Known
<1>11. FdsRight'
  <2>1. \A r \in Sockets : HasFd(r)' <=> HasFd(r)
    BY <1>1 DEF HasFd
  <2> QED
    BY <1>1, <2>1, SameFds
<1> QED
  BY <1>4, <1>5, <1>6, <1>7, <1>8, <1>9, <1>10, <1>11

\* listen_task does not know of the socket, or reads no more of it than its name.
LEMMA EndCloseKeeps ==
  ASSUME IInv, NEW s \in Sockets, EndClose(s), ~Deferred(s)
  PROVE  IInv'
<1> USE Basics DEF IInv
<1>1. /\ cstep[s] = "ref"
      /\ \A r \in Sockets : cstep'[r] = IF r = s THEN "done" ELSE cstep[r]
      /\ \A r \in Sockets : closer'[r] = IF r = s THEN NULL ELSE closer[r]
      /\ released' = [released EXCEPT ![s] = @ + 1]
      /\ fd_cat[s] \in {"UNJOIN_SOCKET", "NO_SOCKET"}
      /\ UNCHANGED <<status, fd_cat, socket_fd, listener, piped, epoll, open, lost, dels, pc, tgt,
         fd, made, batch, events, frees>>
  BY DEF EndClose, Deferred, SocketTypes, TargetsRight, TargetOk, ListenPcs, Resting, sockVars,
      kernelVars, closeVars, threadVars, taskVars
<1>2. /\ cstep' \in [Sockets -> {"no", "fd", "pipe", "ref", "done"}]
      /\ closer' \in [Sockets -> Threads \cup {NULL}]
  BY <1>1 DEF EndClose, Deferred, SocketTypes
<1>3. released[s] = 0 /\ s \notin dels \cup frees
  BY <1>1 DEF ClosingRight, SocketTypes
<1>4. /\ \A r \in Sockets : released'[r] = IF r = s THEN 1 ELSE released[r]
      /\ released' \in [Sockets -> {0, 1}]
  BY <1>1, <1>3 DEF SocketTypes
<1>5. SocketTypes'
  BY <1>1, <1>2, <1>4 DEF SocketTypes
<1>6. TargetsRight'
  BY <1>1 DEF TargetsRight, CatsRight, TargetOk, Exists
<1>7. UsersCounted'
  BY <1>1 DEF UsersCounted, UsersOf, Inside
<1>8. ClosingRight'
  BY <1>1, <1>3, <1>4 DEF ClosingRight, Exists
<1>9. EventsRight'
  <2>1. s \notin epoll /\ \A e \in batch : e.s \in Sockets /\ e.s # s
    BY <1>1 DEF EventsRight, EventCats, SocketTypes
  <2> QED
    BY <1>1, <1>4, <2>1 DEF EventsRight, Known, SocketTypes
<1>10. HandlerRight'
  <2>1. pc[listen_task] \notin Resting /\ fd_cat[tgt[listen_task]] \in EventCats =>
          tgt[listen_task] # s
    BY <1>1 DEF EventCats
  <2> QED
    BY <1>1, <1>4, <2>1, HandlerHas DEF HandlerRight, Known
<1>11. AddersRight'
  BY <1>1 DEF AddersRight, AdderOk, Known
<1>12. FdsRight'
  <2>1. \A r \in Sockets : HasFd(r)' <=> HasFd(r)
    BY <1>1 DEF HasFd
  <2> QED
    BY <1>1, <2>1, SameFds
<1> QED
  BY <1>5, <1>6, <1>7, <1>8, <1>9, <1>10, <1>11, <1>12

\* EPOLLIN and EPOLLOUT.
LEMMA CanReadWriteKeeps ==
  ASSUME IInv, _socket_can_read \/ _socket_can_write
  PROVE  IInv'
<1>1. pc[listen_task] \in {"in", "out"}
  BY DEF _socket_can_read, _socket_can_write, At
<1>2. QuietStep \/ EnterStep
  <2>1. CASE _socket_can_read
    BY <2>1 DEF _socket_can_read, At, Goto, Joined, OrderEvent, QuietStep, EnterStep
  <2>2. CASE _socket_can_write
    BY <2>2 DEF _socket_can_write, At, Goto, Joined, OrderEvent, QuietStep, EnterStep
  <2> QED
    BY <2>1, <2>2
<1> QED
  BY <1>2, QuietStepKeeps, EnterStepKeeps

\* The steps of a call.
LEMMA ThreadStepKeeps ==
  ASSUME IInv, NEW t \in Threads, ThreadStep(t)
  PROVE  IInv'
<1>1. ASSUME NewFails(t) \/ (\E c \in Conns : NewConn(t, c)) \/ on_ready(t) PROVE IInv'
  <2>1. CASE t = listen_task
    BY <1>1, <2>1, NewFailsListenKeeps, NewConnListenKeeps, on_readyListenKeeps
  <2>2. CASE t \in Clients
    BY <1>1, <2>2, NewFailsKeeps, NewConnKeeps, on_readyKeeps
  <2> QED
    BY <2>1, <2>2 DEF Threads
<1>2. ASSUME EpollAddFails(t) PROVE IInv'
  <2>1. tgt[t] \in Orders \/ tgt[t] \in Conns
    BY <1>2, Basics DEF EpollAddFails, At, IInv, TargetsRight, TargetOk, Resting
  <2> QED
    BY <1>2, <2>1, OrderUnaddedKeeps, ConnUnaddedKeeps
<1>3. ASSUME OrderEnter(t) PROVE IInv'
  BY <1>3, OrderRefusedKeeps, OrderEnterKeeps
<1> QED
  BY <1>1, <1>2, <1>3, NewFdKeeps, OrderFailsKeeps, ConnectFailsKeeps, ConnectSucceedsKeeps,
     EpollAddKeeps, LeaveKeeps, SetErrorKeeps, AddrErrorKeeps, StartSwapKeeps, StartListenerKeeps
  DEF ThreadStep

\* The steps of listen_task.
LEMMA ListenStepKeeps ==
  ASSUME IInv, ListenStep
  PROVE  IInv'
<1>1. ASSUME AcceptEnd \/ ConnectLeave PROVE IInv'
  <2>1. LeaveStep
    BY <1>1 DEF AcceptEnd, ConnectLeave, LeaveStep, At, Goto
  <2> QED
    BY <2>1, LeaveStepKeeps
<1>2. ASSUME ConnectDone PROVE IInv'
  <2>1. QuietStep
    BY <1>2 DEF ConnectDone, QuietStep, At, Goto
  <2> QED
    BY <2>1, QuietStepKeeps
<1>3. ASSUME FreeDel PROVE IInv'
  BY <1>3, FreeOneKeeps, FreeEndKeeps DEF FreeDel
<1> QED
  BY <1>1, <1>2, <1>3, EpollWaitKeeps, NextEventKeeps, CanReadWriteKeeps, AcceptKeeps,
     ConnectedKeeps, NotConnectedKeeps, HangUpKeeps, TakeDelsKeeps
  DEF ListenStep

\* The calls of clients.
LEMMA ClientCallKeeps ==
  ASSUME IInv, NEW t \in Clients, ClientCall(t)
  PROVE  IInv'
<1>1. PICK s \in Sockets : BeginOrder(t, s) \/ Begin(t, s) \/ socket_close(t, s) \/ ClientClose(t,
   s)
  BY DEF ClientCall
<1>2. Begin(t, s) \/ socket_close(t, s) => s \in Conns
  BY DEF Begin, socket_close
<1> QED
  BY <1>1, <1>2, BeginOrderKeeps, BeginKeeps, socket_closeKeeps, ClientCloseKeeps

\* No socket exists at the start, and listen_task waits.
LEMMA InitIInv == Init => IInv
<1> SUFFICES ASSUME Init PROVE IInv
  OBVIOUS
<1> USE Basics
<1>1. /\ \A s \in Sockets : /\ status[s] = [st |-> 0, n |-> 0] /\ fd_cat[s] = "none"
                            /\ closer[s] = NULL /\ cstep[s] = "no" /\ released[s] = 0
      /\ pc[listen_task] = "wait" /\ tgt[listen_task] = NULL
      /\ \A t \in Threads : /\ pc[t] \in {"wait", "idle"} /\ (pc[t] = "wait" <=> t = listen_task)
                            /\ tgt[t] = NULL /\ fd[t] = NULL /\ made[t] = NULL
      /\ listener = {} /\ piped = {} /\ epoll = {} /\ open = {} /\ lost = {} /\ dels = {}
      /\ batch = {} /\ events = {} /\ frees = {}
  BY DEF Init
<1>2. SocketTypes
  <2>1. [st |-> 0, n |-> 0] \in [st : {0, STATUS_CLOSED}, n : Int]
    OBVIOUS
  <2>2. status \in [Sockets -> [st : {0, STATUS_CLOSED}, n : Int]]
    BY <2>1 DEF Init
  <2> QED
    BY <2>2 DEF Init, SocketTypes, Cats, ListenPcs, ClientPcs, Resting
<1>3. TargetsRight
  BY <1>1 DEF TargetsRight, CatsRight, TargetOk, ListenPcs, ClientPcs, Resting
<1>4. UsersCounted
  <2>1. \A s \in Sockets : UsersOf(s) = {}
    BY <1>1 DEF UsersOf, Inside
  <2>2. Cardinality({}) = 0
    BY FS_EmptySet
  <2>3. \A s \in Sockets : status[s].n = 0
    BY <1>1
  <2> QED
    BY <2>1, <2>2, <2>3 DEF UsersCounted
<1>5. ClosingRight
  BY <1>1 DEF ClosingRight, STATUS_LEGAL_CLOSED, IsClosed, STATUS_CLOSED
<1>6. EventsRight /\ HandlerRight
  BY <1>1 DEF EventsRight, HandlerRight, Resting
<1>7. AddersRight
  BY <1>1 DEF AddersRight, AdderOk, AdderPcs
<1>8. FdsRight
  BY <1>1 DEF FdsRight, FdPcs, HasFd
<1> QED
  BY <1>2, <1>3, <1>4, <1>5, <1>6, <1>7, <1>8 DEF IInv

\* Every step keeps the invariant.
LEMMA NextKeeps == IInv /\ [Next]_vars => IInv'
<1> SUFFICES ASSUME IInv, [Next]_vars PROVE IInv'
  OBVIOUS
<1>1. ASSUME NEW s \in Sockets, _socket_close(s) PROVE IInv'
  BY <1>1, CloseFdKeeps, CloseNoFdKeeps, ClosePipeOfKeeps, EndDeferredKeeps, EndCloseKeeps
  DEF _socket_close
<1>2. CASE UNCHANGED vars
  <2>1. UNCHANGED <<status, fd_cat, socket_fd, listener, piped, epoll, open, lost, closer, cstep,
                    dels, released, pc, tgt, fd, made, batch, events, frees>>
    BY <1>2 DEF vars, sockVars, kernelVars, closeVars, threadVars, taskVars
  <2>2. SocketTypes' /\ TargetsRight'
    BY <2>1 DEF IInv, SocketTypes, TargetsRight, CatsRight, TargetOk, Exists
  <2>3. UsersCounted' /\ ClosingRight'
    BY <2>1 DEF IInv, UsersCounted, UsersOf, Inside, ClosingRight
  <2>4. EventsRight' /\ HandlerRight' /\ AddersRight'
    BY <2>1 DEF IInv, EventsRight, HandlerRight, AddersRight, AdderOk, Known
  <2>5. FdsRight'
    BY <2>1 DEF IInv, FdsRight, HasFd
  <2> QED
    BY <2>2, <2>3, <2>4, <2>5 DEF IInv
<1> QED
  BY <1>1, <1>2, ThreadStepKeeps, ListenStepKeeps, ClientCallKeeps DEF Next

-----------------------------------------------------------------------------
(* Theorems *)

\* The invariant holds for any sockets, descriptors and finite set of threads.
THEOREM Inductive == Spec => []IInv
BY InitIInv, NextKeeps, PTL DEF Spec

\* While listen_task has the event of a socket to handle, nobody has released the
\* socket or is about to, however clients close sockets at the same time and
\* whatever system calls fail (_socket_close, lines 208-225, and listen_task), and
\* the listener it calls is known: EventsAlive, with the one exception of
\* line 552 that EventsAlive names.
THEOREM EventsCorrect == Spec => []EventsAlive
<1>1. IInv => TypeOK
  <2> SUFFICES ASSUME IInv PROVE TypeOK
    OBVIOUS
  <2>1. \A s \in Sockets : status[s] \in [st : {0, STATUS_CLOSED}, n : 0 .. Cardinality(Threads)]
    <3> SUFFICES ASSUME NEW s \in Sockets
                 PROVE  status[s] \in [st : {0, STATUS_CLOSED}, n : 0 .. Cardinality(Threads)]
      OBVIOUS
    <3>1. status[s].n \in 0 .. Cardinality(Threads)
      BY ThreadsFinite DEF IInv, UsersCounted
    <3>2. status[s] \in [st : {0, STATUS_CLOSED}, n : Int]
      BY DEF IInv, SocketTypes
    <3> QED
      BY <3>1, <3>2
  <2>2. status \in [Sockets -> [st : {0, STATUS_CLOSED}, n : 0 .. Cardinality(Threads)]]
    BY <2>1 DEF IInv, SocketTypes
  <2>3. released \in [Sockets -> 0 .. 1]
    BY DEF IInv, SocketTypes
  <2> QED
    BY <2>2, <2>3 DEF IInv, SocketTypes, TypeOK
<1>2. IInv => EventsAlive
  <2> SUFFICES ASSUME IInv, NEW s \in Touched
               PROVE  /\ pc[listen_task] # "ordered" => released[s] = 0 /\ s \notin frees
                      /\ fd_cat[s] = "JOIN_SOCKET" /\ s \notin piped => s \in listener
    BY <1>1 DEF EventsAlive
  <2>1. pc[listen_task] \in ListenPcs
    BY Basics DEF IInv, TargetsRight, TargetOk
  <2>2. CASE \E e \in batch : s = e.s
    <3>1. PICK e \in batch : s = e.s
      BY <2>2
    <3>2. released[s] = 0 /\ Known(s)
      BY <3>1 DEF IInv, EventsRight
    <3>3. frees = {}
      BY <3>1 DEF IInv, ClosingRight
    <3> QED
      BY <3>2, <3>3 DEF Known
  <2>3. CASE /\ s = tgt[listen_task] /\ pc[listen_task] \notin Resting
             /\ ~(pc[listen_task] = "hup" /\ "hup" \notin events)
    <3>1. Known(s) /\ frees = {} /\ s \in Sockets
      BY <2>3, HandlerHas DEF IInv, HandlerRight, ClosingRight, Resting
    <3>2. CASE fd_cat[s] \in EventCats /\ released[s] = 0
      BY <3>1, <3>2 DEF Known
    <3>3. CASE fd_cat[s] = "NO_SOCKET" /\ pc[listen_task] \in {"new", "ready", "connected"}
      <4>1. listen_task \in UsersOf(s)
        BY <2>3, <3>3, Basics DEF UsersOf, Inside
      <4> QED
        BY <3>1, <3>3, <4>1, UserKeepsOpen
    <3>4. CASE fd_cat[s] = "NO_SOCKET" /\ pc[listen_task] = "ordered"
      BY <3>4
    <3> QED
      BY <2>3, <3>2, <3>3, <3>4 DEF IInv, HandlerRight
  <2> QED
    BY <2>2, <2>3 DEF Touched, Resting
<1> QED
  BY <1>2, Inductive, PTL

\* Every open descriptor belongs to one socket or one local variable, apart from
\* those that failed calls have given up, and nobody uses or closes one that is
\* closed: FdsOwned (common_socket.c, lines 210, 341-363, 430-446 and 543-546).
THEOREM DescriptorsCorrect == Spec => []FdsOwned
<1> DEFINE owners(f) ==
      {s \in Sockets : HasFd(s) /\ socket_fd[s] = f} \cup {t \in Threads : fd[t] = f}
<1>1. ASSUME IInv, NEW f \in open
      PROVE  Cardinality(owners(f)) = IF f \in lost THEN 0 ELSE 1
  <2>0. f # NULL
    BY <1>1, Basics DEF IInv, SocketTypes
  <2>1. CASE f \in lost
    <3>1. owners(f) = {}
      BY <1>1, <2>0, <2>1 DEF IInv, FdsRight
    <3> QED
      BY <2>1, <3>1, FS_EmptySet
  <2>2. CASE f \notin lost
    <3>1. \E x : owners(f) = {x}
      <4>1. CASE \E s \in Sockets : HasFd(s) /\ socket_fd[s] = f
        <5>1. PICK s \in Sockets : HasFd(s) /\ socket_fd[s] = f
          BY <4>1
        <5>2. owners(f) = {s}
          BY <1>1, <2>0, <5>1 DEF IInv, FdsRight
        <5> QED
          BY <5>2
      <4>2. CASE \E t \in Threads : fd[t] = f
        <5>1. PICK t \in Threads : fd[t] = f
          BY <4>2
        <5>2. owners(f) = {t}
          BY <1>1, <2>0, <5>1 DEF IInv, FdsRight
        <5> QED
          BY <5>2
      <4> QED
        BY <1>1, <2>2, <4>1, <4>2 DEF IInv, FdsRight
    <3> QED
      BY <2>2, <3>1, FS_Singleton
  <2> QED
    BY <2>1, <2>2
<1>2. ASSUME IInv, NEW f \in Fds \ open PROVE owners(f) = {}
  BY <1>2, Basics DEF IInv, FdsRight
<1>3. ASSUME IInv, NEW s \in epoll PROVE HasFd(s)
  BY <1>3 DEF IInv, EventsRight, EventCats, HasFd
<1>4. IInv => FdsOwned
  BY <1>1, <1>2, <1>3 DEF FdsOwned
<1> QED
  BY <1>4, Inductive, PTL
=============================================================================
