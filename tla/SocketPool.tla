----------------------------- MODULE SocketPool -----------------------------
(***************************************************************************)
(* common_socket.c: the life of sockets between the threads that order,    *)
(* start, use and close them and the thread that waits for their events    *)
(* (listen_task).                                                          *)
(*                                                                         *)
(* An order is the socket of new_socket or new_listen_socket; when it is   *)
(* connected, or accepts, _new_socket makes a connection of it.  Every     *)
(* socket has a useing word (UseingRef) and a pipe (MoonPipe), which is a  *)
(* flag here: get_other_point_ref fails on a closed pipe, and closing it   *)
(* from the other side calls socket_close.  A thread that works on a       *)
(* connection, or calls new_socket, has a reference to its pipe;           *)
(* listen_task has none but the socket's own.                              *)
(*                                                                         *)
(* The system calls may fail.  A descriptor number is used again once it   *)
(* is closed.  cur_socket_num, which nobody reads, is left out, and so are *)
(* the bytes that are read and written.                                    *)
(***************************************************************************)
EXTENDS UseingStatus, FiniteSets

CONSTANTS
  Orders,       \* the sockets of new_socket and new_listen_socket
  Conns,        \* the sockets of _new_socket
  Clients,      \* the threads that use them
  listen_task,  \* the thread that waits for events
  Fds,          \* bound: the descriptor numbers
  NULL

ASSUME SocketAssumption ==
  /\ Orders \cap Conns = {}
  /\ listen_task \notin Clients
  /\ Fds \subseteq Nat
  /\ NULL \notin Orders \cup Conns \cup Clients \cup {listen_task} \cup Fds
  /\ IsFiniteSet(Clients)
  /\ (Orders \cup Conns) \cap (Clients \cup {listen_task}) = {}

Sockets == Orders \cup Conns

Threads == Clients \cup {listen_task}

VARIABLES
  status,     \* status[s]: the useing word
  fd_cat,     \* "none" before the socket is made
  socket_fd,  \* socket_fd[s]: its descriptor
  listener,   \* the connections whose p_io_listener_i is set
  piped,      \* the sockets whose pipe is closed
  epoll,      \* the sockets that are registered with epoll
  open,       \* the descriptors that are open
  lost,       \* the open descriptors that the code has given up (history)
  closer,     \* closer[s]: the thread that runs _socket_close, or NULL
  cstep,      \* how far it is
  dels,       \* p_dels
  released,   \* released[s]: how often the socket's own reference was dropped
  pc,         \* where a thread is
  tgt,        \* the socket it works on
  fd,         \* its local descriptor
  made,       \* the connection it has made in _new_socket
  batch,      \* the events of epoll_wait that listen_task has still to look at
  events,     \* the bits of the event it is looking at
  frees       \* the sockets that it has taken from p_dels

sockVars == <<status, fd_cat, socket_fd, listener>>
kernelVars == <<epoll, open, lost>>
closeVars == <<closer, cstep, dels, released>>
threadVars == <<pc, tgt, fd, made>>
taskVars == <<batch, events, frees>>
vars == <<sockVars, piped, kernelVars, closeVars, threadVars, taskVars>>

Init ==
  /\ status = [s \in Sockets |-> [st |-> 0, n |-> 0]]
  /\ fd_cat = [s \in Sockets |-> "none"]
  /\ socket_fd = [s \in Sockets |-> NULL]
  /\ listener = {}
  /\ piped = {}
  /\ epoll = {}
  /\ open = {}
  /\ lost = {}
  /\ closer = [s \in Sockets |-> NULL]
  /\ cstep = [s \in Sockets |-> "no"]
  /\ dels = {}
  /\ released = [s \in Sockets |-> 0]
  /\ pc = [t \in Threads |-> IF t = listen_task THEN "wait" ELSE "idle"]
  /\ tgt = [t \in Threads |-> NULL]
  /\ fd = [t \in Threads |-> NULL]
  /\ made = [t \in Threads |-> NULL]
  /\ batch = {}
  /\ events = {}
  /\ frees = {}

-----------------------------------------------------------------------------
(* The useing word, and _socket_close *)

Exists(s) == fd_cat[s] # "none"

\* t is at p and not inside _socket_close.
At(t, p) == pc[t] = p /\ \A s \in Sockets : closer[s] # t

\* t goes to p with the socket s.
Takes(t, p, s) ==
  /\ pc' = [pc EXCEPT ![t] = p]
  /\ tgt' = [tgt EXCEPT ![t] = s]

\* t goes to p, at the end of a call without a socket.
Goto(t, p) == Takes(t, p, IF p \in {"idle", "next"} THEN NULL ELSE tgt[t])

MayEnter(s) == ~IsClosed(status[s])

\* useing_ref_inc succeeds.
useing_ref_inc(s) == status' = [status EXCEPT ![s] = AddUser(@)]

\* t calls _socket_close when cond holds.
CallsClose(t, s, cond) ==
  /\ closer' = IF cond THEN [closer EXCEPT ![s] = t] ELSE closer
  /\ cstep' = IF cond THEN [cstep EXCEPT ![s] = "fd"] ELSE cstep
  /\ UNCHANGED <<dels, released>>

\* Variant of useing_ref_dec that never calls _socket_close.
useing_ref_dec_NoCall(t, s) ==
  /\ status' = [status EXCEPT ![s] = SubUser(@)]
  /\ UNCHANGED closeVars

useing_ref_dec(t, s) ==
  /\ status' = [status EXCEPT ![s] = SubUser(@)]
  /\ CallsClose(t, s, STATUS_LEGAL_CLOSED(SubUser(status[s])))

set_status_closed(t, s) ==
  IF IsClosed(status[s]) THEN UNCHANGED <<status, closeVars>>
  ELSE /\ status' = [status EXCEPT ![s] = MarkClosed(@)]
       /\ CallsClose(t, s, NoUser(status[s]))

\* epoll_ctl( EPOLL_CTL_DEL ) and close.
CloseFd(s) ==
  /\ cstep[s] = "fd"
  /\ cstep' = [cstep EXCEPT ![s] = "pipe"]
  /\ IF fd_cat[s] = "NO_SOCKET" THEN UNCHANGED <<epoll, open>>
     ELSE epoll' = epoll \ {s} /\ open' = open \ {socket_fd[s]}
  /\ UNCHANGED <<sockVars, piped, lost, closer, dels, released, threadVars, taskVars>>

\* The pipe is closed from the socket's side.
ClosePipeOf(s) ==
  /\ cstep[s] = "pipe"
  /\ cstep' = [cstep EXCEPT ![s] = "ref"]
  /\ piped' = piped \cup {s}
  /\ UNCHANGED <<sockVars, kernelVars, closer, dels, released, threadVars, taskVars>>

\* Variant of Deferred that never waits for listen_task.
Deferred_Never(s) == FALSE

\* The socket may have an event in the batch of listen_task.
Deferred(s) == fd_cat[s] \notin {"UNJOIN_SOCKET", "NO_SOCKET"}

\* The socket's own reference is dropped, or left to listen_task.
EndClose(s) ==
  /\ cstep[s] = "ref"
  /\ cstep' = [cstep EXCEPT ![s] = "done"]
  /\ closer' = [closer EXCEPT ![s] = NULL]
  /\ IF Deferred(s)
     THEN dels' = dels \cup {s} /\ UNCHANGED released
     ELSE released' = [released EXCEPT ![s] = @ + 1] /\ UNCHANGED dels
  /\ UNCHANGED <<sockVars, piped, kernelVars, threadVars, taskVars>>

-----------------------------------------------------------------------------
(* new_socket and new_listen_socket *)

\* Up to init_done: the order exists and its pipe is ready.
BeginOrder(t, s) ==
  /\ At(t, "idle")
  /\ s \in Orders /\ ~Exists(s)
  /\ fd_cat' = [fd_cat EXCEPT ![s] = "NO_SOCKET"]
  /\ Takes(t, "socket", s)
  /\ UNCHANGED <<status, socket_fd, listener, piped, kernelVars, closeVars, fd, made, taskVars>>

\* The descriptor of socket and accept: the lowest number that is free.
FreeFd == CHOOSE f \in Fds \ open : \A g \in Fds \ open : f <= g

\* socket.  What is the same in both functions comes before the choice between
\* them: new_socket goes on with connect, new_listen_socket with bind.
NewFd(t) ==
  /\ At(t, "socket")
  /\ Fds \ open # {}
  /\ open' = open \cup {FreeFd}
  /\ fd' = [fd EXCEPT ![t] = FreeFd]
  /\ Goto(t, "connect") \/ Goto(t, "bind")
  /\ UNCHANGED <<sockVars, piped, epoll, lost, closeVars, made, taskVars>>

\* getaddrinfo or socket fails (addr_error, socket_error), or fcntl, bind or
\* listen does (set_error).
OrderFails(t) ==
  /\ \/ At(t, "socket") /\ Goto(t, "addr_error")
     \/ (At(t, "connect") \/ At(t, "bind")) /\ Goto(t, "set_error")
  /\ UNCHANGED <<sockVars, piped, kernelVars, closeVars, fd, made, taskVars>>

\* connect fails at once: neither the descriptor nor the socket is closed.
ConnectFails(t) ==
  /\ At(t, "connect")
  /\ Goto(t, "idle")
  /\ lost' = lost \cup {fd[t]}
  /\ fd' = [fd EXCEPT ![t] = NULL]
  /\ UNCHANGED <<sockVars, piped, epoll, open, closeVars, made, taskVars>>

\* connect succeeds at once: _new_socket.
ConnectSucceeds(t) ==
  /\ At(t, "connect")
  /\ Goto(t, "new")
  /\ UNCHANGED <<sockVars, piped, kernelVars, closeVars, fd, made, taskVars>>

\* EINPROGRESS, or listen has succeeded: useing_ref_inc, and the descriptor
\* becomes the socket's.
OrderEnter(t) ==
  LET s == tgt[t] IN
  /\ At(t, "connect") \/ At(t, "bind")
  /\ IF MayEnter(s)
     THEN /\ useing_ref_inc(s)
          /\ socket_fd' = [socket_fd EXCEPT ![s] = fd[t]]
          /\ fd_cat' = [fd_cat EXCEPT ![s] =
               IF pc[t] = "connect" THEN "CONNECT_SOCKET" ELSE "LISTEN_SOCKET"]
          /\ fd' = [fd EXCEPT ![t] = NULL]
          /\ Goto(t, "add")
     ELSE Goto(t, "set_error") /\ UNCHANGED <<status, socket_fd, fd_cat, fd>>
  /\ UNCHANGED <<listener, piped, kernelVars, closeVars, made, taskVars>>

\* epoll_ctl( EPOLL_CTL_ADD ), for orders and for connections.
EpollAdd(t) ==
  /\ At(t, "add")
  /\ epoll' = epoll \cup {tgt[t]}
  /\ Goto(t, "leave")
  /\ UNCHANGED <<sockVars, piped, open, lost, closeVars, fd, made, taskVars>>

\* Variant of CatUnadded that leaves fd_cat as it is.
CatUnadded_Kept(s) == fd_cat[s]

\* fd_cat of a socket that epoll has refused.
CatUnadded(s) == IF s \in Orders THEN "NO_SOCKET" ELSE "UNJOIN_SOCKET"

\* It fails.  The descriptor of an order is the caller's again.
EpollAddFails(t) ==
  LET s == tgt[t] IN
  /\ At(t, "add")
  /\ fd_cat' = [fd_cat EXCEPT ![s] = CatUnadded(s)]
  /\ fd' = IF s \in Orders THEN [fd EXCEPT ![t] = socket_fd[s]] ELSE fd
  /\ Goto(t, IF s \in Orders THEN "unadd" ELSE "leave")
  /\ UNCHANGED <<status, socket_fd, listener, piped, kernelVars, closeVars, made, taskVars>>

\* useing_ref_dec at the end of a call, or on the way to set_error.
Leave(t) ==
  /\ \/ At(t, "leave") /\ Goto(t, "idle")
     \/ At(t, "unadd") /\ Goto(t, "set_error")
  /\ useing_ref_dec(t, tgt[t])
  /\ UNCHANGED <<fd_cat, socket_fd, listener, piped, kernelVars, fd, made, taskVars>>

\* set_error: close.
SetError(t) ==
  /\ At(t, "set_error")
  /\ open' = open \ {fd[t]}
  /\ fd' = [fd EXCEPT ![t] = NULL]
  /\ Goto(t, "addr_error")
  /\ UNCHANGED <<sockVars, piped, epoll, lost, closeVars, made, taskVars>>

\* addr_error, and socket_close called by the pipe.
AddrError(t) ==
  /\ At(t, "addr_error")
  /\ set_status_closed(t, tgt[t])
  /\ Goto(t, "idle")
  /\ UNCHANGED <<fd_cat, socket_fd, listener, piped, kernelVars, fd, made, taskVars>>

-----------------------------------------------------------------------------
(* _new_socket: t has a connected descriptor of the order tgt[t] *)

\* Where t goes on.
AfterNew(t) ==
  IF t # listen_task THEN "addr_error"
  ELSE IF fd_cat[tgt[t]] = "LISTEN_SOCKET" THEN "accept" ELSE "connected"

\* fcntl, get_other_point_ref or pipe_new fails: nobody closes the descriptor.
NewFails(t) ==
  /\ At(t, "new")
  /\ lost' = lost \cup {fd[t]}
  /\ fd' = [fd EXCEPT ![t] = NULL]
  /\ Goto(t, AfterNew(t))
  /\ UNCHANGED <<sockVars, piped, epoll, open, closeVars, made, taskVars>>

\* A connection is made and on_ready called, which makes it known to the clients.
NewConn(t, c) ==
  /\ At(t, "new")
  /\ tgt[t] \notin piped
  /\ c \in Conns /\ ~Exists(c)
  /\ fd_cat' = [fd_cat EXCEPT ![c] = "UNJOIN_SOCKET"]
  /\ socket_fd' = [socket_fd EXCEPT ![c] = fd[t]]
  /\ fd' = [fd EXCEPT ![t] = NULL]
  /\ made' = [made EXCEPT ![t] = c]
  /\ Goto(t, "ready")
  /\ UNCHANGED <<status, listener, piped, kernelVars, closeVars, taskVars>>

\* on_ready returns 0, or an error: then the connection is closed.
on_ready(t) ==
  /\ At(t, "ready")
  /\ set_status_closed(t, made[t]) \/ UNCHANGED <<status, closeVars>>
  /\ made' = [made EXCEPT ![t] = NULL]
  /\ Goto(t, AfterNew(t))
  /\ UNCHANGED <<fd_cat, socket_fd, listener, piped, kernelVars, fd, taskVars>>

-----------------------------------------------------------------------------
(* Clients *)

\* A client gets at a connection through its pipe.
Reaches(t, c) == At(t, "idle") /\ Exists(c) /\ c \notin piped

\* socket_read, socket_write, and socket_control with SOCKET_START.
Begin(t, c) ==
  /\ Reaches(t, c) /\ c \in Conns
  /\ MayEnter(c)
  /\ useing_ref_inc(c)
  /\ Takes(t, "leave", c) \/ Takes(t, "start", c)
  /\ UNCHANGED <<fd_cat, socket_fd, listener, piped, kernelVars, closeVars, fd, made, taskVars>>

\* The compare-and-swap of fd_cat: one caller joins the socket.
StartSwap(t) ==
  LET c == tgt[t] IN
  /\ At(t, "start")
  /\ IF fd_cat[c] = "UNJOIN_SOCKET"
     THEN fd_cat' = [fd_cat EXCEPT ![c] = "JOIN_SOCKET"] /\ Goto(t, "listener")
     ELSE Goto(t, "leave") /\ UNCHANGED fd_cat
  /\ UNCHANGED <<status, socket_fd, listener, piped, kernelVars, closeVars, fd, made, taskVars>>

\* p_io_listener_i, if the other side is still there.
StartListener(t) ==
  /\ At(t, "listener")
  /\ listener' = IF tgt[t] \in piped THEN listener ELSE listener \cup {tgt[t]}
  /\ Goto(t, "add")
  /\ UNCHANGED <<status, fd_cat, socket_fd, piped, kernelVars, closeVars, fd, made, taskVars>>

\* socket_close called by a client.
socket_close(t, c) ==
  /\ Reaches(t, c) /\ c \in Conns
  /\ set_status_closed(t, c)
  /\ UNCHANGED <<fd_cat, socket_fd, listener, piped, kernelVars, threadVars, taskVars>>

\* A client closes its end of the pipe, which calls socket_close.
ClientClose(t, s) ==
  /\ Reaches(t, s)
  /\ piped' = piped \cup {s}
  /\ Takes(t, "addr_error", s)
  /\ UNCHANGED <<sockVars, kernelVars, closeVars, fd, made, taskVars>>

-----------------------------------------------------------------------------
(* listen_task *)

\* The events a registered socket may have.  An order that is being connected
\* asks for EPOLLOUT, one that listens for EPOLLIN; EPOLLRDHUP, EPOLLERR and
\* EPOLLHUP ("hup") come unasked.
Asked(s) ==
  CASE fd_cat[s] = "CONNECT_SOCKET" -> {"out", "hup"}
    [] fd_cat[s] = "LISTEN_SOCKET" -> {"in", "hup"}
    [] OTHER -> {"in", "out", "hup"}

\* epoll_wait: any registered sockets, none after a timeout.
EpollWait ==
  /\ At(listen_task, "wait")
  /\ \E S \in SUBSET epoll :
       \E bits \in [S -> (SUBSET {"in", "out", "hup"}) \ {{}}] :
         /\ \A s \in S : bits[s] \subseteq Asked(s)
         /\ batch' = {[s |-> s, bits |-> bits[s]] : s \in S}
  /\ Goto(listen_task, "next")
  /\ UNCHANGED <<sockVars, piped, kernelVars, closeVars, fd, made, events, frees>>

\* The next event of the batch.
NextEvent(e) ==
  /\ At(listen_task, "next") /\ e \in batch
  /\ batch' = batch \ {e}
  /\ events' = e.bits
  /\ Takes(listen_task, "in", e.s)
  /\ UNCHANGED <<sockVars, piped, kernelVars, closeVars, fd, made, frees>>

\* recv_event or send_event of a joined socket: the client is called, or the
\* pipe is closed and the socket is closed too.  user_data is left out.
Joined(s) ==
  /\ fd_cat[s] = "JOIN_SOCKET"
  /\ IF s \in piped THEN set_status_closed(listen_task, s) ELSE UNCHANGED <<status, closeVars>>

\* useing_ref_inc of an order, and where listen_task goes on; set_status_closed
\* of an order that it fails on, being closed, does nothing.
OrderEvent(s, cat, inside, otherwise) ==
  /\ fd_cat[s] = cat
  /\ IF MayEnter(s)
     THEN useing_ref_inc(s) /\ Goto(listen_task, inside)
     ELSE Goto(listen_task, otherwise) /\ UNCHANGED status
  /\ UNCHANGED closeVars

\* EPOLLIN
_socket_can_read ==
  LET s == tgt[listen_task] IN
  /\ At(listen_task, "in")
  /\ \/ "in" \in events /\ Joined(s) /\ Goto(listen_task, "out")
     \/ "in" \in events /\ OrderEvent(s, "LISTEN_SOCKET", "accept", "out")
     \/ "in" \notin events /\ Goto(listen_task, "out") /\ UNCHANGED <<status, closeVars>>
  /\ UNCHANGED <<fd_cat, socket_fd, listener, piped, kernelVars, fd, made, taskVars>>

\* accept gives a connection: _new_socket.
Accept ==
  /\ At(listen_task, "accept")
  /\ Fds \ open # {}
  /\ open' = open \cup {FreeFd}
  /\ fd' = [fd EXCEPT ![listen_task] = FreeFd]
  /\ Goto(listen_task, "new")
  /\ UNCHANGED <<sockVars, piped, epoll, lost, closeVars, made, taskVars>>

\* accept gives an error.
AcceptEnd ==
  /\ At(listen_task, "accept")
  /\ useing_ref_dec(listen_task, tgt[listen_task])
  /\ Goto(listen_task, "out")
  /\ UNCHANGED <<fd_cat, socket_fd, listener, piped, kernelVars, fd, made, taskVars>>

\* EPOLLOUT
_socket_can_write ==
  LET s == tgt[listen_task] IN
  /\ At(listen_task, "out")
  /\ \/ "out" \in events /\ Joined(s) /\ Goto(listen_task, "hup")
     \/ "out" \in events /\ OrderEvent(s, "CONNECT_SOCKET", "getsockopt", "hup")
     \/ "out" \notin events /\ Goto(listen_task, "hup") /\ UNCHANGED <<status, closeVars>>
  /\ UNCHANGED <<fd_cat, socket_fd, listener, piped, kernelVars, fd, made, taskVars>>

\* getsockopt( SO_ERROR ) gives 0, which it does not when there was an EPOLLERR
\* or EPOLLHUP: the descriptor is taken from the order.
Connected ==
  LET s == tgt[listen_task] IN
  /\ At(listen_task, "getsockopt")
  /\ "hup" \notin events
  /\ fd_cat' = [fd_cat EXCEPT ![s] = "NO_SOCKET"]
  /\ epoll' = epoll \ {s}
  /\ fd' = [fd EXCEPT ![listen_task] = socket_fd[s]]
  /\ Goto(listen_task, "new")
  /\ UNCHANGED <<status, socket_fd, listener, piped, open, lost, closeVars, made, taskVars>>

NotConnected ==
  /\ At(listen_task, "getsockopt")
  /\ Goto(listen_task, "connected")
  /\ UNCHANGED <<sockVars, piped, kernelVars, closeVars, fd, made, taskVars>>

\* useing_ref_dec of the order ...
ConnectLeave ==
  /\ At(listen_task, "connected")
  /\ useing_ref_dec(listen_task, tgt[listen_task])
  /\ Goto(listen_task, "ordered")
  /\ UNCHANGED <<fd_cat, socket_fd, listener, piped, kernelVars, fd, made, taskVars>>

\* ... and set_status_closed.
ConnectDone ==
  /\ At(listen_task, "ordered")
  /\ set_status_closed(listen_task, tgt[listen_task])
  /\ Goto(listen_task, "hup")
  /\ UNCHANGED <<fd_cat, socket_fd, listener, piped, kernelVars, fd, made, taskVars>>

\* EPOLLRDHUP, EPOLLERR or EPOLLHUP
HangUp ==
  /\ At(listen_task, "hup")
  /\ IF "hup" \in events THEN set_status_closed(listen_task, tgt[listen_task])
     ELSE UNCHANGED <<status, closeVars>>
  /\ events' = {}
  /\ Goto(listen_task, "next")
  /\ UNCHANGED <<fd_cat, socket_fd, listener, piped, kernelVars, fd, made, batch, frees>>

\* After the batch p_dels is taken ...
TakeDels ==
  /\ At(listen_task, "next") /\ batch = {}
  /\ frees' = dels
  /\ dels' = {}
  /\ Goto(listen_task, "free")
  /\ UNCHANGED <<sockVars, piped, kernelVars, closer, cstep, released, fd, made, batch, events>>

\* ... and the sockets in it are released, then epoll_wait is called again.
FreeDel ==
  /\ At(listen_task, "free")
  /\ \/ \E s \in frees :
          /\ frees' = frees \ {s}
          /\ released' = [released EXCEPT ![s] = @ + 1]
          /\ UNCHANGED <<pc, tgt>>
     \/ frees = {} /\ Goto(listen_task, "wait") /\ UNCHANGED <<frees, released>>
  /\ UNCHANGED <<sockVars, piped, kernelVars, closer, cstep, dels, fd, made, batch, events>>

-----------------------------------------------------------------------------
\* The steps of a call that t has begun.
ThreadStep(t) ==
  \/ NewFd(t) \/ OrderFails(t) \/ ConnectFails(t) \/ ConnectSucceeds(t) \/ OrderEnter(t)
  \/ EpollAdd(t) \/ EpollAddFails(t) \/ Leave(t) \/ SetError(t) \/ AddrError(t)
  \/ NewFails(t) \/ (\E c \in Conns : NewConn(t, c)) \/ on_ready(t)
  \/ StartSwap(t) \/ StartListener(t)

ListenStep ==
  \/ EpollWait \/ (\E e \in batch : NextEvent(e))
  \/ _socket_can_read \/ Accept \/ AcceptEnd
  \/ _socket_can_write \/ Connected \/ NotConnected \/ ConnectLeave \/ ConnectDone
  \/ HangUp \/ TakeDels \/ FreeDel

_socket_close(s) == CloseFd(s) \/ ClosePipeOf(s) \/ EndClose(s)

\* The calls that clients make.
ClientCall(t) ==
  \E s \in Sockets : BeginOrder(t, s) \/ Begin(t, s) \/ socket_close(t, s) \/ ClientClose(t, s)

Next ==
  \/ \E t \in Threads : ThreadStep(t)
  \/ ListenStep
  \/ \E s \in Sockets : _socket_close(s)
  \/ \E t \in Clients : ClientCall(t)

Spec == Init /\ [][Next]_vars

\* Threads keep running, epoll_wait returns after 100 ms, and a queue of pending
\* connections comes to its end.
Fairness ==
  /\ \A t \in Threads : WF_vars(ThreadStep(t))
  /\ WF_vars(ListenStep)
  /\ SF_vars(AcceptEnd)
  /\ \A s \in Sockets : WF_vars(_socket_close(s))

FairSpec == Spec /\ Fairness

-----------------------------------------------------------------------------
(* Properties *)

Cats == {"UNJOIN_SOCKET", "JOIN_SOCKET", "CONNECT_SOCKET", "LISTEN_SOCKET", "NO_SOCKET"}

\* The variables have their types.
TypeOK ==
  /\ status \in [Sockets -> [st : {0, STATUS_CLOSED}, n : 0 .. Cardinality(Threads)]]
  /\ fd_cat \in [Sockets -> Cats \cup {"none"}]
  /\ socket_fd \in [Sockets -> Fds \cup {NULL}]
  /\ listener \subseteq Conns /\ piped \subseteq Sockets /\ epoll \subseteq Sockets
  /\ lost \subseteq open /\ open \subseteq Fds
  /\ closer \in [Sockets -> Threads \cup {NULL}]
  /\ dels \subseteq Sockets /\ frees \subseteq Sockets
  /\ released \in [Sockets -> 0 .. 1]
  /\ tgt \in [Threads -> Sockets \cup {NULL}]
  /\ fd \in [Threads -> Fds \cup {NULL}]
  /\ made \in [Threads -> Conns \cup {NULL}]

\* The sockets of the events that listen_task has got from epoll_wait and not
\* looked at, and the one it is working on, of which it reads no more than the
\* bits of the event at the end.
Touched ==
  {e.s : e \in batch} \cup
  (IF pc[listen_task] \in {"wait", "next", "free"} \/ (pc[listen_task] = "hup" /\ "hup" \notin events)
   THEN {} ELSE {tgt[listen_task]})

\* listen_task has no reference to the sockets whose events it handles.  None of
\* them is released before it is done with it, although clients close sockets
\* at any time (lines 213-222 put them off to the end of the batch), and the
\* listener that it calls is known.  The one exception is line 552: an order
\* that a client closes while listen_task is inside _socket_can_write is released
\* by the useing_ref_dec of line 551 and used once more after that.
EventsAlive ==
  /\ TypeOK
  /\ \A s \in Touched :
       /\ pc[listen_task] # "ordered" => released[s] = 0 /\ s \notin frees
       /\ fd_cat[s] = "JOIN_SOCKET" /\ s \notin piped => s \in listener

\* The rule of moon_session.c:19: who goes on using what others can find has to
\* hold a reference.  The code does not keep it: line 552 refutes this.
InUseIsReferenced == \A s \in Touched : released[s] = 0

\* The sockets that will close their descriptor: they exist and _socket_close
\* has not come to it.
HasFd(s) == fd_cat[s] \notin {"none", "NO_SOCKET"} /\ cstep[s] \in {"no", "fd"}

\* An open descriptor belongs to one socket or one local variable, which will
\* close it, apart from those that failed calls of connect and _new_socket have
\* given up.  Nobody uses or closes a descriptor that is closed and may have
\* been opened anew by somebody else (lines 210, 341-363, 430-446 and 543-546).
FdsOwned ==
  LET owners(f) == {s \in Sockets : HasFd(s) /\ socket_fd[s] = f} \cup {t \in Threads : fd[t] = f}
  IN /\ \A f \in open : Cardinality(owners(f)) = IF f \in lost THEN 0 ELSE 1
     /\ \A f \in Fds \ open : owners(f) = {}
     /\ \A s \in epoll : HasFd(s)

\* A socket that is closed is released, by whoever is the last to use it or by
\* listen_task.
ClosedIsReleased == \A s \in Sockets : IsClosed(status[s]) ~> released[s] = 1
=============================================================================
