# Verification of moon_in_water

TLA+ models of the concurrent core of `moon_in_water`, checked with TLC and, where an
invariant can be made inductive, proved with TLAPS.

All code is C with pthreads under `src/moon_code`. What is built: `debug`, `ring_buffer`,
of `common` the AVL tree and the pipe (the max-min heap is commented out), of `network` the
timer, the thread pool, the sockets, the dns resolver and the thread info. The session
layer with its memory and its packets is not in the build. `sync` builds `moon_runtime.c`,
which does not compile as it is checked in. The session and the runtime are drafts; they
are modelled function by function where the functions are complete, with the few names
they do not declare read as stated below.

## The system

| Component | State | Operations | Interacts with | What is hard | What makes it correct |
|---|---|---|---|---|---|
| useing status word (`moon_common.h`) | one `int`: status bits and a count of users | `useing_ref_inc`, `useing_ref_dec`, `set_status_closed` | used by pipe, sockets, versions | lock-free loops racing each other | released once, unused, if closed |
| pipe (`moon_pipe.c`) | reference count, status word, set-up mutex with its own word, two points | new, set_point_ref, init_done, get_other_point_ref, close, ref_inc, ref_dec | connects every pair of objects that call each other; holds references to both | close, last user, set-up and free race | no use after free, callbacks once, no leak, waiters return |
| timer (`moon_timer.c`) | AVL tree of chains of timers, cached earliest timer, status bits per timer | new, set, stop, restart, del; the timer thread | one pipe per timer; listeners are called without the mutex | operations on a timer whose listener is being called | a running timer is scheduled in one place, a deleted one is released once |
| ring buffer (`ring_buffer.c`) | buffer, two indices, closed flag, two condition variables | read, write, close with six flags | used by the thread pool | one signal wakes one thread; wrapping | a bounded queue; no lost wake-up |
| thread pool (`moon_pthread_pool.c`) | counters of processes and tasks, ring of tasks | put_task; process_func | ring buffer | growth and shrinking decide on stale counters, creation may fail | every accepted task is run once, enough processes |
| AVL tree (`moon_avltree.c`) | nodes with parent pointers and balances | add, delete, replace, search, traversals | timer, environments of the runtime | rotations on the way up after a deletion | search tree, balanced, of exactly what was added |
| socket pool (`common_socket.c`) | epoll set, status word per socket, deferred deletions | new_socket, close, control, can_write; listen_task | pipe, useing word | events for sockets being closed | no event for a freed socket |
| dns (`moon_dns.c`) | hash table of domains, list of cached ones, queries per domain, counted lists of addresses, c-ares channel | getaddrinfo, cancel; dns_task, domain_callback | pipe per query, c-ares | answer against cancel against eviction; the status of a query is written without the mutex | requests and status agree, each query is answered once or cancelled |
| shadow runtime (`moon_runtime.c`) | versions of an entity's memory, counted blocks, an overlay of private copies per environment | shadow_runtime, new, del, env_new; commit and update packets; adoption of versions at both ends | AVL tree, useing word, streams | both ends number blocks on their own, pointers travel as id and offset, versions grow old while in use | both ends hold what the program meant; nothing in use is freed |
| session streams (`moon_session.c`, `moon_session_mem.c`) | status, flags of waits, received packets, marks of timers, pipes | wait to receive or to send, receive, close from either side, timers | timer, pipes, the session | stale timers, closings that meet | waits end, pipes are freed once, closing ends |
| packets, max-min heap | | | not in the build | | |
| shadow code generator and its output (`sync/src/shell`) | | | text processing, generated code | | |
| debug, thread info, interface tables | none shared | | everywhere | | |

## Modules

| Module | Models |
|---|---|
| `UseingStatus` | the status word and its arithmetic; used by `UseingRef` and `MoonPipe` |
| `GuardedResource` | abstract: threads enter and leave until it is shut, then it is released once |
| `UseingRef` | the three functions on the word, every load and compare-and-swap a step |
| `UseingRefProofs` | its theorems |
| `MoonPipe` | one pipe and the threads that use it |
| `MoonPipeProofs` | its theorems |
| `MoonTimer` | the timer thread and its clients |
| `MoonTimerProofs` | its theorems |
| `ByteQueue` | abstract: a bounded queue of bytes |
| `RingBuffer` | `ring_read`, `ring_write`, `ring_close` |
| `RingBufferProofs` | its theorems |
| `SocketPool` | orders, connections, their clients and `listen_task` |
| `SocketPoolProofs` | its theorems |
| `PthreadPool` | the pool, over the ring as it uses it |
| `PthreadPoolProofs` | its theorems |
| `MoonDns` | clients, their queries, the cache of domains, `dns_task` and c-ares |
| `MoonDnsProofs` | its theorems |
| `AvlTree` | insertion, deletion, rotations, search as operators on a tree; its reference definition `IsAvlTreeOf` |
| `ShadowEnv` | an environment: a fixed version and the overlay of what the program has touched; uses `AvlTree` |
| `MoonNum` | the variable-length numbers of packets, with the widths as constants |
| `ShadowCommit` | versions and blocks at the home and the shadow end, packets between them; composes `ShadowEnv` and `MoonNum` |
| `SessionStream` | one stream, its user, the net and the timer thread |
| `SessionStreamProofs` | its theorems |
| `MC...` | symmetry sets and values of constants for TLC |

`PROJECT.json` maps every definition to the lines it models. Definitions whose name ends
in `_Something` behind the name of another one are variants with a plausible mistake;
they are used by nothing and show that a property notices the mistake.

### How state and steps correspond to the code

*UseingRef.* `status` is the word as a record of its low bits and its count; `tmp[t]` is
the local of the loop. A load and the exchange are separate steps, a failed exchange goes
back to the load. `close_fun` is a step of its own after the decision to call it. A
thread enters at most once at a time and leaves only if it has entered.

*MoonPipe.* One step per `__sync` operation, mutex operation or callback; the loops
themselves are one step each because `UseingRef` has checked them load by load. `gc[i]` is
the reference count of the object of point `i`, which the pipe, its owner and callers of
`get_other_point_ref` share. What callers do is taken from the modules that use pipes:
the creator sets the points and calls `init_done`, closes before it gives up its
reference, shares a one-way pipe only after `init_done`.

*MoonTimer.* `tree[d]` is the chain of the timers due in `d` ticks. The clock moves the
whole tree, so there is no unbounded time; `MaxLate` bounds how late the timer thread
may be. A client's critical section is two steps, load of the status and the rest,
because line 194 sets `TIMER_DEL` without the mutex. The pipe is a flag; that its listener
is called once is what `MoonPipe` shows. `avl_del2` of a node that is in no tree is
modelled as what it does: it stores NULL in the root.

*RingBuffer.* One step from getting the mutex (or a wake-up) to the return or the next
wait. A signal wakes any one waiting thread; wake-ups for no reason and deadlines are
free choices. `buffer`, `cur` and `end` are those of the code, with one slot unused, and
bytes copied behind the end of the buffer are not in it.

*SocketPool.* One step per useing operation, system call or callback, `_socket_close` in
three (epoll and descriptor, pipe, reference); the thread that runs it does nothing else
meanwhile. Every system call may fail. Descriptor numbers are handed out as the kernel
does, the lowest free one, so that a number is soon used again. An event of `epoll_wait`
is any set of the bits that the socket asked for, and the kernel's promise that
`SO_ERROR` is not 0 after `EPOLLERR` or `EPOLLHUP` is kept. That a pipe calls
`socket_close` once when the client closes its end is what `MoonPipe` shows. A caller of
`new_socket` is taken to keep a reference to the pipe until it returns; the early returns
on NULL arguments are left out.

*PthreadPool.* A critical section of `process_mutex` is a step, an iteration of
`ring_read` or `ring_write` another. `pthread_create` may fail; the history variable
`failed` remembers that it has, for the property on the size of the pool. The
ring is never closed by anyone, so `process_func`'s branch for a failed read is
unreachable and not modelled.

*MoonDns.* A critical section of the mutex is a step; the write of the status at line
404, `init_done`, the notices and the push to `p_add_cares` are steps of their own. A
domain is an object, because one that has left the table may be in use while another one
with its name is made. Addresses are counted objects without contents; whether a client
or `dns_task` finds them too old is a free choice. The pipe of a query is one-way and is
kept as its reference count, "closed" and "set up"; a client that closes its end during the
set-up has `cancel_query` called when it is over (`MoonPipe`). c-ares answers each request
once, with or without addresses, from `ares_process_fd` or at once from within
`ares_gethostbyname`: `p_list` is the domain that `dns_task` is asking for, `todo` what its
link leads to, and while `p_list` is set any request may be answered, the two for this domain
included (they are counted together, since which of them is answered makes no difference).
`Link` is a write of that link by others; when line 692 reads it in a domain that was freed,
the memory holds the old link or zeros. Two history variables name what the code then breaks:
`strayed` (the link has led elsewhere) and `spoilt` (the queries that line 404 marks as waiting
after they were taken out, and those that drop out of the list of `notice_user` when such a
query is cancelled). The default branch of `domain_callback` (line 587) can be reached only
after straying and is left out. A client keeps its reference to the pipe until its notice is
over; otherwise lines 302 and 315 would read the link of a query that they have given up.

*AvlTree, ShadowEnv.* A node is a key with its left and right child, parent and balance;
every function is an operator from trees to trees, with the order of assignments of the
macros `SET_LR` and `SET_PARENT`. A block has an id, an address, a length, one pointer,
`is_del` and `own` (whether its data is its own memory). One thread uses an environment
and passes addresses of blocks it has.

*ShadowCommit.* `heap[e]` holds the `mem_block`s of end `e`, with `ref_num` and
`p_original_block`; `versions[e]` the versions with `order_id`, `order_addr`, md5, status,
users and packet. `meant` is a history variable: what the program saw when it committed.
Packets are sequences of numbers in the units of `MoonNum`, the changed pointers as
`<id, offset>`, exclusive-ored with the old ones as in the code. `calloc` may give a block
any free address, different ones at the two ends. `_create_new_version` is one operator
with its checks, `update_loop`, `_recv_query_ack` and `server_recv_packet` are the actions
around it. One program runs at a time, the layout of types and zlib are trusted, MD5 does
not collide; when a version is added the home end has told of all older ones, and when a
query is answered of the newest one too (`cur_notice_version`, which the unfinished
`notice_task` moves). `get_update_packet` gives nothing where its counts disagree or nothing was
written (lines 2617, 2621, 2663); that lengths of blocks are not 0 (2604) and that memory
suffices is taken for granted. Read as their neighbours have them: line 2429 (`prev_data`) as line
2692, `HAS_WRITES_ID` as `HAS_NEW_ID`, `avl_traver_first` as the preorder walk, sections
copied from `data_ptr` and not from `pairs` (lines 2481, 2744). The end of an environment is
not written in the code; the model gives up its version when the program commits or stops.

*SessionStream.* A thread's part under `deferred_mutex` is a step, and each call after the
unlock is one, kept in `todo[thread]` in the order of the code. `owed` is what the user
waits for, `armed` the timer service, `freed` counts `SESSION_FREE_PIPE`, and `stolen` is a
history variable: the send side has cleared a wait for data. `lost` is another one: the
settings of timers that have left the service's tree without being called. `MoonTimer` shows
how (line 238), streams use timers in just that way, and any stream may be the one that does
it; so `TreeDropped` may drop any timers at any time, which is more than the code does. Read
as the lines around them: `p_session` in lines 1331 and 1387 as the stream,
`inter_close_stream` as `stream_remote_close`, and in `moon_session_mem.c:232` `p_block->head` as
the head of the hub `p_hub`; `inter_error_stream` (lines 2138, 2367) is defined nowhere and does
nothing. `OP` and `WIN_OP`, which are treated alike, are one pipe. References
to pipes are left out (line 1062 takes one on another pipe than line 1072 gives back).

## What TLC checks

| Run | Bounds | Checks | Shows |
|---|---|---|---|
| `UseingRef` | 3 threads | `TypeOK`, `CountIsUsers`, `ReleasedProperly`, `EventuallyReleased`, `ImplementsResource` | the count is exact; the resource is released once, unused, in the end; the word implements `GuardedResource` |
| `MoonPipe` | 3 threads, both kinds of pipe | `NoUseAfterFree`, `CallbacksRight`, `ReferencesRight`, `WaitersReturn`, `ImplementsResources` | memory, mutex and objects are used only while alive, callbacks run once, nothing leaks, waiters return, pipe and set-up mutex implement `GuardedResource` |
| `MoonTimer` | 2 timers, one endless with period 2, one that runs once with period 1; no step of line 238 (`LeavesOwn`) | `TreeRight`, `NoUseAfterRelease`, `FiniteStaysFinite`, `ScheduledFires`, `DelCarriedOut` | the earliest timer is cached right, each timer is in one place, no use after release; a finite timer never becomes endless, timers fire, deletions are carried out |
| `MoonTimerOnce` | 2 timers, once or endless, period 1 | `RunningIsScheduled`, violated | a one-shot timer that has fired takes the endless one with it |
| `Ring` | 2 readers, 1 writer, ring of 2, two kinds of bytes, lengths 1 and 2; default, `WAITALL` with `TIMEOUT`, `NOWAIT`, `PEEK` | `WaitersRight`, `ImplementsQueue` | the ring implements `ByteQueue`, no wake-up is lost, close reaches everybody, the end is reported only when drained |
| `SocketPool` | 1 order (connecting or listening), 1 connection, 2 clients, 2 descriptors | `EventsAlive`, `FdsOwned`, `ClosedIsReleased` | no event for a released socket, one owner per descriptor, every closed socket is released |
| `PthreadPool` | 3 callers, 3 tasks, 3 processes, `process_max` 2, `idle_max` 1, a ring of 2 tasks; creation may fail | `CountsAgree`, `TaskOnce`, `EnoughProcesses`, `AcceptedRuns` | counters agree with what they count, tasks run once, there are enough processes as long as none could not be created, accepted tasks are run |
| `MoonDns` | 2 queries, 2 domains (or a number), a cache of 1 that is empty or filled, 3 domain objects, 4 lists of addresses | `RequestsMatchStatus`, `CacheRight`, `QueriesRight`, `QueriesEnd` | a domain has as many requests as its status says and is never freed under one; table, list and counts of the cache agree; a query is taken out once; every query ends; all of it but for `strayed` and `spoilt` |
| `MoonDnsOvertaken` | as `MoonDns` | `TakenIsMarked`, violated | a query that was taken out is marked as waiting |
| `ShadowEnv` | a version of one block, 12 addresses | `OverlayIsTree`, `AddressesResolve` | insertion and deletion give an AVL tree of what was touched in any order; addresses resolve to the overlay before the version, writes to private memory |
| `ShadowCommit` | 3 addresses, blocks of 1 or 2, at most 3 versions at an end by commit, 1 new block and 2 operations per environment, numbers of 2+2+2 bits | `VersionsMeanIt`, `BlocksCounted`, `PacketsApply` | both ends hold the contents the program meant, in sorted arrays; blocks are counted right and not freed in use; packets apply wherever their base is |
| `SessionStream` | 2 waits, 1 packet of 1 or 2 bytes, 4 closable pipes, every starting status | `WaitsKept`, `PipesFreedOnce`, `WaitsEnd`, `ClosesEnd` | no wait is forgotten but the ones the send side takes, no wait for data has an event of another one; each pipe is freed once; timed waits and closings end, unless their timer was lost |

The bounds are small but reach the cases that matter: with three threads one can close,
one be the last to leave and one try to enter; with two timers one can be first of a
chain and the other behind it, or either be the earliest; two readers are the fewest for which
a signal can reach the wrong one; three
callers and as many processes as `process_max` plus a quitting one make growth and
quitting meet; an order and its connection are two sockets in one batch, with a client to
use and one to close them, and two descriptors are used again at once. A cache of one
domain and two names make every second answer an eviction, two queries for a domain make
one ask and the other join, clear or cancel, and the third object is the domain that is
made again while the old one is being freed. Twelve keys make trees of height four and more, with
every rotation on insertion and on deletion and the replacement of inner nodes. In
`ShadowCommit` the difference from the first version is asked for over one version
(`MaxLag`): over more, lines 3029-3038 read the row of the first new block for all of them
(see below). `RESET_MIN_LATER_VERSION_NUM` is 2 there, so that a shadow that is one version behind
is sent the next version and one that is unknown the difference; with 1 it is sent a
difference instead, and the properties hold as well. Two waits are a late timer and the wait it
must not end; of the pipes of a stream the closable ones are one of each way of closing
(user, session, root, timer).

`MoonTimer` has the constraint `LeavesOwn`: TLC does not go on from a state in which a client
is about to run line 238 on a timer that has run out while others are in the tree. What the
code does then is the run `MoonTimerOnce`. `LeavesOwn` is also the hypothesis of the
theorems on timers. `Uses` says which client gives its timer which count and period.

**Fairness.** Weak fairness on the steps of a thread that is in the middle of a call: the
scheduler runs it. No fairness on beginning a call, closing, timing out or spurious
wake-ups. In `MoonTimer` getting the timer mutex is strongly fair (a thread that asks for
a mutex that is free again and again gets it), and time passes. In `PthreadPool` tasks
return. In `SocketPool` `epoll_wait` returns after its timeout, and `accept` comes to the
end of the pending connections (strong fairness of `AcceptEnd`). In `MoonDns` the thread
goes round (`epoll_wait` has a timeout of a second) and c-ares, which is called every time
and gives up after one try, answers: strong fairness, because the thread is elsewhere in
between. In `SessionStream` the timer service calls a timer that stays in its tree (strong, since
its thread may be busy with another one); one that was dropped from the tree is not called, and the
properties except it by `Lost`. Runs that say `CHECK_DEADLOCK FALSE` are of
systems that may come to rest: all timers deleted, all tasks run, the pipe freed, the
bound on versions or waits reached.

### What the code does differently from what it says

The first two have a run that shows the violation. The next three TLC shows as well, when the
constants or the invariant of a run are changed as stated. The properties of the other
runs except them by name.

* `moon_timer.c:238`: a one-shot timer that has fired is in no tree, but `TIMER_STOP` is
  clear. Setting, stopping or deleting it runs `timer_leave_avl` into `avl_del2` on a
  detached node, which stores NULL in the root of the tree: every other timer is lost,
  although `moon_timer.h:8` promises that a negative `repeat_num` runs without end.
  (`MoonTimerOnce`.) The streams set, stop and free one-shot timers that have fired
  (`moon_session.c:910`, 1022, 1067, 1218, 1294), so a wait or a reset may lose its timer.
* `moon_dns.c:404`: the status of a query is written after the mutex is released. If both
  answers come first, a query that was taken out has status 0 again, against the comment of
  line 50, and a cancel takes it out once more, with one reference too many, or cuts
  the list that `notice_user` is going through. (`MoonDnsOvertaken`.)
* `moon_dns.c:692`: the link of a domain is read after `ares_gethostbyname` may have answered for
  it. By then the domain may be freed, or asked for again and linked anew, and the domains
  behind it get no requests or more than the two of the comment of line 68. (`MoonDns.cfg` with
  the invariant `TwoRequests`.)
* `ring_buffer.c:314`: with `RING_REPLACE_OLD` and contents that wrap around, `ring_write`
  copies behind the end of the buffer (it tests `end >= cur`), and readers find older
  bytes, while the loop counts them as "already write before" (line 353). (`Ring.cfg` with one
  reader, `BufferLen = 3`, `Lens = {1, 3}`, `ReadFlags <- NowaitFlags` and
  `WriteFlags <- ReplaceFlags`: `ImplementsQueue`.)
* `common_socket.c:552`: a client closes a connecting order while `listen_task` turns it into
  a connection. The `useing_ref_dec` of line 551 then runs `_socket_close`, which finds
  `NO_SOCKET` and drops the reference at once, and line 552 uses the socket again, against
  the rule of `moon_session.c:19`. `EventsAlive` leaves this line out. (`SocketPool.cfg` with the
  invariant `InUseIsReferenced`.)
* `moon_session.c:868` and `:919`: the send side clears the flag of a wait for data; line 919
  names a timer where it means a flag. The wait is forgotten; `WaitsKept` and `WaitsEnd` except it by `stolen`.
* `moon_runtime.c:1444-1455` with `moon_avltree.c:305-308`: when two threads of one environment
  write a block for the first time, `avl_add` returns the pair it has just freed to the
  second one, whose write is lost, although line 1451 handles "another thread is writing".
* `moon_runtime.c:1982`: a pointer into the inside of a deleted block is packed as an offset
  in no block (line 1990), for want of a `continue`, and the receiver refuses the packet. `PacketsApply` excepts it by `Nowhere`.
* `moon_runtime.c:1996`: a pointer below every block of the version is read through NULL
  before line 1997 tests for it. In `ShadowCommit` no pointer gets below the lowest block.
* `moon_runtime.c:3029-3038`: with several new blocks in an update packet the id and the type
  are taken from the first row each time. `MaxLag` and `MaxNews` keep to one new block.

Descriptors are lost when `connect` fails at once (`common_socket.c:357`) and when
`_new_socket` fails before it has a connection (lines 241-255); nothing says otherwise, but
`FdsOwned` shows that no others are lost. The test of the deadline in `ring_write` (line 361)
is the reverse of the one in `ring_read` (line 238): a timed write returns while there is
time left; the model has both outcomes. `RING_PEEK` with a `peek_skip` past the end (line
192) or with `RING_WAITALL`, and messages of different lengths in one ring (line 344), are
used by nobody and left out. When `ring_new` fails, `moon_pthread_pool.c:176` sets the pool to
NULL before it unlocks its mutex; a second thread in `get_dnsinstance` (`moon_dns.c:243`) falls
into the error labels.

Other things met in the drafts and left out of the models: flags are cleared with `&= !FLAG`
(840, 909, 1071), the loops that free packets free the next one (878, 1087), `version_close_func`
reads the entity after it may be gone, `shadow_env_new` stops at the first version that is not
the one asked for (1733), `send_query` returns -1 always, `MOON_QUERY` looks up a table
whose keys are the md5 sums of the versions' bases, the md5 sum of a version leaves out the ids, and
`stream_recv` has a block pointer that may be uninitialised (`moon_session.c:1097`).

## What is proved

`UseingRefProofs`, for any finite set of threads: types (`TypeCorrect`), `CountIsUsers`
(`CountCorrect`), `ReleasedProperly` (`ReleaseCorrect`) and the refinement of
`GuardedResource` (`Refinement`). None of these is inductive alone. The inductive invariant
`IInv` puts together the types, the count, the
fact that a thread that is about to call `close_fun` excludes a second one, an earlier
release and any user, and that this happens only on a closed word; the last two hold
because entering needs an exchange from a word that is not closed, so nobody enters once
it is. The refinement uses the same invariant: every step maps to Enter, Leave, Shut,
Release or a stutter.

`PthreadPoolProofs`, for any finite sets of callers and processes, any tasks, limits and
ring length: `CountersCorrect` (`CountsAgree`) and `PoolLargeEnough` (`EnoughProcesses`).
The counting rests on one lemma on how the number of elements with a property changes
when one element changes (`CountChange`); each action then is an equation. It needs
that nothing happens before the pool is started. `EnoughProcesses` needs `task_num >= 0`,
which only the counting gives, `process_num <= process_max`, and that nobody takes a
creation back as long as `failed` is FALSE.

`TasksCorrect` (`TaskOnce`) rests on an invariant of its own, `TaskInv`: a task that was not
accepted is nowhere, one that was is in one slot of the ring, with one process, or run. That
a task is put once is what makes it hold, so the callers' states are part of it.

`MoonPipeProofs`, for any finite set of threads: `NoUseAfterFree` (`FreeCorrect`),
`CallbacksRight` (`CallbacksCorrect`), `ReferencesRight` (`ReferencesCorrect`) and the
refinement of two `GuardedResource`s (`Refinement`). The pipe has three counters, which
threads change in steps of their own, and each point has one. The invariant says
which threads each counter counts (`CountersRight`, `ObjectsCounted`), where a thread may be
as long as the set-up lasts (`SetupRight`, `MutexRight`), and that the callbacks are one
thread's, after which nobody gets in (`CallbackPhase`). None of the four properties follows
from the others or is inductive: that the last reference finds a closed pipe needs that the two
owners' references are given back by the callbacks, and these need the counting.

`SocketPoolProofs`, for any orders, connections and descriptors and any finite number of
clients: `EventsAlive` (`EventsCorrect`) and `FdsOwned` (`DescriptorsCorrect`). `listen_task` holds no
reference to the sockets of its batch; what keeps them is that `_socket_close` leaves the
last step to `listen_task` (`ClosingRight`), so what epoll, the batch and the handler know is
not released (`EventsRight`, `HandlerRight`). `AddersRight` says that a socket whose `fd_cat` is about to
change is known to one thread. `FdsOwned` needs all of it: a socket that is freed twice
would close a descriptor that has another owner.

`RingBufferProofs`, for any size of the buffer, any readers and writers, any lengths and any
bytes: the refinement of `ByteQueue` (`Refinement`), `WaitersRight` (`WaitersCorrect`) and
`WholeMessages` (`MessagesCorrect`). The ring keeps these promises only in the uses that are made
of it, and each theorem names its use as a hypothesis on the constants: `PlainUse` (no
`peek_skip`, whose handling in line 192 is wrong at the end of the data, and no
`RING_REPLACE_OLD`, which only a test sets and with which line 314 is wrong, see above), `StreamUse` (also no
`RING_MSGMODE`, and nobody peeks with `RING_WAITALL`: that reader would keep the signal
and leave the bytes to nobody) and `MessageUse` (all with `RING_MSGMODE` and one length, as
`moon_pthread_pool.c` does). The constants of `Ring.cfg` meet `StreamUse`;
`MessageUse` has no run of its own, `PthreadPool` checks how the pool uses it. The proof first removes `%` (`Used`, `Wrap`), then
shows what the copies in one and two parts do to the contents; `WaitersRight` then needs
`WakeInv`: when bytes and a waiting reader are there, another reader has been woken.

`SessionStreamProofs`, for any set of pipes whose other ends may close them and any number
of waits and packets: `PipesFreedOnce` (`PipesCorrect`) and `WaitsKept` (`WaitsCorrect`). The calls
that a handler makes after the unlock are jobs in the sequence of its thread, and handlers
run into each other between any two of them. The invariant says for which jobs there
is at most one in all threads: `PipesInv` that the stream frees the pipes that it has, and
that one job frees a pipe that was taken out of it; `WaitsInv` that a wait has its flag,
its event or the end of its pipe, and a wait for data not two events; `MarksInv` that a
mark a wait is about to set is larger than those any timer has had, so that a timer
that could not be set takes back a wait that has no event (line 1030). The lemmas on `Turn`
say what becomes of a job when a thread does its first job and puts new ones in front.

`MoonDnsProofs`, for any finite sets of queries and domain objects, any domains, lists of
addresses and size of the cache: `RequestsMatchStatus` (`RequestsAlwaysMatch`), `CacheRight`
(`CacheIsRight`) and `QueriesRight` (`QueriesAreRight`). The first two are one invariant,
`DnsInv`. That a domain which is evicted or expires has no answer to come follows from
its status only because the status counts the requests; that the status may be lowered by
`DOMAIN_QUERY2` when it leaves the old list needs that the list holds just the domains with a
higher status; that a fresh object may be used for a name needs that the table has no
other; and that the addresses of a freed domain are dropped once needs that a domain that has left the
table has no new addresses (`FieldsRight`). The counts are sums of cardinalities: a lemma
on sets that differ in one element (`OneChanges`) makes every action an equation. Both are
invariants up to the step in which the loop strays (`DnsRight`), and say nothing after it.
`QueriesRight` has the invariant `QueriesInv`, which needs `DnsInv` (a domain that is freed has no
query in its list) and says where the status of a query stands in each stage of its call, for
all queries that are not `spoilt`.

`MoonTimerProofs`, for any finite set of timers, any counts and any periods up to a largest
one: `TreeRight` (`TreeStaysRight`),
`NoUseAfterRelease` (`ReleasedIsNotUsed`) and `FiniteStaysFinite` (`CountsEnd`). None of them holds
after a client has set, stopped or deleted a timer that has run out while others are in
the tree, because line 238 then drops the whole tree (see above); the theorems
exclude just that step by the hypothesis `[]LeavesOwn`: when a client takes a timer out of the
tree, the timer is in it or the tree is empty. That excludes one-shot timers used as the streams
use them; a running timer is then lost, which `MoonTimerOnce` shows and no theorem denies. A first group of lemmas says what a tree, its
leftmost node and the ids of its timers are after each operation (`AddIs`, `LeftestAfterAdd`,
`TakeOutIs`, `PopIs`, `TickIs`). The loop that puts a chain back is a recursive function;
`TurnsExist` and `AddAllIs` show that it is defined and what it leaves behind, by induction over
its turns, which is stated with a set of numbers (`InductionOnSet`). The invariant `TimerInv` then has
three parts that the properties do not mention: a timer in the tree has no bit set and
a count that is not 0 (`Scheduled`); a released timer keeps `TIMER_DEL` (`Gone`); and a client in its critical section knows
whether its timer is being processed, and all bits of it when it is not (`Loaded`), which is why
the unlocked store at line 194 does no harm: it goes to timers that clients leave alone.

Assumptions: the `ASSUME`s of the modules (finite sets, sets that are disjoint, `idle_max`
between 1 and `process_max`, an initial status that is not closed, `NoTask` no task, a byte
to write, a largest period), as the code has them, and the uses of the ring and of the timers
named above. The inductive
invariants were checked with TLC on the runs' constants before they were proved.

Only model-checked:

* all liveness (`EventuallyReleased`, `WaitersReturn`, `ScheduledFires`, `DelCarriedOut`,
  `ClosedIsReleased`, `AcceptedRuns`, `QueriesEnd`, `WaitsEnd`, `ClosesEnd`): fairness and
  ENABLED are out of the prover's reach;
* `AvlTree`, `ShadowEnv`, `MoonNum` and `ShadowCommit`, whose operators are declared
  `RECURSIVE` (trees by their subtrees, folds over environments): the prover cannot reason
  about such operators, and what they compute needs induction over data.

## Not modelled

* `ring_ref_inc` / `ring_ref_dec` beyond the pool's use of them.
* The once-only creation of the singletons (`get_..._instance`), `get_task_info`.
* `cur_socket_num` of the socket pool, which nobody reads.
* Overflow of the reference counts (the code only prints a message).
* Dns: the splitting of URLs, the access to the elements of an answer, the epoll set of
  c-ares.
* Runtime: the queue of update packets (632-815) and the query status around it;
  `notice_task`, which is not finished; packet heads, byte order and compression; the
  layout of structures (`get_target_offset`); `version_dump`; the life of entities and points.
* Session: the session itself, its tasks for sending and receiving (2456-2745), framing,
  windows and the levels of memory use: functions without bodies or callers, which do not
  determine what the system does. Block memory of `moon_session_mem.c`.
* Max-min heap and `moon_packet2.c`: not in the build, used by nothing that is.
* Debug output, interface macros, thread-local storage; the shadow code generator and
  what it generates: text processing and generated code.

## Plan

Done: the words and pipes on which all else rests, timers, ring, pool, sockets; dns, AVL
trees, environments, versions and packets, streams; theorems on the word, the pipe, the
ring, the pool, the sockets, timers, dns and the streams.

1. Proofs: the tree of `AvlTree` as recursive functions instead of `RECURSIVE` operators, with
   induction over the height, as for the loop of `MoonTimer`.
2. `Instances`: the double-checked creation of the singletons with its error paths.
3. The queue of update packets of the runtime, when its query status is settled; sending
   and windows of the session when they are written.
