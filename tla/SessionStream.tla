---------------------------- MODULE SessionStream ----------------------------
(***************************************************************************)
(* A stream of a session (moon_session.c): waiting for data and for room   *)
(* to send, with timers; packets that come in; and the closing of a stream *)
(* from both sides.  A thread runs a handler: the part under               *)
(* deferred_mutex is one step, each call that the handler makes after the  *)
(* unlock is a step of its own, kept in todo[thread] in the order of the   *)
(* code.                                                                   *)
(*                                                                         *)
(* Names that moon_session.c does not declare are read as the lines next   *)
(* to them: p_session in lines 1331 and 1387 as the stream, close as       *)
(* closed, inter_close_stream (2390) as stream_remote_close.  References   *)
(* to pipes are left out: line 1062 takes one on the timer that line 1072  *)
(* gives back for the control pipe.  OP and WIN_OP are treated alike by    *)
(* the code and are one pipe here.  inter_error_stream, called for a       *)
(* packet that the stream refuses (2138) and for one its status does not   *)
(* allow (2367), is defined nowhere: it does nothing here.                 *)
(***************************************************************************)
EXTENDS Integers, Sequences, FiniteSets, SequencesExt

CONSTANTS
  Closable,    \* the pipes that their other ends may close
  MaxWaits,    \* bound on the waits a user starts
  MaxPackets   \* bound on the packets that come in

Threads == {"user", "net", "timer"}
Timers == {"recv_timer", "send_timer", "rst_timer"}
Ops == {"op", "rst_op"}
Pipes == Timers \cup Ops \cup {"control", "session", "root", "pushed"}

ASSUME ClosableAssumption == Closable \subseteq Pipes

VARIABLES
  s,           \* the stream: status, shut_flags, recv_hub (the lengths of the packets),
               \* mark (mark_id of a timer), pipe (i32[1] of a pipe), held (pipes whose
               \* pointers the stream has)
  freed,       \* how often SESSION_FREE_PIPE was called for a pipe
  shut,        \* the pipes that one of their ends has closed
  armed,       \* the timer service: the mark_id a timer was set with, 0 when it is not
               \* in the service's tree
  lost,        \* history: the settings of timers that left the tree without being called
  owed,        \* the waits of the user: "no", "timed" or "endless"
  stolen,      \* the send side has cleared the flag of a wait for data
  todo,        \* what a thread has still to do
  waits, packets

vars == <<s, freed, shut, armed, lost, owed, stolen, todo, waits, packets>>

Idle(t) == todo[t] = <<>>

\* CAN_STREAM_SET_RECV, CAN_STREAM_SET_SEND (and CAN_STREAM_ADD_BUF)
Opening == {"INITIAL", "SYN_RECV", "SYN_SEND", "SYNREPLY_RS"}
Connected == {"SYN_RECV", "SYN_SEND", "SYNREPLY_RS"}
CanSet(d) == s.status \in Opening \cup (IF d = "recv" THEN {"RST_RECV"} ELSE {})

TimerOf(d) == IF d = "recv" THEN "recv_timer" ELSE "send_timer"

Event(d) == <<"event", d>>
Free(p) == <<"free", p>>
Stop(t) == <<"stop", t>>

-----------------------------------------------------------------------------
(* Waiting: user_set_can_recv and user_set_can_send *)

\* Variant of MarkOf that gives the timer the mark_id from before.
MarkOf_Before(t) == s.mark[t]

\* The mark_id with which a wait sets its timer, changed by the wait itself
MarkOf(t) == s.mark[t] + 1

\* The wait is over at once (now), or a timer is set for it.
StartWait(d, timed, now, flags) ==
  LET t == TimerOf(d) IN
  /\ Idle("user")
  /\ "control" \notin shut
  /\ owed[d] = "no"
  /\ waits < MaxWaits
  /\ waits' = waits + 1
  /\ CanSet(d)
  /\ s' = [s EXCEPT !.mark[t] = @ + 1, !.flags = flags]
  /\ owed' = [owed EXCEPT ![d] = IF timed THEN "timed" ELSE "endless"]
  /\ todo' = [todo EXCEPT !["user"] =
                CASE now -> <<Event(d)>>
                  [] ~now /\ timed -> <<<<"set", t, MarkOf(t)>>>>
                  [] OTHER -> <<>>]
  /\ UNCHANGED <<freed, shut, armed, lost, packets>>

\* STREAM_START_RECVTASK
user_set_can_recv(timed) ==
  LET now == s.recv_hub # <<>> IN
  /\ StartWait("recv", timed, now, IF now THEN s.flags \ {"recv"} ELSE s.flags \cup {"recv"})
  /\ UNCHANGED stolen

\* STREAM_START_SENDTASK, which clears STREAM_CAN_RECV (line 868); whether there
\* is room in the buffer and in the window is left open.
user_set_can_send(timed) ==
  \E now \in BOOLEAN :
    /\ StartWait("send", timed, now,
                 (s.flags \cup {"send"}) \ (IF now THEN {"recv"} ELSE {}))
    /\ stolen' = (stolen \/ (now /\ "recv" \in s.flags))

\* The timer could not be set: the wait fails, unless it is over already.  The
\* wait to send clears bit STREAM_SEND_TIMER, which is STREAM_CAN_RECV.
Unset(d, mark) ==
  IF CanSet(d) /\ s.mark[TimerOf(d)] = mark
  THEN /\ s' = [s EXCEPT !.flags = @ \ {"recv"}]
       /\ owed' = [owed EXCEPT ![d] = "no"]
       /\ stolen' = (stolen \/ (d = "send" /\ "recv" \in s.flags))
  ELSE UNCHANGED <<s, owed, stolen>>

-----------------------------------------------------------------------------
(* Data: inter_add_packet_to_stream and stream_recv *)

\* pre_process_recv_packet looks at the status without the mutex.
PacketComes ==
  /\ Idle("net")
  /\ packets < MaxPackets
  /\ packets' = packets + 1
  /\ s.status \in Connected
  /\ \E len \in 1 .. 2 : todo' = [todo EXCEPT !["net"] = <<<<"add", len>>>>]
  /\ UNCHANGED <<s, freed, shut, armed, lost, owed, stolen, waits>>

\* append_to_tail, of a packet of len bytes
append_to_tail(hub, len) == Append(hub, len)

\* inter_add_packet_to_stream: the stream with the packet, and what follows;
\* the first packet in SYN_SEND is the reply to it.
AddPacket(len) ==
  LET ready == "recv" \in s.flags IN
  IF s.status \in Opening
  THEN [s |-> [s EXCEPT !.status = IF @ = "SYN_SEND" THEN "SYNREPLY_RS" ELSE @,
                        !.recv_hub = append_to_tail(@, len),
                        !.flags = @ \ {"recv"},
                        !.mark["recv_timer"] = IF ready THEN @ + 1 ELSE @],
        todo |-> IF ready THEN <<Stop("recv_timer"), Event("recv")>> ELSE <<>>]
  ELSE [s |-> s, todo |-> <<>>]

\* stream_recv of len bytes; get_from_head_len takes from one packet at a time.
StreamRecv ==
  /\ Idle("user")
  /\ "control" \notin shut
  /\ s.recv_hub # <<>>
  /\ \E len \in 1 .. 3 : todo' = [todo EXCEPT !["user"] = <<<<"recv", len>>>>]
  /\ UNCHANGED <<s, freed, shut, armed, lost, owed, stolen, waits, packets>>

\* get_from_head_len: at most len bytes are taken, from the first packet only.
get_from_head_len(hub, len) ==
  IF Head(hub) > len THEN [hub |-> <<Head(hub) - len>> \o Tail(hub), left |-> 0]
  ELSE [hub |-> Tail(hub), left |-> len - Head(hub)]

\* One round of the loop: a reset stream that has been read to its end shuts.
RecvRound(len) ==
  LET took == get_from_head_len(s.recv_hub, len) IN
  IF CanSet("recv") /\ s.pipe["control"] = "ACTIVE" /\ s.recv_hub # <<>>
  THEN [s |-> [s EXCEPT !.recv_hub = took.hub,
                        !.status = IF @ = "RST_RECV" /\ took.hub = <<>> THEN "SHUT_RECV" ELSE @],
        todo |-> IF took.left > 0 THEN <<<<"recv", took.left>>>> ELSE <<>>]
  ELSE [s |-> s, todo |-> <<>>]

-----------------------------------------------------------------------------
(* Closing *)

MarksChanged == [t \in Timers |-> s.mark[t] + 1]
Deleted(ps) == [p \in Pipes |-> IF p \in ps THEN "DEL" ELSE s.pipe[p]]

\* Variant of RstMark that is taken before the mark_ids change.
RstMark_Before == s.mark["rst_timer"]

\* The mark_id with which the timer of the reset is set
RstMark == MarksChanged["rst_timer"]

\* Variant of stream_local_close that leaves the control pipe with the stream.
LocalHeld_Control == s.held \ {"op"}

\* The pipes whose pointers the stream keeps after stream_local_close
LocalHeld == s.held \ {"op", "control"}

\* stream_local_close: of a connected stream the peer is told, and the stream
\* waits for the peer to agree; else it is closed.
LocalClose ==
  CASE s.status \in Connected ->
         [s |-> [s EXCEPT !.status = "RST_SEND", !.flags = {}, !.recv_hub = <<>>,
                          !.pipe = Deleted({"control", "op"}), !.held = LocalHeld,
                          !.mark = MarksChanged],
          todo |-> <<<<"rst", RstMark>>, Free("control"),
                     Stop("recv_timer"), Stop("send_timer"), Free("op")>>]
    [] s.status \in {"INITIAL", "RST_RECV", "SHUT_RECV"} ->
         [s |-> [s EXCEPT !.status = "CLOSED"], todo |-> <<<<"close_func">>>>]
    [] OTHER -> [s |-> s, todo |-> <<>>]

\* The waits that stream_remote_close ends: for data, only if there is none.
Announced == IF s.recv_hub = <<>> THEN s.flags ELSE s.flags \cap {"send"}

\* stream_remote_close: what has come in can still be read.
RemoteClose ==
  CASE s.status \in Connected ->
         [s |-> [s EXCEPT !.status = IF s.recv_hub = <<>> THEN "SHUT_RECV" ELSE "RST_RECV",
                          !.flags = @ \ Announced, !.pipe = Deleted(Ops), !.held = @ \ Ops,
                          !.mark = MarksChanged],
          todo |-> (IF "recv" \in Announced THEN <<Event("recv")>> ELSE <<>>)
                   \o (IF "send" \in Announced THEN <<Event("send")>> ELSE <<>>)
                   \o <<Stop("recv_timer"), Stop("send_timer"), Stop("rst_timer"),
                        Free("op"), Free("rst_op")>>]
    [] s.status \in {"INITIAL", "RST_SEND"} ->
         [s |-> [s EXCEPT !.status = "CLOSED"], todo |-> <<<<"close_func">>>>]
    [] OTHER -> [s |-> s, todo |-> <<>>]

\* Variant of MarkIsRight that takes any timer for its own.
MarkIsRight_Any(t, mark) == TRUE

MarkIsRight(t, mark) == s.mark[t] = mark

\* stream_timer_func
TimesUp(t, mark) ==
  LET mine == IF t = "recv_timer" THEN "recv" ELSE "send" IN
  CASE s.status = "CLOSED" \/ s.pipe[t] # "ACTIVE" \/ ~MarkIsRight(t, mark) ->
         [s |-> s, todo |-> <<>>]
    [] s.status # "CLOSED" /\ s.pipe[t] = "ACTIVE" /\ MarkIsRight(t, mark) /\ t = "rst_timer" ->
         [s |-> s, todo |-> <<<<"remote_close">>>>]
    [] OTHER -> [s |-> [s EXCEPT !.flags = @ \ {mine}],
                 todo |-> IF mine \in s.flags THEN <<Event(mine)>> ELSE <<>>]

\* stream_pipe_close: the other end of pipe p has closed it.
PipeClose(t, p) ==
  /\ Idle(t)
  /\ p \in Closable \ shut
  /\ (t = "user") = (p = "control")
  /\ shut' = shut \cup {p}
  /\ owed' = IF p = "control" THEN [d \in {"recv", "send"} |-> "no"] ELSE owed
  /\ IF s.status # "CLOSED" /\ s.pipe[p] = "ACTIVE"
     THEN /\ s' = IF p = "pushed" THEN [s EXCEPT !.pipe[p] = "DEL", !.held = @ \ {p}]
                  ELSE [s EXCEPT !.pipe[p] = "STOP"]
          /\ todo' = [todo EXCEPT ![t] =
               CASE p = "pushed" -> <<Free(p)>>
                 [] p \in {"session", "rst_op", "rst_timer"} -> <<<<"remote_close">>, <<"local_close">>>>
                 [] OTHER -> <<<<"local_close">>>>]
     ELSE UNCHANGED <<s, todo>>
  /\ armed' = [x \in Timers |-> IF x = p THEN 0 ELSE armed[x]]
  /\ UNCHANGED <<freed, lost, stolen, waits, packets>>

\* The peer has reset the stream (TYPE_RST of pre_process_recv_packet).
PeerResets ==
  /\ Idle("net")
  /\ s.status # "CLOSED"
  /\ todo' = [todo EXCEPT !["net"] = <<<<"remote_close">>>>]
  /\ UNCHANGED <<s, freed, shut, armed, lost, owed, stolen, waits, packets>>

-----------------------------------------------------------------------------
(* The next thing that thread t has to do *)

\* A part under the mutex: r has the stream after it and what it leads to.
Section(t, r) ==
  /\ s' = r.s
  /\ todo' = [todo EXCEPT ![t] = r.todo \o Tail(@)]
  /\ UNCHANGED <<freed, shut, armed, owed, stolen>>

Done(t) == todo' = [todo EXCEPT ![t] = Tail(@)]

\* Pipes ps are closed and let go: their timers are off, and the user learns
\* of the end of the control pipe.
FreePipes(ps) ==
  /\ freed' = [p \in Pipes |-> IF p \in ps THEN freed[p] + 1 ELSE freed[p]]
  /\ shut' = shut \cup ps
  /\ armed' = [t \in Timers |-> IF t \in ps THEN 0 ELSE armed[t]]
  /\ owed' = IF "control" \in ps THEN [d \in {"recv", "send"} |-> "no"] ELSE owed
  /\ UNCHANGED <<s, stolen>>

Step(t) ==
  LET op == Head(todo[t]) IN
  /\ ~Idle(t)
  /\ \/ op[1] = "add" /\ Section(t, AddPacket(op[2]))
     \/ op[1] = "recv" /\ Section(t, RecvRound(op[2]))
     \/ op[1] = "remote_close" /\ Section(t, RemoteClose)
     \/ op[1] = "local_close" /\ Section(t, LocalClose)
     \/ op[1] = "times_up" /\ Section(t, TimesUp(op[2], op[3]))
     \/ op[1] = "unset" /\ Unset(op[2], op[3]) /\ Done(t) /\ UNCHANGED <<freed, shut, armed>>
     \* The user has its event, if it still has the pipe.
     \/ /\ op[1] = "event"
        /\ owed' = IF "control" \in shut THEN owed ELSE [owed EXCEPT ![op[2]] = "no"]
        /\ Done(t)
        /\ UNCHANGED <<s, freed, shut, armed, stolen>>
     \* The timer service sets a timer of a wait, or fails to.
     \/ /\ op[1] = "set"
        /\ \/ /\ op[2] \notin shut
              /\ armed' = [armed EXCEPT ![op[2]] = op[3]]
              /\ Done(t)
           \/ /\ todo' = [todo EXCEPT ![t] =
                   <<<<"unset", IF op[2] = "recv_timer" THEN "recv" ELSE "send", op[3]>>>> \o Tail(@)]
              /\ UNCHANGED armed
        /\ UNCHANGED <<s, freed, shut, owed, stolen>>
     \* stream_send_rst: the packet is queued and the timer set, or the stream is
     \* closed at once; inter_add_packet_to_session is not written yet.
     \/ /\ op[1] = "rst"
        /\ \/ "rst_timer" \notin shut /\ armed' = [armed EXCEPT !["rst_timer"] = op[2]] /\ Done(t)
           \/ todo' = [todo EXCEPT ![t] = <<<<"remote_close">>>> \o Tail(@)] /\ UNCHANGED armed
        /\ UNCHANGED <<s, freed, shut, owed, stolen>>
     \/ /\ op[1] = "stop"
        /\ armed' = [armed EXCEPT ![op[2]] = 0]
        /\ Done(t)
        /\ UNCHANGED <<s, freed, shut, owed, stolen>>
     \/ op[1] = "free" /\ FreePipes({op[2]}) /\ Done(t)
     \* stream_close_func
     \/ op[1] = "close_func" /\ FreePipes(s.held) /\ Done(t)
  /\ UNCHANGED <<lost, waits, packets>>

\* The timer service calls times_up.
Fire(t) ==
  /\ Idle("timer")
  /\ armed[t] # 0
  /\ armed' = [armed EXCEPT ![t] = 0]
  /\ todo' = [todo EXCEPT !["timer"] = <<<<"times_up", t, armed[t]>>>>]
  /\ UNCHANGED <<s, freed, shut, lost, owed, stolen, waits, packets>>

\* A timer that was called once keeps TIMER_STOP clear.  When it is set, stopped or
\* freed, of this stream (lines 910, 1022, 1067, 1141, 1218, 1294, 1358) or of any
\* other, line 238 of moon_timer.c takes it out of a tree it is not in and drops the
\* tree of all timers: those in it are not called, but for the earliest, perhaps.
TreeDropped ==
  \E ts \in SUBSET {t \in Timers : armed[t] # 0} :
    /\ ts # {}
    /\ armed' = [t \in Timers |-> IF t \in ts THEN 0 ELSE armed[t]]
    /\ lost' = lost \cup {<<t, armed[t]>> : t \in ts}
    /\ UNCHANGED <<s, freed, shut, owed, stolen, todo, waits, packets>>

-----------------------------------------------------------------------------

\* stream_new, and what the first packets make of it
Init ==
  /\ s \in [status : Opening, flags : {{}}, recv_hub : {<<>>}, mark : {[t \in Timers |-> 0]},
            pipe : {[p \in Pipes |-> "ACTIVE"]}, held : {Pipes}]
  /\ freed = [p \in Pipes |-> 0]
  /\ shut = {}
  /\ armed = [t \in Timers |-> 0]
  /\ lost = {}
  /\ owed = [d \in {"recv", "send"} |-> "no"]
  /\ stolen = FALSE
  /\ todo = [t \in Threads |-> <<>>]
  /\ waits = 0
  /\ packets = 0

Next ==
  \/ \E timed \in BOOLEAN : user_set_can_recv(timed) \/ user_set_can_send(timed)
  \/ PacketComes
  \/ StreamRecv
  \/ PeerResets
  \/ \E t \in {"user", "net"}, p \in Pipes : PipeClose(t, p)
  \/ \E t \in Threads : Step(t)
  \/ \E t \in Timers : Fire(t)
  \/ TreeDropped

\* The threads run, and the timer service calls what is due and still in its tree.
Fairness ==
  /\ \A t \in Threads : WF_vars(Step(t))
  /\ \A t \in Timers : SF_vars(Fire(t))

Spec == Init /\ [][Next]_vars /\ Fairness

-----------------------------------------------------------------------------
(* What is to hold *)

Ahead(x) == \E t \in Threads : x \in ToSet(todo[t])

\* The thread that ends the user's pipe is on its way.
ControlEnds == Ahead(Free("control")) \/ Ahead(<<"close_func">>)

\* A wait that a user has begun is never forgotten: its flag is set, or its
\* event is on the way, or the end of the pipe is; except for a wait for data
\* that the send side has taken (lines 868 and 919).  A wait for data never
\* gets an event that belongs to another one: a flag or an event is there only
\* for a wait.  A stream that the peer has reset always has something to read,
\* so that a wait on it, whose timer nobody would set off, is over at once.
WaitsKept ==
  /\ \A d \in {"recv", "send"} :
       owed[d] # "no" => \/ d \in s.flags
                         \/ Ahead(Event(d))
                         \/ ControlEnds
                         \/ d = "recv" /\ stolen
  /\ owed["recv"] = "no" /\ "control" \notin shut
       => "recv" \notin s.flags /\ ~Ahead(Event("recv"))
  /\ ~("recv" \in s.flags /\ Ahead(Event("recv")))
  /\ s.status = "RST_RECV" => s.recv_hub # <<>>

\* Whoever closes a stream, and however closings from both sides, timers and
\* resets meet: each pipe is freed once, and none is left when it is closed.
PipesFreedOnce ==
  \A p \in Pipes :
    /\ freed[p] <= 1
    /\ s.status = "CLOSED" /\ (\A t \in Threads : Idle(t)) => freed[p] = 1

\* What timer t was last set for has no timer any more.
Lost(t) == <<t, s.mark[t]>> \in lost

\* A wait with a timeout ends, unless the send side has taken it or the timer service
\* has dropped its timer.
WaitsEnd ==
  \A d \in {"recv", "send"} :
    owed[d] = "timed" ~> (owed[d] # "timed" \/ stolen \/ Lost(TimerOf(d)))

\* A stream that was closed on this side is closed and gives up all its pipes,
\* whether or not the peer ever answers, unless the timer service has dropped the
\* timer of the reset.
ClosesEnd ==
  s.status = "RST_SEND" ~> (\A p \in Pipes : freed[p] = 1) \/ Lost("rst_timer")
=============================================================================
