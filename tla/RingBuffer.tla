---------------------------- MODULE RingBuffer ------------------------------
(***************************************************************************)
(* ring_buffer.c: a byte ring under one mutex and two condition variables, *)
(* shared by threads that read and threads that write.  An iteration of    *)
(* the loop in ring_read or ring_write runs under the mutex from the       *)
(* thread's arrival, or its wake-up, to its return or its next wait: one   *)
(* step.  A signal wakes one of the waiting threads, whichever; a waiting  *)
(* thread may also wake up for no reason, and one that waits with a        *)
(* deadline may give up.  The clock is a choice: a deadline has passed, or *)
(* it has not.                                                             *)
(***************************************************************************)
EXTENDS Integers, Sequences, FiniteSets, FiniteSetsExt

CONSTANTS
  Readers, Writers,
  BufferLen,    \* the buffer_len of ring_new
  RingFlags,    \* the flags of ring_new
  Bytes,
  Lens,         \* the lengths that callers use
  Skips,        \* the peek_skip that callers use with RING_PEEK
  ReadFlags,    \* the sets of flags that callers of ring_read use
  WriteFlags,   \* the sets of flags that callers of ring_write use
  JUNK          \* what is outside the buffer

Flags == {"NOWAIT", "REPLACE_OLD", "WAITALL", "PEEK", "TIMEOUT", "MSGMODE"}

ASSUME RingAssumption ==
  /\ BufferLen \in Nat \ {0}
  /\ RingFlags \subseteq {"NOWAIT"}
  /\ Lens \subseteq Nat \ {0}
  /\ Skips \subseteq 0 .. BufferLen - 1
  /\ ReadFlags \subseteq SUBSET (Flags \ {"REPLACE_OLD"})
  /\ WriteFlags \subseteq SUBSET (Flags \ {"PEEK"})
  /\ JUNK \notin Bytes /\ Bytes # {}
  /\ Readers \cap Writers = {}

Threads == Readers \cup Writers

length == BufferLen + 1

VARIABLES
  cur, end,     \* where the next byte is read and written
  buffer,
  is_destroy,
  pc,           \* pc[t]: "idle", "run" (about to have the mutex) or "wait" (for its condition)
  call,         \* call[t]: the flags, peek_skip and out_len of the current call
  got,          \* got[r]: what the last call of r has read
  rest,         \* rest[w]: what the last call of w has not written
  eof           \* the readers that were told that the ring is closed

ringVars == <<cur, end, buffer, is_destroy>>
readVars == <<got, eof>>
vars == <<ringVars, readVars, rest, pc, call>>

NoCall == [flags |-> {}, skip |-> 0, want |-> 0]

Init ==
  /\ cur = 0 /\ end = 0
  /\ buffer \in [0 .. length - 1 -> {CHOOSE b \in Bytes : TRUE}]
  /\ is_destroy = FALSE
  /\ pc = [t \in Threads |-> "idle"]
  /\ call = [t \in Threads |-> NoCall]
  /\ got = [r \in Readers |-> <<>>]
  /\ rest = [w \in Writers |-> <<>>]
  /\ eof = {}

-----------------------------------------------------------------------------
(* Condition variables *)

Waiting(S) == {t \in S : pc[t] = "wait"}

\* pthread_cond_signal: the sets of threads that it may wake.
Signal(S) == IF Waiting(S) = {} THEN {{}} ELSE {{t} : t \in Waiting(S)}

\* A step of t that takes it to p and wakes the threads of W.
Goes(t, p, W) ==
  /\ pc' = [x \in Threads |-> IF x = t THEN p ELSE IF x \in W THEN "run" ELSE pc[x]]
  /\ call' = IF p = "idle" THEN [call EXCEPT ![t] = NoCall] ELSE call

SpuriousWakeUp(t) ==
  /\ pc[t] = "wait"
  /\ Goes(t, "run", {})
  /\ UNCHANGED <<ringVars, readVars, rest>>

-----------------------------------------------------------------------------
(* ring_read *)

\* Where the caller of ring_read may go on at once with 0: its arguments ask for
\* more than the ring can hold.
ReadRefused(len, fs, sk) == {"PEEK", "MSGMODE"} \subseteq fs /\ len > length - 1 - sk

BeginRead(r, len, fs, sk) ==
  /\ pc[r] = "idle"
  /\ "PEEK" \notin fs => sk = 0
  /\ ~ReadRefused(len, fs, sk)
  /\ pc' = [pc EXCEPT ![r] = "run"]
  /\ call' = [call EXCEPT ![r] =
       [flags |-> fs, skip |-> sk,
        want |-> IF "PEEK" \in fs THEN Min({len, length - 1 - sk}) ELSE len]]
  /\ got' = [got EXCEPT ![r] = <<>>]
  /\ UNCHANGED <<ringVars, rest, eof>>

CanRead(r) == ((length - cur + end) % length) - call[r].skip

NeedRead(r) == call[r].want - Len(got[r])

\* really_read
ReallyRead(r) ==
  IF CanRead(r) >= NeedRead(r) THEN NeedRead(r)
  ELSE IF "MSGMODE" \in call[r].flags \/ CanRead(r) < 0 THEN 0 ELSE CanRead(r)

\* The byte at address p behind the start of the buffer.
At(p) == IF p \in 0 .. length - 1 THEN buffer[p] ELSE JUNK

\* The memcpys of ring_read: in two parts when the bytes wrap around.
ReadOut(r, n) ==
  LET tmp_skip == length - cur - call[r].skip
  IN [i \in 1 .. n |->
       IF end < cur /\ tmp_skip > 0 /\ tmp_skip < n /\ i > tmp_skip
       THEN At(i - tmp_skip - 1)
       ELSE At(cur + call[r].skip + i - 1)]

\* ring_read returns rather than waits; more: something has been read.
ReadReturns(r, more) ==
  \/ CanRead(r) >= NeedRead(r)
  \/ is_destroy
  \/ "WAITALL" \notin call[r].flags /\ more
  \/ "NOWAIT" \in call[r].flags \cup RingFlags

\* Variant of ReadPassesOn that keeps the signal to itself.
ReadPassesOn_Never(r) == FALSE

\* The reader that returns and leaves bytes in the ring wakes the next reader.
ReadPassesOn(r) ==
  \/ CanRead(r) > NeedRead(r)
  \/ "PEEK" \in call[r].flags /\ end # cur /\ (CanRead(r) = NeedRead(r) \/ ~is_destroy)

\* ring_read returns -1.
SaysEof(r, more) == is_destroy /\ CanRead(r) < NeedRead(r) /\ ~more

ring_read(r) ==
  LET n == ReallyRead(r)
      data == got[r] \o ReadOut(r, n)
      more == data # <<>>
      takes == n > 0 /\ "PEEK" \notin call[r].flags
  IN /\ pc[r] = "run"
     /\ got' = [got EXCEPT ![r] = data]
     /\ cur' = IF takes THEN (cur + n) % length ELSE cur
     /\ eof' = IF SaysEof(r, more) THEN eof \cup {r} ELSE eof
     /\ \E W \in IF takes THEN Signal(Writers) ELSE {{}} :
          IF ReadReturns(r, more)
          THEN \E R \in IF ReadPassesOn(r) THEN Signal(Readers) ELSE {{}} : Goes(r, "idle", W \cup R)
          ELSE \/ Goes(r, "wait", W)
               \/ /\ "TIMEOUT" \in call[r].flags
                  /\ \E R \in IF ReadPassesOn(r) THEN Signal(Readers) ELSE {{}} : Goes(r, "idle", W \cup R)
     /\ UNCHANGED <<end, buffer, is_destroy, rest>>

\* pthread_cond_timedwait returns ETIMEDOUT.
ReadTimeout(r) ==
  /\ pc[r] = "wait" /\ "TIMEOUT" \in call[r].flags
  /\ \E R \in IF "PEEK" \in call[r].flags /\ end # cur THEN Signal(Readers \ {r}) ELSE {{}} : Goes(r, "idle", R)
  /\ UNCHANGED <<ringVars, readVars, rest>>

-----------------------------------------------------------------------------
(* ring_write *)

\* A message that does not fit into the ring is refused with 0.
WriteRefused(len, fs) == "MSGMODE" \in fs /\ length - 1 < len

BeginWrite(w, data, fs) ==
  /\ pc[w] = "idle"
  /\ ~WriteRefused(Len(data), fs)
  /\ pc' = [pc EXCEPT ![w] = "run"]
  /\ call' = [call EXCEPT ![w] = [NoCall EXCEPT !.flags = fs]]
  /\ rest' = [rest EXCEPT ![w] = data]
  /\ UNCHANGED <<ringVars, readVars>>

\* Variant of CanWrite that lets end catch up with cur.
CanWrite_Full == IF end = cur THEN length ELSE (length - end + cur) % length

\* One byte of the ring stays free: a full ring is not taken for an empty one.
CanWrite == (length - end + cur - 1) % length

\* What the caller has still to write; with RING_REPLACE_OLD only the last
\* bytes, as many as the ring holds.
ToWrite(w) ==
  IF "REPLACE_OLD" \in call[w].flags /\ Len(rest[w]) > length - 1
  THEN SubSeq(rest[w], Len(rest[w]) - length + 2, Len(rest[w]))
  ELSE rest[w]

\* really_write
ReallyWrite(w) ==
  LET need == Len(ToWrite(w))
  IN IF "REPLACE_OLD" \in call[w].flags \/ need <= CanWrite THEN need
     ELSE IF "MSGMODE" \in call[w].flags THEN 0 ELSE CanWrite

\* The memcpys of ring_write.  What goes behind the end of the buffer is not in it.
WriteIn(data) ==
  LET tmp == length - end
      To(i) == IF end >= cur /\ tmp < Len(data) /\ i > tmp THEN i - tmp - 1 ELSE end + i - 1
  IN [p \in 0 .. length - 1 |->
       IF \E i \in 1 .. Len(data) : To(i) = p
       THEN data[CHOOSE i \in 1 .. Len(data) : To(i) = p]
       ELSE buffer[p]]

WriteReturns(w, n) ==
  \/ CanWrite >= Len(ToWrite(w))
  \/ "REPLACE_OLD" \in call[w].flags
  \/ "NOWAIT" \in call[w].flags \cup RingFlags
  \/ "WAITALL" \notin call[w].flags /\ n > 0

\* The writer that leaves room in the ring wakes the next writer.
WritePassesOn(w) == CanWrite > Len(ToWrite(w))

\* Bytes were written: a reader is woken.
WakesReader(n) == n > 0

ring_write(w) ==
  LET n == ReallyWrite(w)
      todo == ToWrite(w)
  IN /\ pc[w] = "run" /\ ~is_destroy
     /\ buffer' = WriteIn(SubSeq(todo, 1, n))
     /\ end' = (end + n) % length
     /\ cur' = IF n > CanWrite THEN (cur + n - CanWrite) % length ELSE cur
     /\ rest' = [rest EXCEPT ![w] = SubSeq(todo, n + 1, Len(todo))]
     /\ \E R \in IF WakesReader(n) THEN Signal(Readers) ELSE {{}} :
          IF WriteReturns(w, n)
          THEN \E W \in IF WritePassesOn(w) THEN Signal(Writers) ELSE {{}} : Goes(w, "idle", R \cup W)
          ELSE Goes(w, "wait", R) \/ ("TIMEOUT" \in call[w].flags /\ Goes(w, "idle", R))
     /\ UNCHANGED <<is_destroy, readVars>>

\* The ring is closed.
WriteClosed(w) ==
  /\ pc[w] = "run" /\ is_destroy
  /\ Goes(w, "idle", {})
  /\ UNCHANGED <<ringVars, readVars, rest>>

\* The test of the deadline at line 361 is the reverse of the reader's: a timed
\* write returns while there is time left, and one whose deadline has passed
\* waits, for a signal or for the ETIMEDOUT that comes at once.
WriteTimeout(w) ==
  /\ pc[w] = "wait" /\ "TIMEOUT" \in call[w].flags
  /\ Goes(w, "idle", {})
  /\ UNCHANGED <<ringVars, readVars, rest>>

-----------------------------------------------------------------------------
\* Both condition variables are broadcast.
ToldOfClose == Threads

ring_close ==
  /\ ~is_destroy
  /\ is_destroy' = TRUE
  /\ pc' = [t \in Threads |-> IF t \in Waiting(ToldOfClose) THEN "run" ELSE pc[t]]
  /\ UNCHANGED <<cur, end, buffer, readVars, rest, call>>

Step(t) == (t \in Readers /\ ring_read(t)) \/ (t \in Writers /\ (ring_write(t) \/ WriteClosed(t)))

Next ==
  \/ \E r \in Readers, len \in Lens, fs \in ReadFlags, sk \in Skips : BeginRead(r, len, fs, sk)
  \/ \E w \in Writers, len \in Lens, fs \in WriteFlags : \E data \in [1 .. len -> Bytes] : BeginWrite(w, data, fs)
  \/ \E t \in Threads : Step(t) \/ SpuriousWakeUp(t)
  \/ \E r \in Readers : ReadTimeout(r)
  \/ \E w \in Writers : WriteTimeout(w)
  \/ ring_close

Spec == Init /\ [][Next]_vars

-----------------------------------------------------------------------------
(* Properties *)

\* The bytes that are in the ring, oldest first.
Contents == [i \in 1 .. (length - cur + end) % length |-> buffer[(cur + i - 1) % length]]

\* Types and the bounds of the two indices.
TypeOK ==
  /\ cur \in 0 .. length - 1 /\ end \in 0 .. length - 1
  /\ buffer \in [0 .. length - 1 -> Bytes]
  /\ is_destroy \in BOOLEAN
  /\ pc \in [Threads -> {"idle", "run", "wait"}]
  /\ \A t \in Threads : call[t].flags \subseteq Flags
  /\ \A r \in Readers : got[r] \in Seq(Bytes)
  /\ \A r \in Readers : pc[r] # "idle" => Len(got[r]) < call[r].want
  /\ eof \subseteq Readers

\* The ring is a bounded queue of bytes whatever the readers and writers do:
\* nothing is lost, repeated, reordered or made up when the indices wrap around
\* (test.sh compares what ring_read and ring_write have copied).
Queue == INSTANCE ByteQueue WITH
  Capacity <- BufferLen, q <- Contents, in <- rest, out <- got, shut <- is_destroy,
  Peeking <- \E fs \in ReadFlags : "PEEK" \in fs,
  Replacing <- \E fs \in WriteFlags : "REPLACE_OLD" \in fs

ImplementsQueue == Queue!QSpec

\* A reader or writer that waits although it could go on is not forgotten:
\* another thread of its kind is awake and will use what there is, or pass the
\* signal on (lines 222, 254 and 346).  Each signal wakes one thread only.
NoLostWakeUp ==
  /\ (\E r \in Waiting(Readers) : ReallyRead(r) > 0) => \E r \in Readers : pc[r] = "run"
  /\ (\E w \in Waiting(Writers) : ReallyWrite(w) > 0) => \E w \in Writers : pc[w] = "run"

\* A closed ring leaves nobody waiting, neither those that ring_close found
\* waiting nor those that come later, and a reader is told of the end, with -1,
\* only when there is nothing left to read (lines 222-251).
CloseSeen ==
  /\ is_destroy => Waiting(Threads) = {}
  /\ eof # {} => is_destroy /\ cur = end

\* Nobody waits who should not: neither for bytes or room that there are, nor on
\* a closed ring.
WaitersRight == TypeOK /\ NoLostWakeUp /\ CloseSeen

\* Callers that all use RING_MSGMODE and one length, as the thread pool does,
\* find whole messages in the ring: none is written or read in part (lines 188
\* and 310), also when it wraps around.
WholeMessages == \A len \in Lens : Len(Contents) % len = 0
=============================================================================
