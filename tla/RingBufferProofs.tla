-------------------------- MODULE RingBufferProofs --------------------------
(***************************************************************************)
(* The ring is a bounded queue of bytes, nobody waits who should not, and  *)
(* messages stay whole, for any number of readers and writers, any size of *)
(* the buffer, any lengths and any bytes.                                  *)
(*                                                                         *)
(* The ring promises this of the uses that its callers make of it, not of  *)
(* every use its arguments allow; each theorem names its use.  The indices *)
(* are removed first: Used and Wrap say without % what the expressions of  *)
(* the code come to, and ContentsAt, TakeContents, PutContents and         *)
(* ReadOutAt what the copies in one and in two parts do.  RingInv is       *)
(* inductive: whoever is in a call has something left to do.  The          *)
(* refinement needs no more; WaitersRight needs WakeInv and WholeMessages  *)
(* needs MessagesInv.                                                      *)
(***************************************************************************)
EXTENDS RingBuffer, SequenceTheorems, TLAPS

-----------------------------------------------------------------------------
(* The uses of the ring *)

\* Callers do not skip bytes when they peek and do not replace old bytes: what
\* the code does then is not what it says (ring_buffer.c, lines 192 and 314).
PlainUse == Skips \subseteq {0} /\ \A fs \in WriteFlags : "REPLACE_OLD" \notin fs

-----------------------------------------------------------------------------
(* Indices *)

\* The number of bytes in the ring.
Used == IF end >= cur THEN end - cur ELSE length - cur + end

\* Where an index is that has passed the end of the buffer.
Wrap(x) == IF x < length THEN x ELSE x - length

Indices == cur \in 0 .. length - 1 /\ end \in 0 .. length - 1

\* The buffer has room for one byte more than the ring holds.
LEMMA LengthRight == length \in Nat /\ length > 1 /\ BufferLen = length - 1 /\ BufferLen \in Nat
BY RingAssumption DEF length

\* Indices wrap around once at most.
LEMMA ModIsWrap ==
  \A x \in 0 .. 2 * length - 1 : x % length = Wrap(x) /\ Wrap(x) \in 0 .. length - 1
<1>1. \A x \in 0 .. length - 1 : x % length = x
  BY LengthRight
<1>2. \A x \in length .. 2 * length - 1 : x % length = x - length
  BY LengthRight
<1> QED
  BY <1>1, <1>2, LengthRight DEF Wrap

\* What the two expressions of the code come to.
LEMMA UsedRight ==
  ASSUME Indices
  PROVE  /\ (length - cur + end) % length = Used
         /\ CanWrite = BufferLen - Used
         /\ Used \in 0 .. BufferLen
         /\ Used = 0 <=> cur = end
<1>1. length - cur + end \in 0 .. 2 * length - 1 /\ length - end + cur - 1 \in 0 .. 2 * length - 1
  BY LengthRight DEF Indices
<1>2. /\ (length - cur + end) % length = Wrap(length - cur + end)
      /\ CanWrite = Wrap(length - end + cur - 1)
  BY <1>1, ModIsWrap DEF CanWrite
<1> QED
  BY <1>2, LengthRight DEF Indices, Wrap, Used

\* The indices after bytes were taken or written.
LEMMA UsedMoves ==
  ASSUME Indices, NEW n \in Nat
  PROVE  /\ n <= Used /\ cur' = (cur + n) % length /\ end' = end =>
              Indices' /\ Used' = Used - n /\ cur' = Wrap(cur + n)
         /\ n <= BufferLen - Used /\ end' = (end + n) % length /\ cur' = cur =>
              Indices' /\ Used' = Used + n /\ end' = Wrap(end + n)
<1>0. Used \in 0 .. BufferLen /\ BufferLen = length - 1 /\ length \in Nat
  BY UsedRight, LengthRight
<1>1. n <= Used => (cur + n) % length = Wrap(cur + n) /\ Wrap(cur + n) \in 0 .. length - 1
  BY <1>0, ModIsWrap DEF Indices
<1>2. n <= BufferLen - Used =>
        (end + n) % length = Wrap(end + n) /\ Wrap(end + n) \in 0 .. length - 1
  BY <1>0, ModIsWrap DEF Indices
<1>3. ASSUME n <= Used, cur' = (cur + n) % length, end' = end
      PROVE  Indices' /\ Used' = Used - n /\ cur' = Wrap(cur + n)
  <2>1. cur' = Wrap(cur + n) /\ cur' \in 0 .. length - 1
    BY <1>1, <1>3
  <2>2. Indices'
    BY <1>3, <2>1 DEF Indices
  <2> QED
    BY <1>3, <2>1, <2>2, LengthRight DEF Indices, Used, Wrap
<1>4. ASSUME n <= BufferLen - Used, end' = (end + n) % length, cur' = cur
      PROVE  Indices' /\ Used' = Used + n /\ end' = Wrap(end + n)
  <2>1. end' = Wrap(end + n) /\ end' \in 0 .. length - 1
    BY <1>2, <1>4
  <2>2. Indices'
    BY <1>4, <2>1 DEF Indices
  <2> QED
    BY <1>4, <2>1, <2>2, LengthRight DEF Indices, Used, Wrap
<1> QED
  BY <1>3, <1>4

-----------------------------------------------------------------------------
(* The bytes *)

\* Sequences are equal when their elements are.
LEMMA SameSeq ==
  ASSUME NEW S, NEW u \in Seq(S), NEW v \in Seq(S), Len(u) = Len(v),
         \A i \in 1 .. Len(u) : u[i] = v[i]
  PROVE  u = v
OBVIOUS

\* What concatenation gives.
LEMMA ConcatSeq ==
  ASSUME NEW S, NEW u \in Seq(S), NEW v \in Seq(S)
  PROVE  u \o v \in Seq(S) /\ Len(u \o v) = Len(u) + Len(v)
OBVIOUS

\* And where it puts the elements.
LEMMA ConcatAt ==
  ASSUME NEW S, NEW u \in Seq(S), NEW v \in Seq(S)
  PROVE  /\ \A i \in 1 .. Len(u) : (u \o v)[i] = u[i]
         /\ \A i \in 1 .. Len(v) : (u \o v)[Len(u) + i] = v[i]
OBVIOUS

BufferTypes == Indices /\ buffer \in [0 .. length - 1 -> Bytes]

\* The bytes in the ring, without the wrapping.
ContentsRight ==
  /\ Contents \in Seq(Bytes) /\ Len(Contents) = Used
  /\ \A i \in 1 .. Used : Contents[i] = buffer[Wrap(cur + i - 1)]

\* They are what Contents says.
LEMMA ContentsAt == BufferTypes => ContentsRight
<1> SUFFICES ASSUME BufferTypes PROVE ContentsRight
  OBVIOUS
<1>1. Used \in Nat /\ Used <= BufferLen
  BY UsedRight, LengthRight DEF BufferTypes
<1>2. \A i \in 1 .. Used : /\ (cur + i - 1) % length = Wrap(cur + i - 1)
                           /\ Wrap(cur + i - 1) \in 0 .. length - 1
  BY <1>1, ModIsWrap, LengthRight DEF BufferTypes, Indices
<1>3. Contents = [i \in 1 .. Used |-> buffer[(cur + i - 1) % length]]
  BY UsedRight DEF Contents, BufferTypes
<1>4. Contents \in [1 .. Used -> Bytes]
  BY <1>2, <1>3 DEF BufferTypes
<1>5. Contents \in Seq(Bytes)
  BY <1>1, <1>4, SeqDef
<1>6. Len(Contents) = Used
  BY <1>1, <1>4, <1>5, LenProperties
<1> QED
  BY <1>2, <1>3, <1>5, <1>6 DEF ContentsRight

\* Taking bytes moves the start.
LEMMA TakeContents ==
  ASSUME BufferTypes, NEW n \in Nat, n <= Used, cur' = (cur + n) % length, end' = end,
         buffer' = buffer
  PROVE  BufferTypes' /\ Contents' = SubSeq(Contents, n + 1, Len(Contents))
<1>1. Indices' /\ Used' = Used - n /\ cur' = Wrap(cur + n) /\ Used \in Nat
  BY UsedMoves, UsedRight, LengthRight DEF BufferTypes
<1>2. BufferTypes'
  BY <1>1 DEF BufferTypes

<1>3. /\ Contents \in Seq(Bytes) /\ Len(Contents) = Used
      /\ \A i \in 1 .. Used : Contents[i] = buffer[Wrap(cur + i - 1)]
  BY ContentsAt DEF ContentsRight
<1>4. /\ Contents' \in Seq(Bytes) /\ Len(Contents') = Used - n
      /\ \A i \in 1 .. Used - n : Contents'[i] = buffer[Wrap(cur' + i - 1)]
  <2>1. BufferTypes' => ContentsRight'
    BY ContentsAt, PTL
  <2> QED
    BY <1>1, <1>2, <2>1 DEF ContentsRight
<1>5. \A i \in 1 .. Used - n : Wrap(cur' + i - 1) = Wrap(cur + (n + i) - 1) /\ n + i \in 1 .. Used
  BY <1>1, LengthRight, UsedRight DEF Wrap, BufferTypes, Indices
<1>6. \A i \in 1 .. Used - n : Contents'[i] = Contents[n + i]
  BY <1>1, <1>3, <1>4, <1>5
<1>7. LET t == SubSeq(Contents, n + 1, Len(Contents))
      IN t \in Seq(Bytes) /\ Len(t) = Used - n /\ \A i \in 1 .. Used - n : t[i] = Contents[n + i]
  BY <1>1, <1>3
<1> QED
  BY <1>1, <1>2, <1>4, <1>6, <1>7

\* Where the copies of ring_write put the bytes.
LEMMA WriteInAt ==
  ASSUME BufferTypes, NEW data \in Seq(Bytes), Len(data) <= BufferLen - Used
  PROVE  /\ WriteIn(data) \in [0 .. length - 1 -> Bytes]
         /\ \A j \in 1 .. Len(data) : WriteIn(data)[Wrap(end + j - 1)] = data[j]
         /\ \A p \in 0 .. length - 1 :
              (\A j \in 1 .. Len(data) : p # Wrap(end + j - 1)) => WriteIn(data)[p] = buffer[p]
<1> DEFINE tmp == length - end
           To(i) == IF end >= cur /\ tmp < Len(data) /\ i > tmp THEN i - tmp - 1 ELSE end + i - 1
<1>1. WriteIn(data) = [p \in 0 .. length - 1 |->
                         IF \E i \in 1 .. Len(data) : To(i) = p
                         THEN data[CHOOSE i \in 1 .. Len(data) : To(i) = p]
                         ELSE buffer[p]]
  BY DEF WriteIn
<1>2. \A i \in 1 .. Len(data) : To(i) = Wrap(end + i - 1) /\ To(i) \in 0 .. length - 1
  BY LengthRight DEF BufferTypes, Indices, Wrap, Used
<1>3. \A i, j \in 1 .. Len(data) : To(i) = To(j) => i = j
  BY <1>2, LengthRight DEF BufferTypes, Indices, Wrap, Used
<1> HIDE DEF To
<1>4. \A i \in 1 .. Len(data) : (CHOOSE j \in 1 .. Len(data) : To(j) = To(i)) = i
  BY <1>3
<1>5. \A i \in 1 .. Len(data) : WriteIn(data)[To(i)] = data[i] /\ data[i] \in Bytes
  BY <1>1, <1>2, <1>4
<1>6. \A p \in 0 .. length - 1 :
        (\A i \in 1 .. Len(data) : To(i) # p) => WriteIn(data)[p] = buffer[p] /\ buffer[p] \in Bytes
  BY <1>1 DEF BufferTypes
<1>7. \A p \in 0 .. length - 1 : WriteIn(data)[p] \in Bytes
  BY <1>5, <1>6
<1>8. WriteIn(data) = [p \in 0 .. length - 1 |-> WriteIn(data)[p]]
  BY <1>1
<1>9. WriteIn(data) \in [0 .. length - 1 -> Bytes]
  BY <1>7, <1>8
<1> QED
  BY <1>2, <1>5, <1>6, <1>9

\* Writing bytes moves the end.
LEMMA PutContents ==
  ASSUME BufferTypes, NEW data \in Seq(Bytes), Len(data) <= BufferLen - Used,
         end' = (end + Len(data)) % length, cur' = cur, buffer' = WriteIn(data)
  PROVE  BufferTypes' /\ Contents' = Contents \o data
<1>0. Len(data) \in Nat /\ Used \in Nat /\ Used <= BufferLen
  BY UsedRight, LengthRight DEF BufferTypes
<1>1. Indices' /\ Used' = Used + Len(data) /\ end' = Wrap(end + Len(data))
  BY <1>0, UsedMoves DEF BufferTypes
<1>2. BufferTypes'
  BY <1>1, WriteInAt DEF BufferTypes
<1>3. /\ Contents \in Seq(Bytes) /\ Len(Contents) = Used
      /\ \A i \in 1 .. Used : Contents[i] = buffer[Wrap(cur + i - 1)]
  BY ContentsAt DEF ContentsRight
<1>4. /\ Contents' \in Seq(Bytes) /\ Len(Contents') = Used + Len(data)
      /\ \A i \in 1 .. Used + Len(data) : Contents'[i] = buffer'[Wrap(cur + i - 1)]
  <2>1. BufferTypes' => ContentsRight'
    BY ContentsAt, PTL
  <2> QED
    BY <1>1, <1>2, <2>1 DEF ContentsRight
<1>5. ASSUME NEW i \in 1 .. Used PROVE Contents'[i] = Contents[i]
  <2>1. Wrap(cur + i - 1) \in 0 .. length - 1
    BY <1>0, LengthRight DEF BufferTypes, Indices, Wrap
  <2>2. \A j \in 1 .. Len(data) : Wrap(cur + i - 1) # Wrap(end + j - 1)
    BY <1>0, LengthRight DEF BufferTypes, Indices, Wrap, Used
  <2>3. Contents'[i] = buffer'[Wrap(cur + i - 1)]
    BY <1>0, <1>4
  <2>4. buffer'[Wrap(cur + i - 1)] = buffer[Wrap(cur + i - 1)]
    BY <2>1, <2>2, WriteInAt
  <2> QED
    BY <2>3, <2>4, <1>3
<1>6. ASSUME NEW j \in 1 .. Len(data) PROVE Contents'[Used + j] = data[j]
  <2>1. Wrap(cur + (Used + j) - 1) = Wrap(end + j - 1)
    BY <1>0, LengthRight DEF BufferTypes, Indices, Wrap, Used
  <2>2. Contents'[Used + j] = buffer'[Wrap(cur + (Used + j) - 1)]
    BY <1>0, <1>4
  <2> QED
    BY <2>1, <2>2, WriteInAt
<1>7. LET t == Contents \o data
      IN /\ t \in Seq(Bytes) /\ Len(t) = Used + Len(data)
         /\ \A i \in 1 .. Used : t[i] = Contents[i]
         /\ \A j \in 1 .. Len(data) : t[Used + j] = data[j]
  <2>1. Contents \o data \in Seq(Bytes) /\ Len(Contents \o data) = Used + Len(data)
    BY <1>3, ConcatSeq
  <2>2. \A i \in 1 .. Len(Contents) : (Contents \o data)[i] = Contents[i]
    BY <1>3, ConcatAt
  <2>3. \A j \in 1 .. Len(data) : (Contents \o data)[Len(Contents) + j] = data[j]
    BY <1>3, ConcatAt
  <2> QED
    BY <1>3, <2>1, <2>2, <2>3
<1>8. \A i \in 1 .. Used + Len(data) : Contents'[i] = (Contents \o data)[i]
  <2> SUFFICES ASSUME NEW i \in 1 .. Used + Len(data) PROVE Contents'[i] = (Contents \o data)[i]
    OBVIOUS
  <2>1. CASE i \in 1 .. Used
    BY <1>5, <1>7, <2>1
  <2>2. CASE i \notin 1 .. Used
    <3>1. i - Used \in 1 .. Len(data) /\ i = Used + (i - Used)
      BY <1>0, <2>2
    <3> QED
      BY <1>6, <1>7, <3>1
  <2> QED
    BY <2>1, <2>2
<1> QED
  BY <1>0, <1>2, <1>4, <1>7, <1>8, SameSeq

\* What the copies of ring_read give.
LEMMA ReadOutAt ==
  ASSUME BufferTypes, NEW r \in Readers, call[r].skip = 0, NEW n \in Nat, n <= Used
  PROVE  /\ ReadOut(r, n) = SubSeq(Contents, 1, n)
         /\ ReadOut(r, n) \in Seq(Bytes) /\ Len(ReadOut(r, n)) = n
<1>0. Used \in Nat /\ Used <= BufferLen
  BY UsedRight, LengthRight DEF BufferTypes
<1>1. \A i \in 1 .. n : ReadOut(r, n)[i] = buffer[Wrap(cur + i - 1)]
  BY <1>0, LengthRight DEF ReadOut, BufferTypes, Indices, Wrap, Used, At
<1>2. /\ Contents \in Seq(Bytes) /\ Len(Contents) = Used
      /\ \A i \in 1 .. Used : Contents[i] = buffer[Wrap(cur + i - 1)]
  BY ContentsAt DEF ContentsRight
<1>3. LET t == SubSeq(Contents, 1, n)
      IN t \in Seq(Bytes) /\ Len(t) = n /\ \A i \in 1 .. n : t[i] = Contents[i]
  BY <1>0, <1>2
<1>4. \A i \in 1 .. n : ReadOut(r, n)[i] = Contents[i] /\ Contents[i] \in Bytes
  BY <1>0, <1>1, <1>2
<1>5. ReadOut(r, n) = [i \in 1 .. n |-> ReadOut(r, n)[i]]
  BY DEF ReadOut
<1>6. ReadOut(r, n) \in [1 .. n -> Bytes]
  BY <1>4, <1>5
<1>7. ReadOut(r, n) \in Seq(Bytes) /\ Len(ReadOut(r, n)) = n
  BY <1>6, SeqDef, LenProperties
<1> QED
  BY <1>3, <1>4, <1>7

-----------------------------------------------------------------------------
(* Types *)

\* The calls: nobody skips bytes.
Calls == [flags : SUBSET Flags, skip : {0}, want : Nat]

\* The types that the arguments need.
RingTypes ==
  /\ BufferTypes
  /\ is_destroy \in BOOLEAN
  /\ pc \in [Threads -> {"idle", "run", "wait"}]
  /\ call \in [Threads -> Calls]
  /\ got \in [Readers -> Seq(Bytes)]
  /\ rest \in [Writers -> Seq(Bytes)]
  /\ eof \subseteq Readers

\* Who is in a call has something left to do.
CallsRight ==
  /\ \A r \in Readers : pc[r] # "idle" => call[r].flags \in ReadFlags /\ Len(got[r]) < call[r].want
  /\ \A w \in Writers : pc[w] # "idle" => call[w].flags \in WriteFlags /\ rest[w] # <<>>

RingInv == RingTypes /\ CallsRight

-----------------------------------------------------------------------------
(* What a step does *)

\* A thread of S is woken, if any waits.
Told(S, W) == Waiting(S) # {} => W \cap Waiting(S) # {}

\* The others go on waiting or are woken.
Moves(t, p) ==
  /\ pc' \in [Threads -> {"idle", "run", "wait"}] /\ call' \in [Threads -> Calls]
  /\ pc'[t] = p /\ call'[t] = (IF p = "idle" THEN NoCall ELSE call[t])
  /\ \A x \in Threads \ {t} :
       call'[x] = call[x] /\ (pc'[x] = pc[x] \/ (pc[x] = "wait" /\ pc'[x] = "run"))

\* Those that are woken are about to run.
Woken(t, W) == \A x \in W \ {t} : pc'[x] = "run"

\* Who is signalled was waiting.
LEMMA SignalRight ==
  ASSUME NEW S \in SUBSET Threads, NEW W \in Signal(S)
  PROVE  W \subseteq Waiting(S) /\ Told(S, W)
BY DEF Signal, Told

\* A step of one thread.
LEMMA GoesMoves ==
  ASSUME RingTypes, NEW t \in Threads, NEW p \in {"idle", "run", "wait"},
         NEW W \in SUBSET Waiting(Threads), Goes(t, p, W)
  PROVE  Moves(t, p) /\ Woken(t, W)
<1>1. NoCall \in Calls
  BY DEF NoCall, Calls
<1>2. W \subseteq Threads /\ \A x \in W : pc[x] = "wait"
  BY DEF Waiting
<1>3. call' \in [Threads -> Calls] /\ call'[t] = (IF p = "idle" THEN NoCall ELSE call[t])
      /\ \A x \in Threads \ {t} : call'[x] = call[x]
  BY <1>1 DEF Goes, RingTypes
<1>4. \A x \in Threads : pc'[x] = IF x = t THEN p ELSE IF x \in W THEN "run" ELSE pc[x]
  BY DEF Goes
<1>5. pc' \in [Threads -> {"idle", "run", "wait"}]
  BY <1>4 DEF Goes, RingTypes
<1> QED
  BY <1>2, <1>3, <1>4, <1>5 DEF Moves, Woken

\* A round of ring_read in which r gets n bytes, goes to p and wakes W.
ReadDone(r, n, p, W) ==
  /\ n \in Nat /\ n <= Used /\ n <= NeedRead(r) /\ n = ReallyRead(r)
  /\ got' = [got EXCEPT ![r] = got[r] \o SubSeq(Contents, 1, n)]
  /\ cur' = IF n > 0 /\ "PEEK" \notin call[r].flags THEN (cur + n) % length ELSE cur
  /\ eof' = IF SaysEof(r, got'[r] # <<>>) THEN eof \cup {r} ELSE eof
  /\ p \in {"idle", "wait"} /\ W \subseteq Waiting(Threads) /\ Goes(r, p, W)
  /\ p = "wait" => ~ReadReturns(r, got'[r] # <<>>)
  /\ n > 0 /\ "PEEK" \notin call[r].flags => Told(Writers, W)
  /\ p = "idle" /\ ReadPassesOn(r) => Told(Readers, W)
  /\ UNCHANGED <<end, buffer, is_destroy, rest>>

\* Nobody skips bytes.
LEMMA NeedsRight ==
  ASSUME RingInv, NEW r \in Readers, pc[r] # "idle"
  PROVE  /\ CanRead(r) = Used /\ NeedRead(r) \in Nat /\ NeedRead(r) > 0 /\ call[r].skip = 0
         /\ NeedRead(r) = call[r].want - Len(got[r]) /\ call[r].want \in Nat
         /\ ReallyRead(r) \in Nat /\ ReallyRead(r) <= Used /\ ReallyRead(r) <= NeedRead(r)
<1>1. call[r] \in Calls /\ got[r] \in Seq(Bytes) /\ Len(got[r]) < call[r].want /\ BufferTypes
  BY DEF RingInv, RingTypes, CallsRight, Threads
<1>2. call[r].skip = 0 /\ call[r].want \in Nat /\ Len(got[r]) \in Nat
  BY <1>1 DEF Calls
<1>3. Used \in Nat /\ CanRead(r) = Used
  BY <1>1, <1>2, UsedRight, LengthRight DEF CanRead, BufferTypes
<1>4. NeedRead(r) \in Nat /\ NeedRead(r) > 0
  BY <1>1, <1>2 DEF NeedRead
<1> QED
  BY <1>2, <1>3, <1>4 DEF ReallyRead, NeedRead

\* ring_read is such a round.
LEMMA ReadEffect ==
  ASSUME RingInv, NEW r \in Readers, ring_read(r)
  PROVE  pc[r] = "run" /\ \E n, p, W : ReadDone(r, n, p, W)
<1> DEFINE n == ReallyRead(r)
           data == got[r] \o ReadOut(r, n)
           more == data # <<>>
           takes == n > 0 /\ "PEEK" \notin call[r].flags
<1>1. /\ pc[r] = "run"
      /\ got' = [got EXCEPT ![r] = data]
      /\ cur' = IF takes THEN (cur + n) % length ELSE cur
      /\ eof' = IF SaysEof(r, more) THEN eof \cup {r} ELSE eof
      /\ UNCHANGED <<end, buffer, is_destroy, rest>>
  BY DEF ring_read
<1>2. /\ n \in Nat /\ n <= Used /\ n <= NeedRead(r)
      /\ ReadOut(r, n) = SubSeq(Contents, 1, n)
  BY <1>1, NeedsRight, ReadOutAt DEF RingInv, RingTypes
<1>3. got'[r] = data
  BY <1>1 DEF RingInv, RingTypes
<1>4. \E V \in IF takes THEN Signal(Writers) ELSE {{}} :
          IF ReadReturns(r, more)
          THEN \E R \in IF ReadPassesOn(r) THEN Signal(Readers) ELSE {{}} :
                 Goes(r, "idle", V \cup R)
          ELSE \/ Goes(r, "wait", V)
               \/ /\ "TIMEOUT" \in call[r].flags
                  /\ \E R \in IF ReadPassesOn(r) THEN Signal(Readers) ELSE {{}} :
                       Goes(r, "idle", V \cup R)
  BY DEF ring_read
<1> HIDE DEF n, data, more, takes
<1>5. PICK V \in IF takes THEN Signal(Writers) ELSE {{}} :
        \/ Goes(r, "wait", V) /\ ~ReadReturns(r, more)
        \/ \E R \in IF ReadPassesOn(r) THEN Signal(Readers) ELSE {{}} : Goes(r, "idle", V \cup R)
  BY <1>4
<1>6. V \subseteq Waiting(Threads) /\ (takes => Told(Writers, V))
  <2>1. CASE takes
    BY <1>5, <2>1, SignalRight DEF Threads, Waiting
  <2>2. CASE ~takes
    BY <1>5, <2>2
  <2> QED
    BY <2>1, <2>2
<1>7. CASE Goes(r, "wait", V) /\ ~ReadReturns(r, more)
  <2>1. ReadDone(r, n, "wait", V)
    BY <1>1, <1>2, <1>3, <1>6, <1>7 DEF ReadDone, n, data, more, takes
  <2> QED
    BY <1>1, <2>1
<1>8. CASE \E R \in IF ReadPassesOn(r) THEN Signal(Readers) ELSE {{}} : Goes(r, "idle", V \cup R)
  <2>1. PICK R \in IF ReadPassesOn(r) THEN Signal(Readers) ELSE {{}} : Goes(r, "idle", V \cup R)
    BY <1>8
  <2>2. R \subseteq Waiting(Threads) /\ (ReadPassesOn(r) => Told(Readers, R))
    <3>1. CASE ReadPassesOn(r)
      BY <2>1, <3>1, SignalRight DEF Threads, Waiting
    <3>2. CASE ~ReadPassesOn(r)
      BY <2>1, <3>2
    <3> QED
      BY <3>1, <3>2
  <2>3. V \cup R \subseteq Waiting(Threads) /\ (takes => Told(Writers, V \cup R))
        /\ (ReadPassesOn(r) => Told(Readers, V \cup R))
    BY <1>6, <2>2 DEF Told
  <2>4. ReadDone(r, n, "idle", V \cup R)
    BY <1>1, <1>2, <1>3, <2>1, <2>3 DEF ReadDone, n, data, more, takes
  <2> QED
    BY <1>1, <2>4
<1> QED
  BY <1>5, <1>7, <1>8

\* A round of ring_write in which w writes n bytes, goes to p and wakes V.
WriteDone(w, n, p, V) ==
  /\ n \in Nat /\ n <= BufferLen - Used /\ n <= Len(rest[w]) /\ n = ReallyWrite(w) /\ ~is_destroy
  /\ buffer' = WriteIn(SubSeq(rest[w], 1, n))
  /\ end' = (end + n) % length
  /\ cur' = cur
  /\ rest' = [rest EXCEPT ![w] = SubSeq(rest[w], n + 1, Len(rest[w]))]
  /\ p \in {"idle", "wait"} /\ V \subseteq Waiting(Threads) /\ Goes(w, p, V)
  /\ p = "wait" => ~WriteReturns(w, n)
  /\ n > 0 => Told(Readers, V)
  /\ p = "idle" /\ WritePassesOn(w) => Told(Writers, V)
  /\ UNCHANGED <<is_destroy, got, eof>>

\* Nobody replaces old bytes.
LEMMA RoomRight ==
  ASSUME PlainUse, RingInv, NEW w \in Writers, pc[w] # "idle"
  PROVE  /\ ToWrite(w) = rest[w] /\ "REPLACE_OLD" \notin call[w].flags /\ rest[w] \in Seq(Bytes)
         /\ Len(rest[w]) \in Nat /\ Len(rest[w]) > 0
         /\ CanWrite = BufferLen - Used /\ CanWrite \in Nat
         /\ ReallyWrite(w) \in Nat /\ ReallyWrite(w) <= CanWrite /\ ReallyWrite(w) <= Len(rest[w])
<1>1. "REPLACE_OLD" \notin call[w].flags
  BY DEF PlainUse, RingInv, CallsRight
<1>2. ToWrite(w) = rest[w]
  BY <1>1 DEF ToWrite
<1>3. rest[w] \in Seq(Bytes) /\ rest[w] # <<>>
  BY DEF RingInv, RingTypes, CallsRight
<1>4. Len(rest[w]) \in Nat /\ Len(rest[w]) > 0
  BY <1>3
<1>5. CanWrite = BufferLen - Used /\ CanWrite \in Nat
  BY UsedRight, LengthRight DEF RingInv, RingTypes, BufferTypes
<1> QED
  BY <1>1, <1>2, <1>3, <1>4, <1>5 DEF ReallyWrite

\* ring_write is such a round.
LEMMA WriteEffect ==
  ASSUME PlainUse, RingInv, NEW w \in Writers, ring_write(w)
  PROVE  pc[w] = "run" /\ \E n, p, V : WriteDone(w, n, p, V)
<1> DEFINE n == ReallyWrite(w)
<1>0. pc[w] = "run" /\ ~is_destroy
  BY DEF ring_write
<1>1. /\ ToWrite(w) = rest[w] /\ "REPLACE_OLD" \notin call[w].flags
      /\ n \in Nat /\ n <= CanWrite /\ n <= Len(rest[w])
      /\ CanWrite = BufferLen - Used /\ CanWrite \in Nat
  BY <1>0, RoomRight
<1>2. /\ buffer' = WriteIn(SubSeq(rest[w], 1, n))
      /\ end' = (end + n) % length
      /\ cur' = cur
      /\ rest' = [rest EXCEPT ![w] = SubSeq(rest[w], n + 1, Len(rest[w]))]
      /\ UNCHANGED <<is_destroy, got, eof>>
  BY <1>1 DEF ring_write, readVars
<1>3. \E R \in IF WakesReader(n) THEN Signal(Readers) ELSE {{}} :
          IF WriteReturns(w, n)
          THEN \E V \in IF WritePassesOn(w) THEN Signal(Writers) ELSE {{}} :
                 Goes(w, "idle", R \cup V)
          ELSE Goes(w, "wait", R) \/ ("TIMEOUT" \in call[w].flags /\ Goes(w, "idle", R))
  BY DEF ring_write
<1>4. WritePassesOn(w) => WriteReturns(w, n)
  BY <1>1 DEF WritePassesOn, WriteReturns
<1> HIDE DEF n
<1>5. PICK R \in IF WakesReader(n) THEN Signal(Readers) ELSE {{}} :
        \/ Goes(w, "wait", R) /\ ~WriteReturns(w, n)
        \/ ~WritePassesOn(w) /\ Goes(w, "idle", R)
        \/ WritePassesOn(w) /\ \E V \in Signal(Writers) : Goes(w, "idle", R \cup V)
  <2>1. PICK R \in IF WakesReader(n) THEN Signal(Readers) ELSE {{}} :
          IF WriteReturns(w, n)
          THEN \E V \in IF WritePassesOn(w) THEN Signal(Writers) ELSE {{}} :
                 Goes(w, "idle", R \cup V)
          ELSE Goes(w, "wait", R) \/ ("TIMEOUT" \in call[w].flags /\ Goes(w, "idle", R))
    BY <1>3
  <2>2. R \cup {} = R
    OBVIOUS
  <2> QED
    BY <1>4, <2>1, <2>2
<1>6. R \subseteq Waiting(Threads) /\ (n > 0 => Told(Readers, R))
  <2>1. CASE WakesReader(n)
    BY <1>5, <2>1, SignalRight DEF Threads, Waiting
  <2>2. CASE ~WakesReader(n)
    BY <1>5, <2>2 DEF WakesReader
  <2> QED
    BY <2>1, <2>2
<1>7. CASE Goes(w, "wait", R) /\ ~WriteReturns(w, n)
  <2>1. WriteDone(w, n, "wait", R)
    BY <1>0, <1>1, <1>2, <1>6, <1>7 DEF WriteDone, n
  <2> QED
    BY <1>0, <2>1
<1>8. CASE ~WritePassesOn(w) /\ Goes(w, "idle", R)
  <2>1. WriteDone(w, n, "idle", R)
    BY <1>0, <1>1, <1>2, <1>6, <1>8 DEF WriteDone, n
  <2> QED
    BY <1>0, <2>1
<1>9. CASE WritePassesOn(w) /\ \E V \in Signal(Writers) : Goes(w, "idle", R \cup V)
  <2>1. PICK V \in Signal(Writers) : Goes(w, "idle", R \cup V)
    BY <1>9
  <2>2. V \subseteq Waiting(Threads) /\ Told(Writers, V)
    BY <2>1, SignalRight DEF Threads, Waiting
  <2>3. /\ R \cup V \subseteq Waiting(Threads) /\ (n > 0 => Told(Readers, R \cup V))
        /\ Told(Writers, R \cup V)
    BY <1>6, <2>2 DEF Told
  <2>4. WriteDone(w, n, "idle", R \cup V)
    BY <1>0, <1>1, <1>2, <2>1, <2>3 DEF WriteDone, n
  <2> QED
    BY <1>0, <2>4
<1> QED
  BY <1>5, <1>7, <1>8, <1>9

\* What a round of ring_read leaves in the ring.
LEMMA ReadContents ==
  ASSUME RingInv, NEW r \in Readers, NEW n, NEW p, NEW W, ReadDone(r, n, p, W)
  PROVE  /\ BufferTypes' /\ Used \in Nat
         /\ n > 0 /\ "PEEK" \notin call[r].flags =>
              Contents' = SubSeq(Contents, n + 1, Len(Contents)) /\ Used' = Used - n
         /\ ~(n > 0 /\ "PEEK" \notin call[r].flags) =>
              Contents' = Contents /\ Used' = Used /\ cur' = cur
<1>1. BufferTypes /\ Used \in Nat /\ n \in Nat /\ n <= Used /\ end' = end /\ buffer' = buffer
  BY UsedRight, LengthRight DEF RingInv, RingTypes, BufferTypes, ReadDone
<1>2. CASE n > 0 /\ "PEEK" \notin call[r].flags
  <2>1. cur' = (cur + n) % length
    BY <1>2 DEF ReadDone
  <2> QED
    BY <1>1, <1>2, <2>1, TakeContents, UsedMoves DEF BufferTypes
<1>3. CASE ~(n > 0 /\ "PEEK" \notin call[r].flags)
  <2>1. cur' = cur
    BY <1>3 DEF ReadDone
  <2> QED
    BY <1>1, <1>3, <2>1 DEF BufferTypes, Indices, Contents, Used
<1> QED
  BY <1>2, <1>3

\* What a round of ring_write leaves in it.
LEMMA WriteContents ==
  ASSUME PlainUse, RingInv, NEW w \in Writers, pc[w] # "idle", NEW n, NEW p, NEW V,
         WriteDone(w, n, p, V)
  PROVE  /\ BufferTypes' /\ Used \in Nat
         /\ Contents' = Contents \o SubSeq(rest[w], 1, n) /\ Used' = Used + n
<1>1. BufferTypes /\ Used \in Nat /\ n \in Nat /\ n <= BufferLen - Used /\ cur' = cur
  BY UsedRight, LengthRight DEF RingInv, RingTypes, BufferTypes, WriteDone
<1>2. rest[w] \in Seq(Bytes) /\ n <= Len(rest[w])
  BY RoomRight DEF WriteDone
<1>3. SubSeq(rest[w], 1, n) \in Seq(Bytes) /\ Len(SubSeq(rest[w], 1, n)) = n
  BY <1>1, <1>2
<1>4. end' = (end + n) % length /\ buffer' = WriteIn(SubSeq(rest[w], 1, n))
  BY DEF WriteDone
<1> QED
  BY <1>1, <1>3, <1>4, PutContents, UsedMoves DEF BufferTypes

-----------------------------------------------------------------------------
(* The types are kept *)

\* What holds of the calls of the others.
LEMMA OthersKeep ==
  ASSUME RingInv, NEW t \in Threads, NEW p, Moves(t, p)
  PROVE  /\ \A r \in Readers \ {t} : pc'[r] # "idle" /\ got'[r] = got[r] =>
              call'[r].flags \in ReadFlags /\ Len(got'[r]) < call'[r].want
         /\ \A w \in Writers \ {t} : pc'[w] # "idle" /\ rest'[w] = rest[w] =>
              call'[w].flags \in WriteFlags /\ rest'[w] # <<>>
BY DEF RingInv, CallsRight, Moves, Threads

\* A round of ring_read.
LEMMA ReadKeeps ==
  ASSUME RingInv, NEW r \in Readers, ring_read(r)
  PROVE  RingInv'
<1>0. r \in Threads /\ r \notin Writers
  BY RingAssumption DEF Threads
<1>1. PICK n, p, W : ReadDone(r, n, p, W)
  BY ReadEffect
<1>2. pc[r] = "run"
  BY ReadEffect
<1>3. Moves(r, p)
  BY <1>0, <1>1, GoesMoves DEF ReadDone, RingInv
<1>4. /\ got[r] \in Seq(Bytes) /\ Contents \in Seq(Bytes) /\ Len(Contents) = Used
      /\ n \in Nat /\ n <= Used /\ Used \in Nat
  BY <1>1, ContentsAt, ReadContents DEF RingInv, RingTypes, ReadDone, ContentsRight
<1>5. SubSeq(Contents, 1, n) \in Seq(Bytes) /\ Len(SubSeq(Contents, 1, n)) = n
  BY <1>4
<1>6. /\ got[r] \o SubSeq(Contents, 1, n) \in Seq(Bytes)
      /\ Len(got[r] \o SubSeq(Contents, 1, n)) = Len(got[r]) + n
  BY <1>4, <1>5, ConcatSeq
<1>7. /\ got' \in [Readers -> Seq(Bytes)] /\ Len(got'[r]) = Len(got[r]) + n
      /\ \A x \in Readers \ {r} : got'[x] = got[x]
  BY <1>1, <1>6 DEF ReadDone, RingInv, RingTypes
<1>8. RingTypes'
  BY <1>1, <1>3, <1>7, ReadContents DEF RingInv, RingTypes, ReadDone, Moves
<1>9. pc'[r] # "idle" => call'[r].flags \in ReadFlags /\ Len(got'[r]) < call'[r].want
  <2> SUFFICES ASSUME pc'[r] # "idle"
               PROVE  call'[r].flags \in ReadFlags /\ Len(got'[r]) < call'[r].want
    OBVIOUS
  <2>1. p = "wait" /\ call'[r] = call[r]
    BY <1>1, <1>3 DEF Moves, ReadDone
  <2>2. CanRead(r) < NeedRead(r)
    BY <1>1, <1>2, <1>4, <2>1, NeedsRight DEF ReadDone, ReadReturns
  <2>3. n < NeedRead(r)
    BY <1>1, <1>2, <1>4, <2>2, NeedsRight DEF ReadDone
  <2>4. Len(got[r]) + n < call[r].want
    BY <1>2, <1>4, <2>3, NeedsRight
  <2> QED
    BY <1>2, <1>7, <2>1, <2>4 DEF RingInv, CallsRight
<1>10. CallsRight'
  BY <1>0, <1>1, <1>3, <1>7, <1>9, OthersKeep DEF CallsRight, ReadDone
<1> QED
  BY <1>8, <1>10 DEF RingInv

\* A round of ring_write.
LEMMA WriteKeeps ==
  ASSUME PlainUse, RingInv, NEW w \in Writers, ring_write(w)
  PROVE  RingInv'
<1>0. w \in Threads /\ w \notin Readers
  BY RingAssumption DEF Threads
<1>1. PICK n, p, V : WriteDone(w, n, p, V)
  BY WriteEffect
<1>2. pc[w] = "run"
  BY WriteEffect
<1>3. Moves(w, p)
  BY <1>0, <1>1, GoesMoves DEF WriteDone, RingInv
<1>4. /\ rest[w] \in Seq(Bytes) /\ Len(rest[w]) \in Nat /\ n \in Nat /\ n <= Len(rest[w])
      /\ ToWrite(w) = rest[w]
  BY <1>1, <1>2, RoomRight DEF WriteDone
<1>5. /\ SubSeq(rest[w], n + 1, Len(rest[w])) \in Seq(Bytes)
      /\ Len(SubSeq(rest[w], n + 1, Len(rest[w]))) = Len(rest[w]) - n
  BY <1>4
<1>6. /\ rest' \in [Writers -> Seq(Bytes)] /\ Len(rest'[w]) = Len(rest[w]) - n
      /\ \A x \in Writers \ {w} : rest'[x] = rest[x]
  BY <1>1, <1>5 DEF WriteDone, RingInv, RingTypes
<1>7. RingTypes'
  BY <1>1, <1>2, <1>3, <1>6, WriteContents DEF RingInv, RingTypes, WriteDone, Moves
<1>8. pc'[w] # "idle" => call'[w].flags \in WriteFlags /\ rest'[w] # <<>>
  <2> SUFFICES ASSUME pc'[w] # "idle" PROVE call'[w].flags \in WriteFlags /\ rest'[w] # <<>>
    OBVIOUS
  <2>1. p = "wait" /\ call'[w] = call[w]
    BY <1>1, <1>3 DEF Moves, WriteDone
  <2>2. CanWrite < Len(rest[w])
    BY <1>1, <1>2, <1>4, <2>1, RoomRight DEF WriteDone, WriteReturns
  <2>3. n < Len(rest[w])
    BY <1>1, <1>2, <1>4, <2>2, RoomRight DEF WriteDone
  <2>4. rest'[w] # <<>>
    BY <1>4, <1>6, <2>3
  <2> QED
    BY <1>2, <2>1, <2>4 DEF RingInv, CallsRight
<1>9. CallsRight'
  BY <1>0, <1>1, <1>3, <1>6, <1>8, OthersKeep DEF CallsRight, WriteDone
<1> QED
  BY <1>7, <1>9 DEF RingInv

\* The steps that leave the ring and the calls alone.
Quiet(t) ==
  \/ SpuriousWakeUp(t)
  \/ t \in Readers /\ ReadTimeout(t)
  \/ t \in Writers /\ (WriteTimeout(t) \/ WriteClosed(t))

\* What they do.
LEMMA QuietEffect ==
  ASSUME RingInv, NEW t \in Threads, Quiet(t)
  PROVE  /\ \E p \in {"run", "idle"} :
              /\ Moves(t, p) /\ (p = "run" => pc[t] = "wait")
              /\ (pc[t] = "run" => t \in Writers /\ is_destroy)
         /\ UNCHANGED <<cur, end, buffer, is_destroy, got, eof, rest>> /\ pc[t] # "idle"
<1>1. UNCHANGED <<cur, end, buffer, is_destroy, got, eof, rest>> /\ pc[t] # "idle"
  BY DEF Quiet, SpuriousWakeUp, ReadTimeout, WriteTimeout, WriteClosed, ringVars, readVars
<1>2. CASE SpuriousWakeUp(t)
  <2>1. Goes(t, "run", {}) /\ pc[t] = "wait"
    BY <1>2 DEF SpuriousWakeUp
  <2> QED
    BY <1>1, <2>1, GoesMoves DEF RingInv
<1>3. CASE t \in Readers /\ ReadTimeout(t)
  <2>1. PICK R \in IF "PEEK" \in call[t].flags /\ end # cur THEN Signal(Readers \ {t}) ELSE {{}} :
          Goes(t, "idle", R)
    BY <1>3 DEF ReadTimeout
  <2>2. R \subseteq Waiting(Threads)
    BY <2>1, SignalRight DEF Threads, Waiting
  <2>3. pc[t] = "wait"
    BY <1>3 DEF ReadTimeout
  <2> QED
    BY <1>1, <2>1, <2>2, <2>3, GoesMoves DEF RingInv
<1>4. CASE t \in Writers /\ WriteTimeout(t)
  <2>1. Goes(t, "idle", {}) /\ pc[t] = "wait"
    BY <1>4 DEF WriteTimeout
  <2> QED
    BY <1>1, <2>1, GoesMoves DEF RingInv
<1>5. CASE t \in Writers /\ WriteClosed(t)
  <2>1. Goes(t, "idle", {}) /\ pc[t] = "run" /\ is_destroy
    BY <1>5 DEF WriteClosed
  <2> QED
    BY <1>1, <1>5, <2>1, GoesMoves DEF RingInv
<1> QED
  BY <1>2, <1>3, <1>4, <1>5 DEF Quiet

\* They keep the types.
LEMMA QuietKeeps ==
  ASSUME RingInv, NEW t \in Threads, Quiet(t)
  PROVE  RingInv'
<1>1. PICK p \in {"run", "idle"} : Moves(t, p)
  BY QuietEffect
<1>2. UNCHANGED <<cur, end, buffer, is_destroy, got, eof, rest>> /\ pc[t] # "idle"
  BY QuietEffect
<1>3. RingTypes'
  BY <1>1, <1>2 DEF RingInv, RingTypes, BufferTypes, Indices, Moves
<1>4. pc'[t] # "idle" => call'[t] = call[t]
  BY <1>1 DEF Moves
<1>5. CallsRight'
  BY <1>1, <1>2, <1>4, OthersKeep DEF CallsRight, RingInv
<1> QED
  BY <1>3, <1>5 DEF RingInv

\* A call of ring_read.
LEMMA BeginReadKeeps ==
  ASSUME PlainUse, RingInv, NEW r \in Readers, NEW len \in Lens, NEW fs \in ReadFlags,
         NEW sk \in Skips,
         BeginRead(r, len, fs, sk)
  PROVE  /\ RingInv'
         /\ call'[r].want = (IF "PEEK" \in fs /\ len > BufferLen THEN BufferLen ELSE len)
<1> DEFINE want == IF "PEEK" \in fs THEN Min({len, length - 1 - sk}) ELSE len
<1>0. r \in Threads /\ r \notin Writers /\ sk = 0 /\ len \in Nat /\ len > 0
  BY RingAssumption DEF Threads, PlainUse
<1>1. /\ pc' = [pc EXCEPT ![r] = "run"] /\ got' = [got EXCEPT ![r] = <<>>] /\ pc[r] = "idle"
      /\ call' = [call EXCEPT ![r] = [flags |-> fs, skip |-> sk, want |-> want]]
      /\ UNCHANGED <<cur, end, buffer, is_destroy, rest, eof>>
  BY DEF BeginRead, ringVars
<1>2. Min({len, length - 1 - sk}) = IF len > BufferLen THEN BufferLen ELSE len
  BY <1>0, LengthRight DEF Min
<1>3. /\ want \in Nat /\ want > 0
      /\ want = (IF "PEEK" \in fs /\ len > BufferLen THEN BufferLen ELSE len)
  BY <1>0, <1>2, LengthRight
<1> HIDE DEF want
<1>4. fs \in SUBSET Flags /\ [flags |-> fs, skip |-> sk, want |-> want] \in Calls
  BY <1>0, <1>3, RingAssumption DEF Calls
<1>5. /\ call' \in [Threads -> Calls] /\ call'[r] = [flags |-> fs, skip |-> sk, want |-> want]
      /\ \A x \in Threads \ {r} : call'[x] = call[x] /\ pc'[x] = pc[x]
  BY <1>0, <1>1, <1>4 DEF RingInv, RingTypes
<1>6. /\ got' \in [Readers -> Seq(Bytes)] /\ got'[r] = <<>>
      /\ \A x \in Readers \ {r} : got'[x] = got[x]
  BY <1>1 DEF RingInv, RingTypes
<1>7. RingTypes'
  BY <1>1, <1>5, <1>6 DEF RingInv, RingTypes, BufferTypes, Indices
<1>8. CallsRight'
  BY <1>0, <1>1, <1>3, <1>5, <1>6 DEF RingInv, CallsRight, Threads
<1> QED
  BY <1>3, <1>5, <1>7, <1>8 DEF RingInv

\* A call of ring_write.
LEMMA BeginWriteKeeps ==
  ASSUME RingInv, NEW w \in Writers, NEW len \in Lens, NEW fs \in WriteFlags,
         NEW data \in [1 .. len -> Bytes], BeginWrite(w, data, fs)
  PROVE  RingInv' /\ data \in Seq(Bytes) /\ Len(data) = len
<1>0. w \in Threads /\ w \notin Readers /\ len \in Nat /\ len > 0
  BY RingAssumption DEF Threads
<1>1. /\ pc' = [pc EXCEPT ![w] = "run"] /\ rest' = [rest EXCEPT ![w] = data] /\ pc[w] = "idle"
      /\ call' = [call EXCEPT ![w] = [NoCall EXCEPT !.flags = fs]]
      /\ UNCHANGED <<cur, end, buffer, is_destroy, got, eof>>
  BY DEF BeginWrite, ringVars, readVars
<1>2. data \in Seq(Bytes) /\ Len(data) = len /\ data # <<>>
  <2>1. data \in Seq(Bytes)
    BY <1>0, SeqDef
  <2>2. Len(data) = len
    BY <1>0, <2>1, LenProperties
  <2> QED
    BY <1>0, <2>1, <2>2
<1>3. [NoCall EXCEPT !.flags = fs] \in Calls /\ [NoCall EXCEPT !.flags = fs].flags = fs
  BY RingAssumption DEF Calls, NoCall
<1>4. /\ call' \in [Threads -> Calls] /\ call'[w].flags = fs
      /\ \A x \in Threads \ {w} : call'[x] = call[x] /\ pc'[x] = pc[x]
  BY <1>0, <1>1, <1>3 DEF RingInv, RingTypes
<1>5. /\ rest' \in [Writers -> Seq(Bytes)] /\ rest'[w] = data
      /\ \A x \in Writers \ {w} : rest'[x] = rest[x]
  BY <1>1, <1>2 DEF RingInv, RingTypes
<1>6. RingTypes'
  BY <1>1, <1>4, <1>5 DEF RingInv, RingTypes, BufferTypes, Indices
<1>7. CallsRight'
  BY <1>0, <1>1, <1>2, <1>4, <1>5 DEF RingInv, CallsRight, Threads
<1> QED
  BY <1>2, <1>6, <1>7 DEF RingInv

\* ring_close.
LEMMA CloseKeeps ==
  ASSUME RingInv, ring_close
  PROVE  /\ RingInv' /\ UNCHANGED <<cur, end, buffer, got, eof, rest, call>> /\ is_destroy'
         /\ \A t \in Threads : pc'[t] = IF pc[t] = "wait" THEN "run" ELSE pc[t]
<1>1. UNCHANGED <<cur, end, buffer, got, eof, rest, call>> /\ is_destroy' = TRUE
  BY DEF ring_close, readVars
<1>2. /\ \A t \in Threads : pc'[t] = IF pc[t] = "wait" THEN "run" ELSE pc[t]
      /\ pc' \in [Threads -> {"idle", "run", "wait"}]
  BY DEF ring_close, Waiting, ToldOfClose, RingInv, RingTypes
<1>3. RingTypes'
  BY <1>1, <1>2 DEF RingInv, RingTypes, BufferTypes, Indices
<1>4. CallsRight'
  BY <1>1, <1>2 DEF RingInv, CallsRight, Threads
<1> QED
  BY <1>1, <1>2, <1>3, <1>4 DEF RingInv

\* The ring is empty and nobody is in a call.
LEMMA RingInit == Init => RingInv /\ Used = 0
<1> SUFFICES ASSUME Init PROVE RingInv /\ Used = 0
  OBVIOUS
<1>1. (CHOOSE b \in Bytes : TRUE) \in Bytes
  BY RingAssumption
<1>2. buffer \in [0 .. length - 1 -> Bytes]
  BY <1>1 DEF Init
<1>3. NoCall \in Calls
  BY DEF NoCall, Calls
<1>4. Indices /\ Used = 0
  BY LengthRight DEF Init, Indices, Used
<1>5. RingTypes
  <2>1. is_destroy \in BOOLEAN
    BY Zenon DEF Init
  <2>2. /\ pc \in [Threads -> {"idle", "run", "wait"}] /\ call \in [Threads -> Calls]
        /\ eof \subseteq Readers
    BY <1>3 DEF Init
  <2>3. <<>> \in Seq(Bytes)
    OBVIOUS
  <2>4. got \in [Readers -> Seq(Bytes)] /\ rest \in [Writers -> Seq(Bytes)]
    BY <2>3 DEF Init
  <2> QED
    BY <1>2, <1>4, <2>1, <2>2, <2>4 DEF RingTypes, BufferTypes
<1>6. CallsRight
  BY DEF Init, CallsRight, Threads
<1> QED
  BY <1>4, <1>5, <1>6 DEF RingInv

\* The actions as the lemmas have them.
LEMMA NextCases ==
  ASSUME Next
  PROVE  \/ \E r \in Readers, len \in Lens, fs \in ReadFlags, sk \in Skips :
              BeginRead(r, len, fs, sk)
         \/ \E w \in Writers, len \in Lens, fs \in WriteFlags :
              \E data \in [1 .. len -> Bytes] : BeginWrite(w, data, fs)
         \/ \E r \in Readers : ring_read(r)
         \/ \E w \in Writers : ring_write(w)
         \/ \E t \in Threads : Quiet(t)
         \/ ring_close
BY DEF Next, Step, Quiet, Threads

\* Every step keeps the types.
LEMMA RingStep == PlainUse /\ RingInv /\ [Next]_vars => RingInv'
<1> SUFFICES ASSUME PlainUse, RingInv, [Next]_vars PROVE RingInv'
  OBVIOUS
<1>1. CASE Next
  BY <1>1, NextCases, BeginReadKeeps, BeginWriteKeeps, ReadKeeps, WriteKeeps, QuietKeeps, CloseKeeps
<1>2. CASE UNCHANGED vars
  <2>1. UNCHANGED <<cur, end, buffer, is_destroy, got, eof, rest, pc, call>>
    BY <1>2 DEF vars, ringVars, readVars
  <2> QED
    BY <2>1 DEF RingInv, RingTypes, BufferTypes, Indices, CallsRight
<1> QED
  BY <1>1, <1>2

-----------------------------------------------------------------------------
(* The ring is a queue *)

\* The step of the queue that a round of ring_read is.
LEMMA ReadRefines ==
  ASSUME RingInv, NEW r \in Readers, ring_read(r)
  PROVE  Queue!Take(r) \/ Queue!Peek(r) \/ UNCHANGED Queue!qVars
<1>1. PICK n, p, W : ReadDone(r, n, p, W)
  BY ReadEffect
<1>2. /\ n \in Nat /\ n <= Used /\ UNCHANGED <<rest, is_destroy>> /\ pc[r] = "run"
      /\ got' = [got EXCEPT ![r] = got[r] \o SubSeq(Contents, 1, n)]
  BY <1>1, ReadEffect DEF ReadDone
<1>3. Contents \in Seq(Bytes) /\ Len(Contents) = Used /\ Used \in Nat
  BY <1>1, ContentsAt, ReadContents DEF RingInv, RingTypes, ContentsRight
<1>4. CASE n = 0
  <2>1. Contents' = Contents
    BY <1>1, <1>4, ReadContents
  <2>2. SubSeq(Contents, 1, 0) = <<>>
    BY <1>3
  <2>3. got[r] \o <<>> = got[r] /\ got = [got EXCEPT ![r] = got[r]]
    BY DEF RingInv, RingTypes
  <2> QED
    BY <1>2, <1>4, <2>1, <2>2, <2>3 DEF Queue!qVars
<1>5. CASE n > 0 /\ "PEEK" \notin call[r].flags
  <2>1. n \in 1 .. Len(Contents)
    BY <1>2, <1>3, <1>5
  <2>2. Contents' = SubSeq(Contents, n + 1, Len(Contents))
    BY <1>1, <1>5, ReadContents
  <2> QED
    BY <1>2, <2>1, <2>2 DEF Queue!Take
<1>6. CASE n > 0 /\ "PEEK" \in call[r].flags
  <2>1. 1 \in 1 .. Len(Contents) /\ n \in 1 .. Len(Contents)
    BY <1>2, <1>3, <1>6
  <2>2. Contents' = Contents
    BY <1>1, <1>6, ReadContents
  <2>3. \E fs \in ReadFlags : "PEEK" \in fs
    BY <1>2, <1>6 DEF RingInv, CallsRight
  <2> QED
    BY <1>2, <2>1, <2>2, <2>3 DEF Queue!Peek
<1> QED
  BY <1>2, <1>4, <1>5, <1>6

\* The step of the queue that a round of ring_write is.
LEMMA WriteRefines ==
  ASSUME PlainUse, RingInv, NEW w \in Writers, ring_write(w)
  PROVE  Queue!Put(w) \/ UNCHANGED Queue!qVars
<1>1. PICK n, p, V : WriteDone(w, n, p, V)
  BY WriteEffect
<1>2. /\ n \in Nat /\ n <= BufferLen - Used /\ n <= Len(rest[w])
      /\ UNCHANGED <<got, is_destroy>> /\ ~is_destroy /\ pc[w] = "run"
      /\ rest' = [rest EXCEPT ![w] = SubSeq(rest[w], n + 1, Len(rest[w]))]
  BY <1>1, WriteEffect DEF WriteDone
<1>3. rest[w] \in Seq(Bytes)
  BY <1>2, RoomRight
<1>4. Contents \in Seq(Bytes) /\ Len(Contents) = Used /\ Used \in Nat
  BY <1>1, <1>2, ContentsAt, WriteContents DEF RingInv, RingTypes, ContentsRight
<1>5. Contents' = Contents \o SubSeq(rest[w], 1, n)
  BY <1>1, <1>2, WriteContents
<1>6. CASE n = 0
  <2>1. SubSeq(rest[w], 1, 0) = <<>> /\ SubSeq(rest[w], 1, Len(rest[w])) = rest[w]
    BY <1>3
  <2>2. Contents \o <<>> = Contents /\ rest = [rest EXCEPT ![w] = rest[w]]
    BY <1>4 DEF RingInv, RingTypes
  <2>3. n + 1 = 1
    BY <1>6
  <2>4. rest' = [rest EXCEPT ![w] = SubSeq(rest[w], 1, Len(rest[w]))]
    BY <1>2, <2>3
  <2>5. rest' = rest
    BY <2>1, <2>2, <2>4
  <2>6. Contents' = Contents \o SubSeq(rest[w], 1, 0)
    BY <1>5, <1>6
  <2>7. Contents' = Contents
    BY <2>1, <2>2, <2>6
  <2> QED
    BY <1>2, <2>5, <2>7 DEF Queue!qVars
<1>7. CASE n > 0
  <2>1. n \in 1 .. Len(rest[w]) /\ Len(Contents) + n <= BufferLen
    BY <1>2, <1>3, <1>4, <1>7, LengthRight
  <2> QED
    BY <1>2, <1>5, <2>1 DEF Queue!Put
<1> QED
  BY <1>2, <1>6, <1>7

\* Every step is a step of the queue.
LEMMA NextRefines == PlainUse /\ RingInv /\ [Next]_vars => [Queue!QNext]_Queue!qVars
<1> SUFFICES ASSUME PlainUse, RingInv, [Next]_vars PROVE [Queue!QNext]_Queue!qVars
  OBVIOUS
<1>1. ASSUME NEW r \in Readers, NEW len \in Lens, NEW fs \in ReadFlags, NEW sk \in Skips,
             BeginRead(r, len, fs, sk)
      PROVE  Queue!QNext
  <2>1. Queue!BeginTake(r)
    BY <1>1 DEF BeginRead, ringVars, Contents, Queue!BeginTake
  <2> QED
    BY <2>1 DEF Queue!QNext
<1>2. ASSUME NEW w \in Writers, NEW len \in Lens, NEW fs \in WriteFlags,
             NEW data \in [1 .. len -> Bytes], BeginWrite(w, data, fs)
      PROVE  Queue!QNext
  <2>1. data \in Seq(Bytes)
    BY <1>2, BeginWriteKeeps
  <2>2. rest' = [rest EXCEPT ![w] = data] /\ rest'[w] = data
    BY <1>2 DEF BeginWrite, RingInv, RingTypes
  <2>3. UNCHANGED <<Contents, got, is_destroy>>
    BY <1>2 DEF BeginWrite, ringVars, readVars, Contents
  <2>4. Queue!BeginPut(w)
    BY <2>1, <2>2, <2>3 DEF Queue!BeginPut
  <2> QED
    BY <2>4 DEF Queue!QNext
<1>3. ASSUME NEW r \in Readers, ring_read(r) PROVE [Queue!QNext]_Queue!qVars
  BY <1>3, ReadRefines DEF Queue!QNext
<1>4. ASSUME NEW w \in Writers, ring_write(w) PROVE [Queue!QNext]_Queue!qVars
  BY <1>4, WriteRefines DEF Queue!QNext
<1>5. ASSUME NEW t \in Threads, Quiet(t) PROVE UNCHANGED Queue!qVars
  BY <1>5, QuietEffect DEF Queue!qVars, Contents
<1>6. ASSUME ring_close PROVE Queue!QNext
  <2>1. Queue!Shut
    BY <1>6 DEF ring_close, readVars, Contents, Queue!Shut
  <2> QED
    BY <2>1 DEF Queue!QNext
<1>7. ASSUME UNCHANGED vars PROVE UNCHANGED Queue!qVars
  BY <1>7 DEF vars, ringVars, readVars, Contents, Queue!qVars
<1> QED
  BY <1>1, <1>2, <1>3, <1>4, <1>5, <1>6, <1>7, NextCases

\* The ring is empty at the start.
LEMMA InitRefines == Init => Queue!QInit
<1> SUFFICES ASSUME Init PROVE Queue!QInit
  OBVIOUS
<1>1. Contents \in Seq(Bytes) /\ Len(Contents) = 0
  BY RingInit, ContentsAt DEF RingInv, RingTypes, ContentsRight
<1>2. Contents = <<>>
  BY <1>1
<1> QED
  BY <1>2 DEF Init, Queue!QInit

\* The indices stay in the buffer, the buffer holds bytes, and whoever is in
\* ring_read or ring_write has something left to read or to write.
THEOREM RingTyped ==
  ASSUME PlainUse
  PROVE  Spec => []RingInv
BY RingInit, RingStep, PTL DEF Spec

\* ring_read, ring_write and ring_close on the buffer are the operations of a
\* bounded queue of bytes, wherever the indices are when they wrap around.
THEOREM Refinement ==
  ASSUME PlainUse
  PROVE  Spec => ImplementsQueue
<1>1. Spec => []RingInv
  BY RingTyped
<1>2. Spec => Queue!QInit
  BY InitRefines DEF Spec
<1>3. RingInv /\ [Next]_vars => [Queue!QNext]_Queue!qVars
  BY NextRefines
<1> QED
  BY <1>1, <1>2, <1>3, PTL DEF Spec, ImplementsQueue, Queue!QSpec

-----------------------------------------------------------------------------
(* Nobody is forgotten *)

\* Callers read and write streams of bytes, not messages, and none that peeks
\* wants all it asks for: it would wait, and leave the bytes to no other reader.
StreamUse ==
  /\ PlainUse
  /\ \A fs \in ReadFlags : "MSGMODE" \notin fs /\ ~({"PEEK", "WAITALL"} \subseteq fs)
  /\ \A fs \in WriteFlags : "MSGMODE" \notin fs

\* Bytes in the ring and a reader that waits: another reader is about to run.
ReadersServed == Waiting(Readers) # {} /\ Used > 0 => \E r \in Readers : pc[r] = "run"

\* Room in the ring and a writer that waits: another writer is about to run.
WritersServed == Waiting(Writers) # {} /\ Used < BufferLen => \E w \in Writers : pc[w] = "run"

\* Nobody waits on a closed ring, and the end is told when it is empty.
ClosedRight ==
  /\ is_destroy => \A t \in Threads : pc[t] # "wait"
  /\ eof # {} => is_destroy /\ Used = 0

WakeInv == ReadersServed /\ WritersServed /\ ClosedRight

\* A reader that leaves bytes in the ring has passed the signal on.
LEMMA ReadWakes ==
  ASSUME StreamUse, RingInv, WakeInv, NEW r \in Readers, ring_read(r)
  PROVE  WakeInv'
<1>0. r \in Threads /\ r \notin Writers /\ Readers \subseteq Threads /\ Writers \subseteq Threads
  BY RingAssumption DEF Threads
<1>1. PICK n, p, W : ReadDone(r, n, p, W)
  BY ReadEffect
<1>2. pc[r] = "run"
  BY ReadEffect
<1>3. Moves(r, p) /\ Woken(r, W) /\ p \in {"idle", "wait"} /\ W \subseteq Waiting(Threads)
  BY <1>0, <1>1, GoesMoves DEF ReadDone, RingInv
<1>4. /\ Used \in Nat /\ n \in Nat /\ n = ReallyRead(r) /\ is_destroy' = is_destroy
      /\ n > 0 /\ "PEEK" \notin call[r].flags => Used' = Used - n
      /\ ~(n > 0 /\ "PEEK" \notin call[r].flags) => Used' = Used
  BY <1>1, ReadContents DEF ReadDone
<1>5. /\ CanRead(r) = Used /\ NeedRead(r) \in Nat /\ NeedRead(r) > 0
      /\ "MSGMODE" \notin call[r].flags /\ ~({"PEEK", "WAITALL"} \subseteq call[r].flags)
  BY <1>2, NeedsRight DEF StreamUse, RingInv, CallsRight
<1>6. n = IF Used >= NeedRead(r) THEN NeedRead(r) ELSE Used
  BY <1>4, <1>5 DEF ReallyRead
<1>7. n > 0 => got'[r] # <<>>
  <2>1. /\ got'[r] = got[r] \o SubSeq(Contents, 1, n)
        /\ got[r] \in Seq(Bytes) /\ Contents \in Seq(Bytes) /\ n <= Len(Contents)
    BY <1>1, ContentsAt DEF ReadDone, RingInv, RingTypes, ContentsRight
  <2>2. SubSeq(Contents, 1, n) \in Seq(Bytes) /\ Len(SubSeq(Contents, 1, n)) = n
    BY <1>4, <2>1
  <2>3. Len(got'[r]) = Len(got[r]) + n /\ Len(got[r]) \in Nat
    BY <2>1, <2>2, ConcatSeq
  <2> QED
    BY <1>4, <2>3
<1>8. p = "wait" => Used' = 0 /\ ~is_destroy
  <2> SUFFICES ASSUME p = "wait" PROVE Used' = 0 /\ ~is_destroy
    OBVIOUS
  <2>1. ~ReadReturns(r, got'[r] # <<>>)
    BY <1>1 DEF ReadDone
  <2>2. Used < NeedRead(r) /\ ~is_destroy /\ ("WAITALL" \in call[r].flags \/ got'[r] = <<>>)
    BY <1>4, <1>5, <2>1 DEF ReadReturns
  <2> QED
    BY <1>4, <1>5, <1>6, <1>7, <2>2
<1>9. p = "idle" /\ ~ReadPassesOn(r) => Used' = 0 \/ is_destroy
  <2> SUFFICES ASSUME p = "idle", ~ReadPassesOn(r), Used' # 0, ~is_destroy PROVE FALSE
    OBVIOUS
  <2>1. Used <= NeedRead(r) /\ ("PEEK" \notin call[r].flags \/ end = cur)
    BY <1>4, <1>5 DEF ReadPassesOn
  <2>2. Used = 0 <=> end = cur
    BY UsedRight DEF RingInv, RingTypes, BufferTypes
  <2> QED
    BY <1>4, <1>5, <1>6, <2>1, <2>2
<1>10. \A x \in Threads \ {r} : pc'[x] = "wait" => pc[x] = "wait"
  BY <1>3 DEF Moves
<1>11. ReadersServed'
  <2> SUFFICES ASSUME NEW y \in Readers, pc'[y] = "wait", Used' > 0
               PROVE  \E x \in Readers : pc'[x] = "run"
    BY DEF ReadersServed, Waiting
  <2>1. p = "idle" /\ y # r /\ pc[y] = "wait"
    BY <1>0, <1>3, <1>8, <1>10 DEF Moves
  <2>2. ~is_destroy /\ Waiting(Readers) # {}
    BY <1>0, <2>1 DEF WakeInv, ClosedRight, Waiting
  <2>3. Told(Readers, W)
    BY <1>1, <1>9, <2>1, <2>2 DEF ReadDone
  <2>4. PICK x \in W : x \in Readers /\ pc[x] = "wait"
    BY <2>2, <2>3 DEF Told, Waiting
  <2> QED
    BY <1>2, <1>3, <2>4 DEF Woken
<1>12. WritersServed'
  <2> SUFFICES ASSUME NEW y \in Writers, pc'[y] = "wait", Used' < BufferLen
               PROVE  \E x \in Writers : pc'[x] = "run"
    BY DEF WritersServed, Waiting
  <2>1. Waiting(Writers) # {}
    BY <1>0, <1>10 DEF Waiting
  <2>2. CASE n > 0 /\ "PEEK" \notin call[r].flags
    <3>1. PICK x \in W : x \in Writers
      BY <1>1, <2>1, <2>2 DEF ReadDone, Told, Waiting
    <3> QED
      BY <1>0, <1>3, <3>1 DEF Woken
  <2>3. CASE ~(n > 0 /\ "PEEK" \notin call[r].flags)
    <3>1. PICK x \in Writers : pc[x] = "run"
      BY <1>4, <2>1, <2>3 DEF WakeInv, WritersServed
    <3> QED
      BY <1>0, <1>3, <3>1 DEF Moves
  <2> QED
    BY <2>2, <2>3
<1>13. ClosedRight'
  <2>1. is_destroy => \A t \in Threads : pc'[t] # "wait"
    BY <1>3, <1>8, <1>10 DEF WakeInv, ClosedRight, Moves
  <2>2. eof # {} => is_destroy /\ Used' = 0
    BY <1>4, <1>5, <1>6 DEF WakeInv, ClosedRight
  <2>3. SaysEof(r, got'[r] # <<>>) => is_destroy /\ Used' = 0
    BY <1>4, <1>5, <1>6, <1>7 DEF SaysEof
  <2> QED
    BY <1>1, <1>4, <2>1, <2>2, <2>3 DEF ClosedRight, ReadDone
<1> QED
  BY <1>11, <1>12, <1>13 DEF WakeInv

\* A writer that leaves room in the ring has passed the signal on.
LEMMA WriteWakes ==
  ASSUME StreamUse, RingInv, WakeInv, NEW w \in Writers, ring_write(w)
  PROVE  WakeInv'
<1>0. /\ w \in Threads /\ w \notin Readers /\ Readers \subseteq Threads
      /\ Writers \subseteq Threads /\ PlainUse
  BY RingAssumption DEF Threads, StreamUse
<1>1. PICK n, p, V : WriteDone(w, n, p, V)
  BY <1>0, WriteEffect
<1>2. pc[w] = "run"
  BY <1>0, WriteEffect
<1>3. Moves(w, p) /\ Woken(w, V) /\ p \in {"idle", "wait"} /\ V \subseteq Waiting(Threads)
  BY <1>0, <1>1, GoesMoves DEF WriteDone, RingInv
<1>4. /\ Used \in Nat /\ n \in Nat /\ n = ReallyWrite(w) /\ ~is_destroy /\ ~is_destroy'
      /\ Used' = Used + n /\ eof' = eof
  BY <1>0, <1>1, <1>2, WriteContents DEF WriteDone
<1>5. /\ ToWrite(w) = rest[w] /\ Len(rest[w]) \in Nat
      /\ CanWrite = BufferLen - Used /\ CanWrite \in Nat
      /\ "MSGMODE" \notin call[w].flags /\ "REPLACE_OLD" \notin call[w].flags
  BY <1>0, <1>2, RoomRight DEF StreamUse, RingInv, CallsRight
<1>6. n = IF Len(rest[w]) <= CanWrite THEN Len(rest[w]) ELSE CanWrite
  BY <1>4, <1>5 DEF ReallyWrite
<1>7. p = "wait" \/ ~WritePassesOn(w) => Used' = BufferLen
  <2>1. p = "wait" => CanWrite < Len(rest[w])
    BY <1>1, <1>5 DEF WriteDone, WriteReturns
  <2>2. ~WritePassesOn(w) => CanWrite <= Len(rest[w])
    BY <1>5 DEF WritePassesOn
  <2> QED
    BY <1>4, <1>5, <1>6, <2>1, <2>2, LengthRight
<1>8. \A x \in Threads \ {w} : pc'[x] = "wait" => pc[x] = "wait"
  BY <1>3 DEF Moves
<1>9. WritersServed'
  <2> SUFFICES ASSUME NEW y \in Writers, pc'[y] = "wait", Used' < BufferLen
               PROVE  \E x \in Writers : pc'[x] = "run"
    BY DEF WritersServed, Waiting
  <2>1. p = "idle" /\ WritePassesOn(w) /\ y # w /\ pc[y] = "wait"
    BY <1>0, <1>3, <1>4, <1>7, <1>8, LengthRight DEF Moves
  <2>2. PICK x \in V : x \in Writers /\ pc[x] = "wait"
    BY <1>1, <2>1 DEF WriteDone, Told, Waiting
  <2> QED
    BY <1>2, <1>3, <2>2 DEF Woken
<1>10. ReadersServed'
  <2> SUFFICES ASSUME NEW y \in Readers, pc'[y] = "wait", Used' > 0
               PROVE  \E x \in Readers : pc'[x] = "run"
    BY DEF ReadersServed, Waiting
  <2>1. Waiting(Readers) # {}
    BY <1>0, <1>8 DEF Waiting
  <2>2. CASE n > 0
    <3>1. PICK x \in V : x \in Readers
      BY <1>1, <2>1, <2>2 DEF WriteDone, Told, Waiting
    <3> QED
      BY <1>0, <1>3, <3>1 DEF Woken
  <2>3. CASE n = 0
    <3>1. PICK x \in Readers : pc[x] = "run"
      BY <1>4, <2>1, <2>3 DEF WakeInv, ReadersServed
    <3> QED
      BY <1>0, <1>3, <3>1 DEF Moves
  <2> QED
    BY <1>4, <2>2, <2>3
<1>11. ClosedRight'
  BY <1>4 DEF WakeInv, ClosedRight
<1> QED
  BY <1>9, <1>10, <1>11 DEF WakeInv

\* Who arrives is awake, and who gives up was not the one that was woken.
LEMMA OthersWake ==
  ASSUME RingInv, WakeInv, UNCHANGED <<cur, end, is_destroy, eof>>, NEW t \in Threads,
         \A x \in Threads \ {t} : pc'[x] = pc[x] \/ (pc[x] = "wait" /\ pc'[x] = "run"),
         \/ pc'[t] = "run"
         \/ pc'[t] = "idle" /\ (pc[t] = "wait" \/ is_destroy)
  PROVE  WakeInv'
<1>0. Readers \subseteq Threads /\ Writers \subseteq Threads
  BY DEF Threads
<1>1. Used' = Used
  BY DEF Used
<1>2. \A x \in Threads : pc'[x] = "wait" => pc[x] = "wait" /\ x # t
  OBVIOUS
<1>3. ~is_destroy => \A x \in Threads : pc[x] = "run" => pc'[x] = "run"
  OBVIOUS
<1>4. ClosedRight'
  BY <1>1, <1>2 DEF WakeInv, ClosedRight
<1>5. CASE is_destroy
  <2>1. \A x \in Threads : pc'[x] # "wait"
    BY <1>2, <1>5 DEF WakeInv, ClosedRight
  <2> QED
    BY <1>0, <1>4, <2>1 DEF WakeInv, ReadersServed, WritersServed, Waiting
<1>6. CASE ~is_destroy
  BY <1>0, <1>1, <1>2, <1>3, <1>4, <1>6 DEF WakeInv, ReadersServed, WritersServed, Waiting
<1> QED
  BY <1>5, <1>6

\* No step loses a wake-up.
LEMMA WakeStep == StreamUse /\ RingInv /\ WakeInv /\ [Next]_vars => WakeInv'
<1> SUFFICES ASSUME StreamUse, RingInv, WakeInv, [Next]_vars PROVE WakeInv'
  OBVIOUS
<1>1. ASSUME NEW r \in Readers, NEW len \in Lens, NEW fs \in ReadFlags, NEW sk \in Skips,
             BeginRead(r, len, fs, sk)
      PROVE  WakeInv'
  <2>1. UNCHANGED <<cur, end, is_destroy, eof>> /\ pc' = [pc EXCEPT ![r] = "run"] /\ r \in Threads
    BY <1>1 DEF BeginRead, ringVars, Threads
  <2> QED
    BY <2>1, OthersWake DEF RingInv, RingTypes
<1>2. ASSUME NEW w \in Writers, NEW len \in Lens, NEW fs \in WriteFlags,
             NEW data \in [1 .. len -> Bytes], BeginWrite(w, data, fs)
      PROVE  WakeInv'
  <2>1. UNCHANGED <<cur, end, is_destroy, eof>> /\ pc' = [pc EXCEPT ![w] = "run"] /\ w \in Threads
    BY <1>2 DEF BeginWrite, ringVars, readVars, Threads
  <2> QED
    BY <2>1, OthersWake DEF RingInv, RingTypes
<1>3. ASSUME NEW t \in Threads, Quiet(t) PROVE WakeInv'
  <2>1. PICK p \in {"run", "idle"} :
          /\ Moves(t, p) /\ (p = "run" => pc[t] = "wait")
          /\ (pc[t] = "run" => t \in Writers /\ is_destroy)
    BY <1>3, QuietEffect
  <2>2. UNCHANGED <<cur, end, is_destroy, eof>> /\ pc[t] \in {"run", "wait"}
    BY <1>3, QuietEffect DEF RingInv, RingTypes
  <2> QED
    BY <2>1, <2>2, OthersWake DEF Moves
<1>4. ASSUME ring_close PROVE WakeInv'
  <2>1. UNCHANGED <<cur, end, eof>> /\ is_destroy' /\ \A t \in Threads : pc'[t] # "wait"
    BY <1>4, CloseKeeps
  <2>2. Used' = Used
    BY <2>1 DEF Used
  <2> QED
    BY <2>1, <2>2 DEF WakeInv, ReadersServed, WritersServed, ClosedRight, Waiting, Threads
<1>5. ASSUME UNCHANGED vars PROVE WakeInv'
  BY <1>5 DEF vars, ringVars, readVars, WakeInv, ReadersServed, WritersServed, ClosedRight,
              Waiting, Used
<1> QED
  BY <1>1, <1>2, <1>3, <1>4, <1>5, NextCases, ReadWakes, WriteWakes

\* No wake-up is lost although each pthread_cond_signal wakes one thread, and a
\* closed ring leaves nobody waiting and is read to its end (ring_buffer.c, lines
\* 222-254 and 346).
THEOREM WaitersCorrect ==
  ASSUME StreamUse
  PROVE  Spec => []WaitersRight
<1>1. PlainUse
  BY DEF StreamUse
<1>2. Spec => []RingInv
  BY <1>1, RingTyped
<1>3. Init => WakeInv
  <2> SUFFICES ASSUME Init PROVE WakeInv
    OBVIOUS
  <2>1. Used = 0 /\ eof = {} /\ is_destroy = FALSE /\ \A t \in Threads : pc[t] = "idle"
    BY RingInit DEF Init
  <2> QED
    BY <2>1 DEF WakeInv, ReadersServed, WritersServed, ClosedRight, Waiting, Threads
<1>4. RingInv /\ WakeInv /\ [Next]_vars => WakeInv'
  BY WakeStep
<1>5. RingInv /\ WakeInv => WaitersRight
  <2> SUFFICES ASSUME RingInv, WakeInv PROVE WaitersRight
    OBVIOUS
  <2>1. TypeOK
    BY DEF RingInv, RingTypes, BufferTypes, Indices, CallsRight, Calls, TypeOK, Threads
  <2>2. Used = 0 <=> cur = end
    BY UsedRight DEF RingInv, RingTypes, BufferTypes
  <2>3. Used \in 0 .. BufferLen /\ BufferLen \in Nat
    BY UsedRight, LengthRight DEF RingInv, RingTypes, BufferTypes
  <2>4. CloseSeen
    BY <2>2 DEF WakeInv, ClosedRight, CloseSeen, Waiting
  <2>5. \A r \in Waiting(Readers) : ReallyRead(r) > 0 => Used > 0
    BY <2>3, NeedsRight DEF Waiting
  <2>6. \A w \in Waiting(Writers) : ReallyWrite(w) > 0 => Used < BufferLen
    BY <1>1, <2>3, RoomRight DEF Waiting
  <2>7. NoLostWakeUp
    BY <2>5, <2>6 DEF NoLostWakeUp, WakeInv, ReadersServed, WritersServed
  <2> QED
    BY <2>1, <2>4, <2>7 DEF WaitersRight
<1> QED
  BY <1>2, <1>3, <1>4, <1>5, PTL DEF Spec

-----------------------------------------------------------------------------
(* Messages *)

\* All callers use RING_MSGMODE and one length, as pthread_pool_init,
\* pthread_pool_put and the threads of the pool do.
MessageUse ==
  /\ PlainUse
  /\ \A fs \in ReadFlags \cup WriteFlags : "MSGMODE" \in fs
  /\ \E len \in Lens : Lens = {len}

\* A reader has read nothing and wants one message, a writer has one message to
\* write, and the bytes in the ring are messages.
MessagesInv(len) ==
  /\ Used % len = 0
  /\ \A r \in Readers : pc[r] # "idle" => got[r] = <<>> /\ call[r].want = len
  /\ \A w \in Writers : pc[w] # "idle" => Len(rest[w]) = len

\* Messages are put and taken one at a time.
LEMMA WholeMoves ==
  ASSUME NEW len \in Nat \ {0}, NEW x \in Nat, x % len = 0
  PROVE  (x + len) % len = 0 /\ (x >= len => (x - len) % len = 0)
<1>1. x = len * (x \div len)
  OBVIOUS
<1>2. PICK q \in Int : x = len * q
  BY <1>1
<1>3. x + len = len * (q + 1) /\ x - len = len * (q - 1)
  BY <1>2
<1>4. \A k \in Int : (len * k) % len = 0
  OBVIOUS
<1> QED
  BY <1>3, <1>4

\* A round of ring_read takes a message or nothing.
LEMMA ReadWhole ==
  ASSUME MessageUse, RingInv, NEW len \in Nat \ {0}, MessagesInv(len),
         NEW r \in Readers, ring_read(r)
  PROVE  MessagesInv(len)'
<1>0. r \in Threads /\ r \notin Writers /\ Readers \subseteq Threads /\ Writers \subseteq Threads
  BY RingAssumption DEF Threads
<1>1. PICK n, p, W : ReadDone(r, n, p, W)
  BY ReadEffect
<1>2. pc[r] = "run"
  BY ReadEffect
<1>3. Moves(r, p) /\ p \in {"idle", "wait"}
  BY <1>0, <1>1, GoesMoves DEF ReadDone, RingInv
<1>4. /\ Used \in Nat /\ n \in Nat /\ n = ReallyRead(r) /\ rest' = rest
      /\ n > 0 /\ "PEEK" \notin call[r].flags => Used' = Used - n
      /\ ~(n > 0 /\ "PEEK" \notin call[r].flags) => Used' = Used
      /\ got' = [got EXCEPT ![r] = got[r] \o SubSeq(Contents, 1, n)]
  BY <1>1, ReadContents DEF ReadDone
<1>5. /\ CanRead(r) = Used /\ NeedRead(r) = call[r].want - Len(got[r])
      /\ "MSGMODE" \in call[r].flags /\ got[r] = <<>> /\ call[r].want = len
  BY <1>2, NeedsRight DEF MessageUse, RingInv, CallsRight, MessagesInv
<1>6. NeedRead(r) = len
  BY <1>5
<1>7. n = IF Used >= len THEN len ELSE 0
  BY <1>4, <1>5, <1>6 DEF ReallyRead
<1>8. Used' % len = 0
  BY <1>4, <1>7, WholeMoves DEF MessagesInv
<1>9. p = "wait" => got'[r] = <<>> /\ call'[r].want = len
  <2> SUFFICES ASSUME p = "wait" PROVE got'[r] = <<>> /\ call'[r].want = len
    OBVIOUS
  <2>1. ~(Used >= len)
    BY <1>1, <1>4, <1>5, <1>6 DEF ReadDone, ReadReturns
  <2>2. n = 0
    BY <1>7, <2>1
  <2>3. Contents \in Seq(Bytes)
    BY ContentsAt DEF RingInv, RingTypes, ContentsRight
  <2>4. SubSeq(Contents, 1, 0) = <<>> /\ <<>> \o <<>> = <<>>
    BY <2>3
  <2>5. got'[r] = got[r] \o SubSeq(Contents, 1, n)
    BY <1>4 DEF RingInv, RingTypes
  <2>6. got'[r] = <<>> \o SubSeq(Contents, 1, 0)
    BY <1>5, <2>2, <2>5
  <2> QED
    BY <1>3, <1>5, <2>4, <2>6 DEF Moves
<1>10. \A x \in Readers : pc'[x] # "idle" => got'[x] = <<>> /\ call'[x].want = len
  <2> SUFFICES ASSUME NEW x \in Readers, pc'[x] # "idle" PROVE got'[x] = <<>> /\ call'[x].want = len
    OBVIOUS
  <2>1. CASE x = r
    BY <1>3, <1>9, <2>1 DEF Moves
  <2>2. CASE x # r
    <3>1. pc[x] # "idle" /\ call'[x] = call[x]
      BY <1>0, <1>3, <2>2 DEF Moves
    <3>2. got'[x] = got[x]
      BY <1>4, <2>2 DEF RingInv, RingTypes
    <3> QED
      BY <3>1, <3>2 DEF MessagesInv
  <2> QED
    BY <2>1, <2>2
<1>11. \A w \in Writers : pc'[w] # "idle" => Len(rest'[w]) = len
  BY <1>0, <1>3, <1>4 DEF Moves, MessagesInv
<1> QED
  BY <1>8, <1>10, <1>11 DEF MessagesInv

\* A round of ring_write puts a message or nothing.
LEMMA WriteWhole ==
  ASSUME MessageUse, RingInv, NEW len \in Nat \ {0}, MessagesInv(len),
         NEW w \in Writers, ring_write(w)
  PROVE  MessagesInv(len)'
<1>0. /\ w \in Threads /\ w \notin Readers /\ Readers \subseteq Threads /\ Writers \subseteq Threads
      /\ PlainUse
  BY RingAssumption DEF Threads, MessageUse
<1>1. PICK n, p, V : WriteDone(w, n, p, V)
  BY <1>0, WriteEffect
<1>2. pc[w] = "run"
  BY <1>0, WriteEffect
<1>3. Moves(w, p) /\ p \in {"idle", "wait"}
  BY <1>0, <1>1, GoesMoves DEF WriteDone, RingInv
<1>4. /\ Used \in Nat /\ n = ReallyWrite(w) /\ Used' = Used + n /\ got' = got
      /\ rest' = [rest EXCEPT ![w] = SubSeq(rest[w], n + 1, Len(rest[w]))]
  BY <1>0, <1>1, <1>2, WriteContents DEF WriteDone
<1>5. /\ ToWrite(w) = rest[w] /\ rest[w] \in Seq(Bytes) /\ CanWrite \in Nat /\ Len(rest[w]) = len
      /\ "MSGMODE" \in call[w].flags /\ "REPLACE_OLD" \notin call[w].flags
  BY <1>0, <1>2, RoomRight DEF MessageUse, RingInv, CallsRight, MessagesInv
<1>6. n = IF len <= CanWrite THEN len ELSE 0
  BY <1>4, <1>5 DEF ReallyWrite
<1>7. Used' % len = 0
  <2>1. Used % len = 0 /\ (Used + len) % len = 0
    BY <1>4, WholeMoves DEF MessagesInv
  <2>2. Used' = Used + len \/ Used' = Used
    BY <1>4, <1>6
  <2> QED
    BY <2>1, <2>2
<1>8. p = "wait" => Len(rest'[w]) = len
  <2> SUFFICES ASSUME p = "wait" PROVE Len(rest'[w]) = len
    OBVIOUS
  <2>1. ~(len <= CanWrite)
    BY <1>1, <1>5 DEF WriteDone, WriteReturns
  <2>2. n + 1 = 1
    BY <1>6, <2>1
  <2>3. rest'[w] = SubSeq(rest[w], 1, Len(rest[w]))
    BY <1>4, <2>2 DEF RingInv, RingTypes
  <2> QED
    BY <1>5, <2>3
<1>9. \A x \in Writers : pc'[x] # "idle" => Len(rest'[x]) = len
  <2> SUFFICES ASSUME NEW x \in Writers, pc'[x] # "idle" PROVE Len(rest'[x]) = len
    OBVIOUS
  <2>1. CASE x = w
    BY <1>3, <1>8, <2>1 DEF Moves
  <2>2. CASE x # w
    <3>1. pc[x] # "idle"
      BY <1>0, <1>3, <2>2 DEF Moves
    <3>2. rest'[x] = rest[x]
      BY <1>4, <2>2 DEF RingInv, RingTypes
    <3> QED
      BY <3>1, <3>2 DEF MessagesInv
  <2> QED
    BY <2>1, <2>2
<1>10. \A r \in Readers : pc'[r] # "idle" => got'[r] = <<>> /\ call'[r].want = len
  BY <1>0, <1>3, <1>4 DEF Moves, MessagesInv
<1> QED
  BY <1>7, <1>9, <1>10 DEF MessagesInv

\* Every step keeps the messages whole.
LEMMA WholeStep ==
  ASSUME MessageUse, NEW len \in Nat \ {0}, Lens = {len}
  PROVE  RingInv /\ MessagesInv(len) /\ [Next]_vars => MessagesInv(len)'
<1> SUFFICES ASSUME RingInv, MessagesInv(len), [Next]_vars PROVE MessagesInv(len)'
  OBVIOUS
<1>0. /\ Readers \subseteq Threads /\ Writers \subseteq Threads
      /\ Readers \cap Writers = {} /\ PlainUse
  BY RingAssumption DEF Threads, MessageUse
<1>1. ASSUME NEW r \in Readers, NEW l \in Lens, NEW fs \in ReadFlags, NEW sk \in Skips,
             BeginRead(r, l, fs, sk)
      PROVE  MessagesInv(len)'
  <2>1. /\ UNCHANGED <<cur, end, rest>> /\ pc' = [pc EXCEPT ![r] = "run"]
        /\ got' = [got EXCEPT ![r] = <<>>] /\ \A x \in Threads \ {r} : call'[x] = call[x]
    BY <1>1 DEF BeginRead, ringVars, RingInv, RingTypes
  <2>2. ~("PEEK" \in fs /\ len > BufferLen)
    BY <1>0, <1>1, LengthRight DEF BeginRead, ReadRefused, PlainUse, MessageUse
  <2>3. call'[r].want = len
    BY <1>0, <1>1, <2>2, BeginReadKeeps
  <2>4. Used' = Used
    BY <2>1 DEF Used
  <2>5. \A x \in Readers : pc'[x] # "idle" => got'[x] = <<>> /\ call'[x].want = len
    BY <1>0, <2>1, <2>3 DEF RingInv, RingTypes, MessagesInv
  <2>6. \A w \in Writers : pc'[w] # "idle" => Len(rest'[w]) = len
    BY <1>0, <2>1 DEF RingInv, RingTypes, MessagesInv
  <2> QED
    BY <2>4, <2>5, <2>6 DEF MessagesInv
<1>2. ASSUME NEW w \in Writers, NEW l \in Lens, NEW fs \in WriteFlags,
             NEW data \in [1 .. l -> Bytes], BeginWrite(w, data, fs)
      PROVE  MessagesInv(len)'
  <2>1. /\ UNCHANGED <<cur, end, got>> /\ pc' = [pc EXCEPT ![w] = "run"]
        /\ rest' = [rest EXCEPT ![w] = data] /\ \A x \in Threads \ {w} : call'[x] = call[x]
    BY <1>2 DEF BeginWrite, ringVars, readVars, RingInv, RingTypes
  <2>2. Len(data) = len
    BY <1>2, BeginWriteKeeps
  <2>3. Used' = Used
    BY <2>1 DEF Used
  <2>4. \A x \in Writers : pc'[x] # "idle" => Len(rest'[x]) = len
    BY <1>0, <2>1, <2>2 DEF RingInv, RingTypes, MessagesInv
  <2>5. \A r \in Readers : pc'[r] # "idle" => got'[r] = <<>> /\ call'[r].want = len
    BY <1>0, <2>1 DEF RingInv, RingTypes, MessagesInv
  <2> QED
    BY <2>3, <2>4, <2>5 DEF MessagesInv
<1>3. ASSUME NEW t \in Threads, Quiet(t) PROVE MessagesInv(len)'
  <2>1. PICK p \in {"run", "idle"} : Moves(t, p)
    BY <1>3, QuietEffect
  <2>2. UNCHANGED <<cur, end, got, rest>> /\ pc[t] # "idle"
    BY <1>3, QuietEffect
  <2>3. Used' = Used
    BY <2>2 DEF Used
  <2>4. \A x \in Threads : pc'[x] # "idle" => pc[x] # "idle" /\ call'[x] = call[x]
    BY <2>1, <2>2 DEF Moves
  <2> QED
    BY <1>0, <2>2, <2>3, <2>4 DEF MessagesInv
<1>4. ASSUME ring_close PROVE MessagesInv(len)'
  <2>1. /\ UNCHANGED <<cur, end, got, rest, call>>
        /\ \A t \in Threads : pc'[t] # "idle" => pc[t] # "idle"
    BY <1>4, CloseKeeps
  <2>2. Used' = Used
    BY <2>1 DEF Used
  <2> QED
    BY <1>0, <2>1, <2>2 DEF MessagesInv
<1>5. ASSUME UNCHANGED vars PROVE MessagesInv(len)'
  <2>1. UNCHANGED <<cur, end, got, rest, call, pc>>
    BY <1>5 DEF vars, ringVars, readVars
  <2>2. Used' = Used
    BY <2>1 DEF Used
  <2> QED
    BY <2>1, <2>2 DEF MessagesInv
<1> QED
  BY <1>1, <1>2, <1>3, <1>4, <1>5, NextCases, ReadWhole, WriteWhole

\* Callers that all use RING_MSGMODE and one length find whole messages in the
\* ring, for every number of readers and writers, every length and every size of
\* the buffer: also one that is no multiple of the length, so that messages wrap
\* around (ring_buffer.c, lines 188 and 310).
THEOREM MessagesCorrect ==
  ASSUME MessageUse
  PROVE  Spec => []WholeMessages
<1>1. PICK len \in Lens : Lens = {len}
  BY DEF MessageUse
<1>2. len \in Nat \ {0}
  BY <1>1, RingAssumption
<1>3. Spec => []RingInv
  BY RingTyped DEF MessageUse
<1>4. Init => MessagesInv(len)
  <2> SUFFICES ASSUME Init PROVE MessagesInv(len)
    OBVIOUS
  <2>1. Used = 0 /\ \A t \in Threads : pc[t] = "idle"
    BY RingInit DEF Init
  <2>2. 0 % len = 0
    BY <1>2
  <2> QED
    BY <2>1, <2>2 DEF MessagesInv, Threads
<1>5. RingInv /\ MessagesInv(len) /\ [Next]_vars => MessagesInv(len)'
  BY <1>1, <1>2, WholeStep
<1>6. RingInv /\ MessagesInv(len) => WholeMessages
  <2> SUFFICES ASSUME RingInv, MessagesInv(len) PROVE WholeMessages
    OBVIOUS
  <2>1. Len(Contents) = Used
    BY ContentsAt DEF RingInv, RingTypes, ContentsRight
  <2> QED
    BY <1>1, <2>1 DEF WholeMessages, MessagesInv
<1> QED
  BY <1>3, <1>4, <1>5, <1>6, PTL DEF Spec
=============================================================================
