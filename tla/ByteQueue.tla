----------------------------- MODULE ByteQueue ------------------------------
(***************************************************************************)
(* What the ring buffer promises: a bounded queue of bytes.  Bytes leave   *)
(* it in the order in which they came, each of them once, none after the   *)
(* queue was shut and drained, and peeking shows what is in the queue.     *)
(***************************************************************************)
EXTENDS Naturals, Sequences

CONSTANTS
  Readers, Writers, Capacity, Bytes,
  Peeking,    \* readers may look without taking
  Replacing   \* writers may push the oldest bytes out

VARIABLES
  q,     \* the bytes in the queue
  in,    \* in[w]: what writer w has still to put in
  out,   \* out[r]: what reader r got in its last call
  shut

qVars == <<q, in, out, shut>>

QInit ==
  /\ q = <<>>
  /\ in = [w \in Writers |-> <<>>]
  /\ out = [r \in Readers |-> <<>>]
  /\ shut = FALSE

BeginPut(w) ==
  /\ in'[w] \in Seq(Bytes)
  /\ in' = [in EXCEPT ![w] = in'[w]]
  /\ UNCHANGED <<q, out, shut>>

BeginTake(r) ==
  /\ out' = [out EXCEPT ![r] = <<>>]
  /\ UNCHANGED <<q, in, shut>>

Put(w) ==
  /\ ~shut
  /\ \E n \in 1 .. Len(in[w]) :
       /\ Len(q) + n <= Capacity
       /\ q' = q \o SubSeq(in[w], 1, n)
       /\ in' = [in EXCEPT ![w] = SubSeq(@, n + 1, Len(@))]
  /\ UNCHANGED <<out, shut>>

PutReplace(w) ==
  /\ ~shut /\ Replacing
  /\ LET all == q \o in[w]
         drop == IF Len(all) > Capacity THEN Len(all) - Capacity ELSE 0
     IN q' = SubSeq(all, drop + 1, Len(all))
  /\ in' = [in EXCEPT ![w] = <<>>]
  /\ UNCHANGED <<out, shut>>

Take(r) ==
  /\ \E n \in 1 .. Len(q) :
       /\ out' = [out EXCEPT ![r] = @ \o SubSeq(q, 1, n)]
       /\ q' = SubSeq(q, n + 1, Len(q))
  /\ UNCHANGED <<in, shut>>

Peek(r) ==
  /\ Peeking
  /\ \E i \in 1 .. Len(q) : \E n \in i .. Len(q) : out' = [out EXCEPT ![r] = @ \o SubSeq(q, i, n)]
  /\ UNCHANGED <<q, in, shut>>

Shut ==
  /\ shut' = TRUE
  /\ UNCHANGED <<q, in, out>>

QNext ==
  \/ \E w \in Writers : BeginPut(w) \/ Put(w) \/ PutReplace(w)
  \/ \E r \in Readers : BeginTake(r) \/ Take(r) \/ Peek(r)
  \/ Shut

QSpec == QInit /\ [][QNext]_qVars
=============================================================================
