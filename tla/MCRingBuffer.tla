---------------------------- MODULE MCRingBuffer ----------------------------
(* RingBuffer for TLC. *)
EXTENDS RingBuffer, TLC

\* Readers are interchangeable, and so are writers.
ThreadSymmetry == Permutations(Readers) \cup Permutations(Writers)

\* The combinations of flags that the tests of the ring draw from.  A thread
\* that waits with a deadline may also wait as one without.
StreamWriteFlags == {{}, {"WAITALL", "TIMEOUT"}, {"NOWAIT"}}

StreamReadFlags == StreamWriteFlags \cup {{"PEEK"}}

\* A writer that replaces what is in the ring, as in the tests, and its reader.
NowaitFlags == {{"NOWAIT"}}

ReplaceFlags == {{"REPLACE_OLD"}}

NoFlags == {}
=============================================================================
