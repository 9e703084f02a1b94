---------------------------- MODULE UseingStatus ----------------------------
(***************************************************************************)
(* The status word of moon_common.h: one int whose low four bits hold a    *)
(* status (STATUS_CLOSED = 0x0f means closed) and whose higher bits count, *)
(* in units of USEING_REF_UNIT, the threads that use the guarded object.   *)
(* A word w stands for the int  w.n * 16 + w.st.                           *)
(***************************************************************************)
EXTENDS Naturals

STATUS_CLOSED == 15

STATUS_MASK == 0..15

StatusWord == [st : STATUS_MASK, n : Nat]

\* ( tmp & STATUS_MASK ) == STATUS_CLOSED
IsClosed(w) == w.st = STATUS_CLOSED

\* Variant of NoUser that takes the count for 0.
NoUser_Always(w) == TRUE

\* tmp < USEING_REF_UNIT
NoUser(w) == w.n = 0

\* STATUS_LEGAL_CLOSED: closed, and the last user has left.
STATUS_LEGAL_CLOSED(w) == IsClosed(w) /\ NoUser(w)

\* Variant of AddUser that loses the increment.
AddUser_Lost(w) == w

\* tmp + USEING_REF_UNIT
AddUser(w) == [w EXCEPT !.n = @ + 1]

\* tmp - USEING_REF_UNIT
SubUser(w) == [w EXCEPT !.n = @ - 1]

\* ( tmp & ~STATUS_MASK ) | STATUS_CLOSED
MarkClosed(w) == [w EXCEPT !.st = STATUS_CLOSED]
=============================================================================
