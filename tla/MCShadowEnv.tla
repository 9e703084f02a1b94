---------------------------- MODULE MCShadowEnv -----------------------------
(* A program that runs in one environment, over a fixed version.           *)
EXTENDS ShadowEnv

CONSTANTS Rooted       \* the addresses of the version's blocks, all of length 1

Block(i, a) == [id |-> i, vaddr |-> a, len |-> 1, ptr |-> NULL, is_del |-> FALSE, own |-> TRUE]

Base == LET s == SetToSortSeq(Rooted, <) IN [i \in 1 .. Len(s) |-> Block(i, s[i])]

Init == EmptyEnv

Next ==
  \/ \E b \in Live(Base) : Write(Base, b.vaddr, NULL)
  \/ \E a \in Unused(Base), len \in Lens : New(a, len)
  \/ \E b \in Live(Base) : Del(Base, b.vaddr)

Spec == Init /\ [][Next]_envVars

\* Whatever the program wrote, allocated and deleted before, shadow_runtime
\* (lines 1388-1474) resolves every address to the block that the program
\* should see, the environment's own before the version's, and a write lands
\* in memory of the environment, never in the version's (Resolved).
AddressesResolve == Resolved(Base)
=============================================================================
