------------------------------ MODULE PairStore ------------------------------
(***************************************************************************)
(* What the pair commands promise of a device's stored pairs: a join adds  *)
(* one pair at the end, pairRemoveIndex takes away exactly the pairs at    *)
(* the indexes it was given, pairRemoveAll takes away all of them, and     *)
(* nothing else ever changes what is stored.  A removal that was asked for *)
(* may be forgotten (the power failed), never done in part.                *)
(***************************************************************************)
EXTENDS Naturals, Sequences

CONSTANTS Devices, Records

VARIABLES
    store,      \* the pairs of every device, in the order they were joined
    asked       \* the removal that is asked for and not done: a set of at
                \* most one <<device, set of indexes>>

vars == <<store, asked>>

(* What is left of the first elements of s without those at the indexes.   *)
KeptUpTo(s, indexes) ==
    LET kept[i \in 0..Len(s)] ==
            IF i = 0 THEN <<>>
            ELSE IF i \in indexes THEN kept[i - 1] ELSE Append(kept[i - 1], s[i])
    IN kept
WithoutIndexes(s, indexes) == KeptUpTo(s, indexes)[Len(s)]

Init == store = [d \in Devices |-> <<>>] /\ asked = {}

Add(d) ==
    /\ asked = {}
    /\ \E r \in Records : store' = [store EXCEPT ![d] = Append(@, r)]
    /\ UNCHANGED asked

Ask(d) ==
    /\ asked = {}
    /\ \E indexes \in SUBSET (1..Len(store[d])) : asked' = {<<d, indexes>>}
    /\ UNCHANGED store

Drop ==
    \E a \in asked :
        /\ store' = [store EXCEPT ![a[1]] = WithoutIndexes(@, a[2])]
        /\ asked' = {}

Forget == asked # {} /\ asked' = {} /\ UNCHANGED store

Clear(d) ==
    /\ asked = {}
    /\ store' = [store EXCEPT ![d] = <<>>]
    /\ UNCHANGED asked

Next == Drop \/ Forget \/ \E d \in Devices : Add(d) \/ Ask(d) \/ Clear(d)

Spec == Init /\ [][Next]_vars
=============================================================================
