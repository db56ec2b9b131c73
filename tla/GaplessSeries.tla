----------------------------- MODULE GaplessSeries -----------------------------
(***************************************************************************)
(* What a series of numbers promises to the documents that take part in    *)
(* it: each document gets one number, once and for all, and the numbers    *)
(* are given out as 1, 2, 3, ...                                           *)
(***************************************************************************)
EXTENDS Naturals, FiniteSets

CONSTANT Documents

VARIABLE number    \* of each document, 0 while it has none

Numbered == {d \in Documents : number[d] # 0}

Init == number = [d \in Documents |-> 0]

Issue(d) ==
    /\ number[d] = 0
    /\ number' = [number EXCEPT ![d] = Cardinality(Numbered) + 1]

Next == \E d \in Documents : Issue(d)

Spec == Init /\ [][Next]_number
=============================================================================
