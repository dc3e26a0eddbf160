---------------------------- MODULE MCEditBuffer ----------------------------
(* An edit that waits, one that does not, a read and an apply of two worksheets. *)
EXTENDS EditBuffer, TLC

CONSTANTS e1, w1, r1, a1, s1, s2, n1, n2

Made == Cardinality({c \in Calls : pc[c] # "idle"})
Happened == (instance - 1) + changes + (IF listed THEN 0 ELSE 1)

\* Three of the calls are made and one thing happens beside them, or two and two; two
\* calls are under way at a time.
Bounded ==
    /\ Cardinality(UnderWay) <= 2
    /\ Made <= 3 /\ Happened <= 2 /\ Made + Happened <= 4

\* The edit that waits names its sheet; the other one names a sheet, a file or both.
ByName == [name : Names, file : {None}]
ByFile == [name : {None}, file : {w1, r1}]
ByBoth == [name : Names, file : {r1}]
Arg == (w1 :> ByName) @@ (e1 :> ByName \cup ByFile \cup ByBoth)

Symmetry == Permutations({s1, s2}) \union Permutations({n1, n2})
=============================================================================
