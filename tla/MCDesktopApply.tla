--------------------------- MODULE MCDesktopApply ---------------------------
(* One apply of every route on two sheets; two upserts of different sheets. *)
EXTENDS DesktopApply

CONSTANTS u1, u2, a1, w1, p1, s1, s2

Cached == {a1, w1, p1}
Hashing == {w1, p1} \cap Applies
TwoUpserts == {u1, u2}
TwoSheets == {s1, s2}
Targets == [c \in Applies |-> IF c \in {u1, a1, w1} THEN s1 ELSE s2]
Routes == [c \in Applies |-> CASE c = a1 -> "artifact"
                               [] c = w1 -> "workbook"
                               [] c = p1 -> "sheet"
                               [] OTHER  -> "upsert"]
=============================================================================
