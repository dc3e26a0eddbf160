-------------------------- MODULE MCPerSheetApply --------------------------
(* One apply and, beside it, one read of another tool.                     *)
EXTENDS PerSheetApply

CONSTANTS list, post, other

ThreeCalls == {list, post, other}
OnePost == {post}

\* Bound: the other tool's read is refused or lost, perhaps after a rescan, and
\* never runs.  Its answer would concern neither the client nor the apply.
OtherOnlyDisturbs == op[other].st = "none"
=============================================================================
