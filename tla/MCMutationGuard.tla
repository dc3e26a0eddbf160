-------------------------- MODULE MCMutationGuard --------------------------
(* Previews, confirms and removals that race on one workbook or one task.  *)
EXTENDS MutationGuard, TLC

CONSTANTS p1, k1, x1

\* What each call is for: a preview, a confirm, or any of them (x1).
InRole ==
    /\ \A c \in Calls \intersect {p1} : request[c] # None => request[c].phase = "preview"
    /\ \A c \in Calls \intersect {k1} : request[c] # None => request[c].phase = "confirm"

\* Nobody loses the administrator's role and the server is not restarted.
Steady == InRole /\ admins = Users /\ \A c \in Calls : pc[c] # "lost"

\* Nothing distinguishes the users, or the schedules, but their names.
Symmetry == Permutations(Users) \union Permutations(Schedules)
=============================================================================
