--------------------------- MODULE MCBindRecovery ---------------------------
(* A bare call, two proposals and one more call of any kind. *)
EXTENDS BindRecovery

CONSTANTS c1, c2, c3, c4, ask1, ask2, sig1, sig2, sig3, title, chart1

AllCalls == {c1, c2, c3, c4}
BothAsks == {ask1, ask2}
OneChart == {chart1}
ThreeProposals == [sig : {sig1, sig2, sig3}, title : {title}]

Bare(a) == [ask |-> a, proposal |-> None, target |-> None, datasource |-> FALSE, complete |-> FALSE]

Proposed(d, sigs) ==
    {[Bare(ask1) EXCEPT !.proposal = p, !.datasource = d] : p \in {q \in ThreeProposals : q.sig \in sigs}}
Another == {Bare(ask1), Bare(ask2), [Bare(ask1) EXCEPT !.complete = TRUE],
            [Bare(ask1) EXCEPT !.target = title]} \cup Proposed(FALSE, {sig3})

Sent == [c \in AllCalls |-> CASE c = c1 -> {Bare(ask1)}
                              [] c = c2 -> Proposed(TRUE, {sig1, sig2})
                              [] c = c3 -> Proposed(FALSE, {sig1, sig2})
                              [] c = c4 -> Another]

\* Bound: at most two calls are under way at the same time.
TwoAtOnce == Cardinality(UnderWay) <= 2

\* Bound: the user changes the workbook in the behaviours of the first three calls.
EditOrFourth == args[c4] # None => edits = 0

\* Bound: beside a call on the other ask there is one proposal, which names no data source.
OtherAskApart == args[c4] # None /\ args[c4].ask = ask2 => args[c2] = None

Alike == Permutations({sig1, sig2})
=============================================================================
