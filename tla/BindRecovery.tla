---------------------------- MODULE BindRecovery ----------------------------
(***************************************************************************)
(* bind-template: binding a chart template to an ask, with the memory of a *)
(* session that keeps an agent from asking for the same bind again and     *)
(* again.  A first call names only the ask; the binder binds it, escalates *)
(* or asks for a proposal.  A second call carries the proposal, and one    *)
(* that is rejected for a reason an agent can repair may be corrected      *)
(* once.  What was tried is kept in a record per ask, in a map with a cap. *)
(*                                                                         *)
(* A call runs from await to await: it is admitted (Begin), reads the      *)
(* workbook, is bound, writes the workbook and verifies it.  Calls of one  *)
(* session interleave at those points.                                     *)
(*                                                                         *)
(* Left out: calculated fields written before a bind, the idempotency key  *)
(* of a trusted caller, dashboard sheets, and what is kept for the receipt. *)
(***************************************************************************)
EXTENDS Naturals, FiniteSets, SequencesExt

CONSTANTS
    Calls,        \* calls of bind-template
    Asks,         \* normalized asks; an ask is also the title of its sheet
    Proposals,    \* records [sig, title]; the signature leaves the title out
    Charts,       \* what a bind produces, whatever the title
    Inputs,       \* the arguments each call may have
    MaxAsks,      \* MAX_BIND_RECOVERY_ASKS
    MaxSheets,    \* MAX_APPLIED_SHEETS
    MaxProposals, \* MAX_BIND_RECOVERY_PROPOSAL_SIGNATURES
    MaxEdits,     \* bound: the user's changes of the workbook
    None

Signatures == {p.sig : p \in Proposals}
Titles == Asks \cup {p.title : p \in Proposals}
\* A complete request with anything but an ask is declined before all else.
Arguments == {a \in [ask : Asks, proposal : Proposals \cup {None}, target : Titles \cup {None},
                     datasource : BOOLEAN, complete : BOOLEAN] :
                a.complete => a.proposal = None /\ a.target = None /\ ~a.datasource}

ASSUME InputsAssumption == Inputs \in [Calls -> SUBSET Arguments]
\* There is room for a proposal and its correction.
ASSUME BoundsAssumption ==
    /\ MaxAsks \in Nat \ {0} /\ MaxSheets \in Nat \ {0}
    /\ MaxProposals \in Nat /\ MaxProposals >= 2
ASSUME NoneAssumption == None \notin Calls \cup Proposals \cup Signatures \cup Titles \cup Charts

VARIABLES
    recovery,   \* bindRecoveryByAsk: the records, and their order in the map
    sheets,     \* appliedSheets: charts with the title they were applied under
    doc,        \* the open workbook: the chart of each sheet
    edits,      \* how often the user changed it
    pc,         \* where a call is
    args,       \* its arguments
    prior,      \* priorRecovery, the record it found
    held,       \* whether it got a reservation id
    read,       \* the workbook it read
    chart,      \* the chart it is about to apply
    crowded,    \* history: calls under way that ran beside another one, or the user
    raced,      \* history: asks on which calls overlapped since their record was new
    offer,      \* history: the proposals an ask's last answer invites
    finished    \* history: charts finished, with their titles, since calls last
                \*   overlapped or the user changed the workbook

storeVars == <<recovery, sheets>>
callVars == <<pc, args, prior, held, read, chart>>
history == <<crowded, raced, offer, finished>>
vars == <<storeVars, doc, edits, callVars, history>>

Outcomes == {"bound", "propose", "escalate"}
Attempts == [id : Calls \cup {None}, sig : Signatures \cup {None}, outcome : Outcomes \cup {None}]
Allowances == [sig : Signatures, remaining : {0, 1}]
Records == [phase : {"awaiting-proposal", "proposal-attempted", "retry-used", "terminal"},
            attempts : Seq(Attempts), last : Signatures \cup {None},
            context : {"none", "workbook", "datasource"},
            invariant : SUBSET Proposals, bare : Nat, allowance : Allowances \cup {None}]

ASSUME NoRecordAssumption == None \notin Records \cup Allowances \cup Outcomes

\* What the code reads where there is no record.
Empty == [phase |-> "none", attempts |-> <<>>, last |-> None, context |-> "none",
          invariant |-> {}, bare |-> 0, allowance |-> None]

TypeOK ==
    /\ recovery.of \in [Asks -> Records \cup {None}]
    /\ recovery.order \in Seq(Asks)
    /\ Len(recovery.order) <= MaxAsks
    /\ ToSet(recovery.order) = {a \in Asks : recovery.of[a] # None}
    /\ IsInjective(recovery.order)
    /\ sheets \in Seq([chart : Charts, title : Titles]) /\ Len(sheets) <= MaxSheets
    /\ doc \in [Titles -> Charts \cup {None}]
    /\ pc \in [Calls -> {"idle", "reading", "binding", "applying", "verifying", "returned"}]
    /\ args \in [Calls -> Arguments \cup {None}]
    /\ prior \in [Calls -> Records \cup {None}]
    /\ held \in [Calls -> BOOLEAN]
    /\ read \in [Calls -> [Titles -> Charts \cup {None}] \cup {None}]
    /\ chart \in [Calls -> Charts \cup {None}]

Init ==
    /\ recovery = [of |-> [a \in Asks |-> None], order |-> <<>>]
    /\ sheets = <<>>
    /\ doc = [t \in Titles |-> None]
    /\ edits = 0
    /\ pc = [c \in Calls |-> "idle"]
    /\ args = [c \in Calls |-> None]
    /\ prior = [c \in Calls |-> None]
    /\ held = [c \in Calls |-> FALSE]
    /\ read = [c \in Calls |-> None]
    /\ chart = [c \in Calls |-> None]
    /\ crowded = {}
    /\ raced = {}
    /\ offer = [a \in Asks |-> {}]
    /\ finished = {}

-----------------------------------------------------------------------------
\* The map of records.

Found(r) == IF r = None THEN Empty ELSE r

\* Mutant: the record is deleted, its place in the map is not.
ForgetRecord(map, a) == [map EXCEPT !.of[a] = None]

\* A key is in the map once.
Forget(map, a) == [of |-> [map.of EXCEPT ![a] = None], order |-> RemoveFirst(map.order, a)]

\* Mutant: the least recent record goes, whatever its phase.
EvictableOldest(map, a) == {i \in DOMAIN map.order : map.order[i] # a}

\* Where the records are that may go to make room for the record of a.
Evictable(map, a) ==
    {i \in DOMAIN map.order : map.order[i] # a /\ map.of[map.order[i]].phase = "terminal"}

\* The map exceeds its cap by one at most.  With nothing to evict the record
\* that was touched goes.
Touch(map, a, r) ==
    LET moved == [of |-> [map.of EXCEPT ![a] = r], order |-> Append(RemoveFirst(map.order, a), a)]
        spare == Evictable(moved, a)
        oldest == {i \in spare : \A j \in spare : i <= j}
    IN IF Len(moved.order) <= MaxAsks THEN moved
       ELSE Forget(moved, IF oldest = {} THEN a ELSE moved.order[CHOOSE i \in oldest : TRUE])

\* getBindRecovery
Looked(map, a) == IF map.of[a] = None THEN map ELSE Touch(map, a, map.of[a])

Tried(r) == {r.attempts[i].sig : i \in DOMAIN r.attempts} \ {None}

Progress(r, sig) ==
    IF sig \in Tried(r) THEN "repeat"
    ELSE IF Cardinality(Tried(r)) >= MaxProposals THEN "limit" ELSE "new"

\* classifyBindRecoveryPhase
Phase(r, sig) ==
    IF sig = None THEN "awaiting-proposal"
    ELSE IF \/ r.phase = "retry-used"
            \/ r.last \notin {None, sig} /\ Progress(r, sig) = "new"
         THEN "retry-used"
         ELSE "proposal-attempted"

KeptAllowance(r, next) == IF r.allowance # None /\ r.allowance.sig = next THEN r.allowance ELSE None

\* The fields a reservation and an outcome set alike.
Stepped(r, phase, attempts, last, sig) ==
    [r EXCEPT !.phase = phase, !.attempts = attempts, !.last = last,
              !.bare = IF sig = None THEN @ ELSE 0, !.allowance = KeptAllowance(r, last)]

\* reserveBindRecoveryAdmission
Reserve(map, a, c, sig) ==
    LET r == Found(map.of[a])
    IN Touch(map, a, Stepped(r, Phase(r, sig),
                             Append(r.attempts, [id |-> c, sig |-> sig, outcome |-> None]),
                             IF sig = None THEN r.last ELSE sig, sig))

\* Mutant: the latest attempt without an outcome, whoever reserved it.
UpgradableLast(r, c) ==
    {i \in DOMAIN r.attempts :
       /\ r.attempts[i].outcome = None
       /\ \A j \in DOMAIN r.attempts : r.attempts[j].outcome = None => j <= i}

\* upgradeReservedAttempt: the attempt of the reservation, if it has no outcome.
Upgradable(r, c) ==
    {i \in DOMAIN r.attempts : r.attempts[i].id = c /\ r.attempts[i].outcome = None}

\* upgradeOrAppendAttempt, for an outcome without a reservation id
UpgradedOrAppended(r, sig, outcome) ==
    IF r.attempts # <<>> /\ Last(r.attempts).outcome = None /\ Last(r.attempts).sig = sig
    THEN [r.attempts EXCEPT ![Len(r.attempts)].outcome = outcome]
    ELSE Append(r.attempts, [id |-> None, sig |-> sig, outcome |-> outcome])

\* recordBindRecoveryAttempt and, with phase "terminal", recordBindRecoveryTerminal.
\* id is None where the call has no reservation; context "none" and invariant {}
\* leave what is there.
Record(map, a, id, sig, outcome, phase, context, invariant) ==
    LET old == map.of[a]
        r == Found(old)
        own == Upgradable(r, id)
        next == IF id = None
                THEN Stepped(r, phase, UpgradedOrAppended(r, sig, outcome),
                             IF sig = None THEN r.last ELSE sig, sig)
                ELSE Stepped(r, IF own = {} /\ old # None THEN old.phase ELSE phase,
                             [i \in DOMAIN r.attempts |->
                                IF i \in own THEN [r.attempts[i] EXCEPT !.outcome = outcome]
                                ELSE r.attempts[i]],
                             r.last, sig)
    IN Touch(map, a, [next EXCEPT !.context = IF context = "none" THEN @ ELSE context,
                                  !.invariant = IF invariant = {} THEN @ ELSE invariant])

\* releaseBindRecoveryReservation keeps the record's place in the map.  A call has
\* reserved once at most.
Release(map, a, c) ==
    IF map.of[a] = None \/ \A i \in DOMAIN map.of[a].attempts : map.of[a].attempts[i].id # c THEN map
    ELSE LET rest == RemoveFirstMatch(map.of[a].attempts, LAMBDA t : t.id = c)
         IN IF rest = <<>> THEN Forget(map, a)
            ELSE [map EXCEPT !.of[a] = [@ EXCEPT !.attempts = rest]]

\* grantPreDispatchRetryAllowance
Grant(map, a, sig) ==
    IF \/ map.of[a] = None
       \/ map.of[a].last # sig
       \/ map.of[a].allowance # None /\ map.of[a].allowance.sig = sig
    THEN map
    ELSE Touch(map, a, [map.of[a] EXCEPT !.allowance = [sig |-> sig, remaining |-> 1]])

-----------------------------------------------------------------------------
\* recoveryGateBlock: whether a call on an ask with record r goes on.

Rejected(r) == \E i \in DOMAIN r.attempts : r.attempts[i].sig # None /\ r.attempts[i].outcome = "escalate"

CorrectionPending(r) ==
    /\ r.phase = "proposal-attempted"
    /\ r.context # "none"
    /\ r.invariant # {}
    /\ Rejected(r)

\* "open", "retry" and "next" let the call pass.  The answers of a closed gate
\* differ in their text only.
Verdict(r, sig, target) ==
    IF r = None THEN "open"
    ELSE IF r.phase = "terminal" \/ (Tried(r) # {} /\ ~CorrectionPending(r)) THEN "closed"
    ELSE IF target # None /\ ~CorrectionPending(r) THEN "open"
    ELSE IF sig = None THEN "bare"
    ELSE IF r.last = sig /\ r.allowance = [sig |-> sig, remaining |-> 1] THEN "retry"
    ELSE IF Progress(r, sig) # "new" \/ (r.phase = "proposal-attempted" /\ r.last = sig)
    THEN "exhausted"
    ELSE "next"

Passes(r, sig, target) == Verdict(r, sig, target) \in {"open", "retry", "next"}

\* What the gate itself writes: a second bare call in a row ends the recovery.
Gated(map, a, sig, target) ==
    LET r == map.of[a]
        verdict == Verdict(r, sig, target)
    IN CASE verdict \in {"open", "closed"} -> map
         [] verdict = "bare" ->
              Touch(map, a, [r EXCEPT !.bare = @ + 1, !.phase = IF r.bare + 1 >= 2 THEN "terminal" ELSE @])
         [] verdict = "retry" -> Touch(map, a, [r EXCEPT !.bare = 0, !.allowance.remaining = 0])
         [] OTHER -> Touch(map, a, [r EXCEPT !.bare = 0])

-----------------------------------------------------------------------------
\* What a call works with.

SigOf(p) == IF p = None THEN None ELSE p.sig
Ask(c) == args[c].ask
Sig(c) == SigOf(args[c].proposal)
Id(c) == IF held[c] THEN c ELSE None

\* requestedDatasource # undefined
Narrowed(in, r) == in.datasource \/ Found(r).context = "datasource"

\* isStructuredCorrectionCall
Structured(c) ==
    /\ Sig(c) # None
    /\ \E i \in DOMAIN Found(prior[c]).attempts :
          Found(prior[c]).attempts[i].sig = None /\ Found(prior[c]).attempts[i].outcome = "propose"

\* Mutant: any rejected proposal may be corrected, also a correction.
AvailableAlways(r, invariant) == invariant # {}

\* correctionAvailable: not for the correction of a proposal that was rejected
Available(r, invariant) ==
    /\ invariant # {}
    /\ ~(Found(r).phase = "proposal-attempted" /\ Rejected(Found(r)))

\* contractCorrectionInvariant and filterCorrectionInvariant: some other choices for
\* fields of the signature, the title being kept, or nothing that could be repaired.
Invariants(p) == SUBSET {q \in Proposals : q.sig # p.sig /\ q.title = p.title}

Violates(in, r) ==
    /\ in.proposal # None
    /\ Found(r).invariant # {}
    /\ Found(r).context # "none"
    /\ in.proposal \notin Found(r).invariant

UnderWay == {d \in Calls : pc[d] \notin {"idle", "returned"}}

\* A call answers, and what it worked with is gone.
Return(c) ==
    /\ pc' = [pc EXCEPT ![c] = "returned"]
    /\ prior' = [prior EXCEPT ![c] = None]
    /\ read' = [read EXCEPT ![c] = None]
    /\ chart' = [chart EXCEPT ![c] = None]

Invite(a, set) == offer' = [offer EXCEPT ![a] = set]

-----------------------------------------------------------------------------
\* Up to the first await: the tool looks at the record, and the gate decides.

Begin(c, in) ==
    /\ pc[c] = "idle"
    /\ args' = [args EXCEPT ![c] = in]
    /\ crowded' = IF UnderWay = {} THEN {} ELSE UnderWay \cup {c}
    /\ raced' = IF \E d \in UnderWay : Ask(d) = in.ask THEN raced \cup {in.ask}
               ELSE raced \ {a \in {in.ask} : recovery.of[a] = None}
    /\ finished' = IF UnderWay = {} THEN finished ELSE {}
    /\ UNCHANGED <<sheets, doc, edits>>

\* A complete request is declined where there is a record, which stays.
Decline(c, in) ==
    /\ Begin(c, in)
    /\ in.complete /\ recovery.of[in.ask] # None
    /\ recovery' = Looked(recovery, in.ask)
    /\ Return(c)
    /\ Invite(in.ask, {})
    /\ UNCHANGED held

\* A correction outside the bounds of the rejected proposal ends the recovery.
\* Its outcome is recorded without a reservation.
Violate(c, in) ==
    /\ Begin(c, in)
    /\ Violates(in, recovery.of[in.ask])
    /\ recovery' = Record(Looked(recovery, in.ask), in.ask, None, SigOf(in.proposal),
                          "escalate", "terminal", "none", {})
    /\ Return(c)
    /\ Invite(in.ask, {})
    /\ UNCHANGED held

Proceeds(in) ==
    /\ ~(in.complete /\ recovery.of[in.ask] # None)
    /\ ~Violates(in, recovery.of[in.ask])

Block(c, in) ==
    /\ Begin(c, in)
    /\ Proceeds(in)
    /\ ~Passes(recovery.of[in.ask], SigOf(in.proposal), in.target)
    /\ recovery' = Gated(Looked(recovery, in.ask), in.ask, SigOf(in.proposal), in.target)
    /\ Return(c)
    /\ Invite(in.ask, {})
    /\ UNCHANGED held

\* The gate and, unless a data source has to be resolved first, the reservation.
AdmittedMap(c, in) ==
    LET gated == Gated(Looked(recovery, in.ask), in.ask, SigOf(in.proposal), in.target)
    IN IF Narrowed(in, recovery.of[in.ask]) THEN gated
       ELSE Reserve(gated, in.ask, c, SigOf(in.proposal))

\* At the cap the call goes on without a reservation (unprotected passthrough).
Admitted(c, in) ==
    /\ Begin(c, in)
    /\ Proceeds(in)
    /\ Passes(recovery.of[in.ask], SigOf(in.proposal), in.target)
    /\ held' = [held EXCEPT ![c] = /\ ~Narrowed(in, recovery.of[in.ask])
                                   /\ AdmittedMap(c, in).of[in.ask] # None]

Admit(c, in) ==
    /\ Admitted(c, in)
    /\ recovery' = AdmittedMap(c, in)
    /\ pc' = [pc EXCEPT ![c] = "reading"]
    /\ prior' = [prior EXCEPT ![c] = recovery.of[in.ask]]
    /\ Invite(in.ask, {})
    /\ UNCHANGED <<read, chart>>

\* The proposal does not fit the contract an earlier call returned.
Mismatch(c, in) ==
    /\ Admitted(c, in)
    /\ in.proposal # None
    /\ Found(recovery.of[in.ask]).context # "none"
    /\ \E invariant \in Invariants(in.proposal) :
         LET map == AdmittedMap(c, in)
             again == Available(recovery.of[in.ask], invariant)
         IN /\ recovery' = Record(map, in.ask, IF held'[c] THEN c ELSE None, in.proposal.sig, "escalate",
                                  IF again THEN Phase(Found(map.of[in.ask]), in.proposal.sig) ELSE "terminal",
                                  "none", invariant)
            /\ Return(c)
            /\ Invite(in.ask, IF again THEN invariant ELSE {})

-----------------------------------------------------------------------------
\* The continuation of the workbook read, up to the binder.

\* The read failed, or the data source is unknown: a reservation stays.
ReadFails(c) ==
    /\ pc[c] = "reading"
    /\ Return(c)
    /\ UNCHANGED <<storeVars, doc, edits, args, held, history>>

\* Mutant: the record found before the read is taken to be the current one.
ChangedNever(c) == FALSE

\* currentRecovery !== priorRecovery
Changed(c) == recovery.of[Ask(c)] # prior[c]

\* A call that named a data source reserves only now, and passes the gate again
\* if another call changed the record meanwhile.
ReadBlocked(c) ==
    /\ pc[c] = "reading"
    /\ Narrowed(args[c], prior[c])
    /\ Changed(c)
    /\ ~Passes(recovery.of[Ask(c)], Sig(c), args[c].target)
    /\ recovery' = Gated(Looked(recovery, Ask(c)), Ask(c), Sig(c), args[c].target)
    /\ Return(c)
    /\ UNCHANGED <<sheets, doc, edits, args, held, history>>

ReservedMap(c) ==
    LET looked == Looked(recovery, Ask(c))
        gated == IF Changed(c) THEN Gated(looked, Ask(c), Sig(c), args[c].target) ELSE looked
    IN IF Narrowed(args[c], prior[c]) THEN Reserve(gated, Ask(c), c, Sig(c)) ELSE recovery

ReadPasses(c) ==
    /\ pc[c] = "reading"
    /\ Narrowed(args[c], prior[c]) /\ Changed(c) => Passes(recovery.of[Ask(c)], Sig(c), args[c].target)
    /\ held' = [held EXCEPT ![c] = @ \/ (Narrowed(args[c], prior[c]) /\ ReservedMap(c).of[Ask(c)] # None)]

\* The ask's filters are ambiguous, or a direct proposal does not have them.
Preflight(c) ==
    /\ ReadPasses(c)
    /\ prior[c] = None
    /\ recovery' = Forget(ReservedMap(c), Ask(c))
    /\ Return(c)
    /\ UNCHANGED <<sheets, doc, edits, args, history>>

TargetMissing(c) ==
    /\ ReadPasses(c)
    /\ recovery' = ReservedMap(c)
    /\ args[c].target # None /\ doc[args[c].target] = None
    /\ Return(c)
    /\ UNCHANGED <<sheets, doc, edits, args, history>>

Bind(c) ==
    /\ ReadPasses(c)
    /\ recovery' = ReservedMap(c)
    /\ args[c].target # None => doc[args[c].target] # None
    /\ pc' = [pc EXCEPT ![c] = "binding"]
    /\ read' = [read EXCEPT ![c] = doc]
    /\ UNCHANGED <<sheets, doc, edits, args, prior, chart, history>>

-----------------------------------------------------------------------------
\* The continuation of the binder.

BinderThrows(c) ==
    /\ pc[c] = "binding"
    /\ Return(c)
    /\ UNCHANGED <<recovery, sheets, doc, edits, args, held, history>>

\* A complete request the binder does not cover is as if it had not been made.
DeclineBound(c) ==
    /\ pc[c] = "binding"
    /\ args[c].complete
    /\ recovery' = IF held[c] THEN Release(recovery, Ask(c), c) ELSE recovery
    /\ Return(c)
    /\ UNCHANGED <<sheets, doc, edits, args, held, history>>

Recorded(c, outcome, phase, context, invariant) ==
    recovery' = Record(recovery, Ask(c), Id(c), Sig(c), outcome,
                       IF phase = "terminal" THEN phase ELSE Phase(Found(recovery.of[Ask(c)]), Sig(c)),
                       context, invariant)

\* Without a proposal the binder may ask for one; one it is given it binds or declines.
Propose(c) ==
    /\ pc[c] = "binding"
    /\ ~args[c].complete /\ Sig(c) = None
    /\ Recorded(c, "propose", "open", IF Narrowed(args[c], prior[c]) THEN "datasource" ELSE "workbook", {})
    /\ Return(c)
    /\ Invite(Ask(c), Proposals)
    /\ UNCHANGED <<sheets, doc, edits, args, held, crowded, raced, finished>>

\* Only a filter the binder could not resolve in a structured correction can be
\* repaired.
Escalate(c) ==
    /\ pc[c] = "binding"
    /\ ~args[c].complete
    /\ \E invariant \in IF Structured(c) THEN Invariants(args[c].proposal) ELSE {{}} :
         LET again == Available(prior[c], invariant) /\ Found(prior[c]).context # "none"
         IN /\ Recorded(c, "escalate", IF again THEN "open" ELSE "terminal", "none", invariant)
            /\ Invite(Ask(c), IF again THEN invariant ELSE {})
    /\ Return(c)
    /\ UNCHANGED <<sheets, doc, edits, args, held, crowded, raced, finished>>

\* The bind is returned, as auto_apply is off or its template is not fast.
NotApplied(c) ==
    /\ pc[c] = "binding"
    /\ IF Structured(c) THEN Recorded(c, "bound", "terminal", "none", {})
       ELSE recovery' = Forget(recovery, Ask(c))
    /\ Return(c)
    /\ UNCHANGED <<sheets, doc, edits, args, held, history>>

\* getAppliedSheet and forgetAppliedSheet: the remembered sheets after a look for
\* chart k in the workbook the call read.  A chart is remembered once.
Remembered(k) == {i \in DOMAIN sheets : sheets[i].chart = k}
StillPresent(c, k) == {i \in Remembered(k) : read[c][sheets[i].title] # None}
Others(k) == RemoveFirstMatch(sheets, LAMBDA s : s.chart = k)

Reuse(c) ==
    /\ pc[c] = "binding"
    /\ args[c].target = None
    /\ \E k \in Charts : \E i \in StillPresent(c, k) : sheets' = Append(Others(k), sheets[i])
    /\ Return(c)
    /\ UNCHANGED <<recovery, doc, edits, args, held, history>>

Apply(c) ==
    /\ pc[c] = "binding"
    /\ \E k \in Charts :
         /\ args[c].target = None => StillPresent(c, k) = {}
         /\ sheets' = IF args[c].target = None THEN Others(k) ELSE sheets
         /\ chart' = [chart EXCEPT ![c] = k]
    /\ pc' = [pc EXCEPT ![c] = "applying"]
    /\ UNCHANGED <<recovery, doc, edits, args, prior, held, read, history>>

-----------------------------------------------------------------------------
\* performAutoApply and what follows it.

Title(c) ==
    IF args[c].target # None THEN args[c].target
    ELSE IF args[c].proposal # None THEN args[c].proposal.title ELSE Ask(c)

\* The write lands, if the workbook is still the one that was read.
Post(c) ==
    /\ pc[c] = "applying"
    /\ doc = read[c]
    /\ doc' = [doc EXCEPT ![Title(c)] = chart[c]]
    /\ pc' = [pc EXCEPT ![c] = "verifying"]
    /\ UNCHANGED <<storeVars, edits, args, prior, held, read, chart, history>>

\* Mutant: the sheet is remembered only where the recovery goes on.
RememberOpen(c, done) == sheets' = IF done THEN sheets ELSE Append(sheets, [chart |-> chart[c], title |-> Title(c)])

\* recordAppliedSheet
Remember(c, done) ==
    LET all == Append(Others(chart[c]), [chart |-> chart[c], title |-> Title(c)])
    IN sheets' = IF Len(all) > MaxSheets THEN Tail(all) ELSE all

\* The end of a bind whose answer says done or leaves something to do.  Done
\* deletes the record; a structured correction that is not done ends the recovery.
AfterResult(c, done) ==
    IF done THEN Forget(recovery, Ask(c))
    ELSE Record(recovery, Ask(c), Id(c), Sig(c), "bound",
                IF Structured(c) THEN "terminal" ELSE Phase(Found(recovery.of[Ask(c)]), Sig(c)), "none", {})

\* A finished bind is remembered.  Desktop's warnings keep it from being done.
Applied(c) ==
    /\ pc[c] = "verifying"
    /\ \E whole \in BOOLEAN, warned \in BOOLEAN :
         /\ IF whole THEN Remember(c, ~warned) ELSE sheets' = sheets
         /\ recovery' = AfterResult(c, whole /\ ~warned)
         /\ finished' = IF whole /\ c \notin crowded
                        THEN finished \cup {<<chart[c], Title(c)>>} ELSE finished
    /\ Return(c)
    /\ UNCHANGED <<doc, edits, args, held, crowded, raced, offer>>

\* The write was not sent (rejected, or the workbook drifted): one more try of
\* the same proposal is granted, unless it was a correction.
NotSent(c) ==
    /\ pc[c] = "applying"
    /\ LET map == AfterResult(c, FALSE)
       IN recovery' = IF Structured(c) \/ Sig(c) = None THEN map ELSE Grant(map, Ask(c), Sig(c))
    /\ Return(c)
    /\ UNCHANGED <<sheets, doc, edits, args, held, history>>

\* Desktop reported a failure, whether or not it carried the write out.
SentFailed(c) ==
    /\ pc[c] \in {"applying", "verifying"}
    /\ recovery' = AfterResult(c, FALSE)
    /\ Return(c)
    /\ UNCHANGED <<sheets, doc, edits, args, held, history>>

\* throwIfSessionFatalError: nothing is recorded.
SessionLost(c) ==
    /\ pc[c] \in {"applying", "verifying"}
    /\ Return(c)
    /\ UNCHANGED <<storeVars, doc, edits, args, held, history>>

UserEdit ==
    /\ edits < MaxEdits
    /\ \E t \in Titles : doc[t] # None /\ doc' = [doc EXCEPT ![t] = None]
    /\ edits' = edits + 1
    /\ crowded' = UnderWay
    /\ finished' = {}
    /\ UNCHANGED <<storeVars, callVars, raced, offer>>

-----------------------------------------------------------------------------
Start(c) ==
    \E in \in Inputs[c] :
       Decline(c, in) \/ Violate(c, in) \/ Block(c, in) \/ Admit(c, in) \/ Mismatch(c, in)

Continue(c) ==
    \/ ReadFails(c) \/ ReadBlocked(c) \/ Preflight(c) \/ TargetMissing(c) \/ Bind(c)
    \/ BinderThrows(c) \/ DeclineBound(c) \/ Propose(c) \/ Escalate(c)
    \/ NotApplied(c) \/ Reuse(c) \/ Apply(c)
    \/ Post(c) \/ Applied(c) \/ NotSent(c) \/ SentFailed(c) \/ SessionLost(c)

Next == (\E c \in Calls : Start(c) \/ Continue(c)) \/ UserEdit

Spec == Init /\ [][Next]_vars

-----------------------------------------------------------------------------
\* Properties.

\* A recovery admits one bare call that names no target, and a second proposal
\* only when one was rejected: not two calls at once, whatever they were waiting for
\* when the other one was admitted.  A third proposal is never admitted, unless calls
\* on the ask overlapped: the outcome of one may open what another one used up.
OneCorrection ==
    \A a \in Asks : recovery.of[a] # None =>
      LET tries == recovery.of[a].attempts
          bare == {i \in DOMAIN tries : tries[i].id # None /\ tries[i].sig = None
                                        /\ args[tries[i].id].target = None}
          proposals == {i \in DOMAIN tries : tries[i].id # None /\ tries[i].sig # None}
      IN /\ Cardinality(bare) <= 1
         /\ Cardinality(proposals) >= 2 => Rejected(recovery.of[a])
         /\ a \notin raced => Cardinality(proposals) <= 2

\* A recovery that is still open is lost only to a call on its own ask: calls on
\* other asks find no room before they take it.
ActiveKeepsItsPlace ==
    [][\A a \in Asks :
         /\ recovery.of[a] # None /\ recovery.of[a].phase # "terminal"
         /\ recovery'.of[a] = None
         => \E c \in Calls : pc'[c] # pc[c] /\ args'[c].ask = a]_vars

\* What an answer invites the agent to send passes the gate and is within the bounds
\* of the correction, unless calls on the ask overlapped.
OfferStands ==
    \A a \in Asks \ raced : \A p \in offer[a] :
      /\ Passes(recovery.of[a], p.sig, None)
      /\ p \in Found(recovery.of[a]).invariant \/ Found(recovery.of[a]).invariant = {}

\* An outcome is filed under the call it is the outcome of.  The exception is an
\* outcome recorded without a reservation, which may be filed under another call
\* that sent the same proposal and is still under way.
OutcomeIsOwn ==
    \A a \in Asks : recovery.of[a] # None =>
      \A i \in DOMAIN recovery.of[a].attempts :
        LET t == recovery.of[a].attempts[i]
        IN t.id # None /\ t.outcome # None =>
             \/ pc[t.id] = "returned"
             \/ \E d \in Calls : pc[d] = "returned" /\ ~held[d] /\ Ask(d) = a /\ Sig(d) = t.sig

\* A chart the session finished and the workbook still shows is not built again
\* for a reworded ask, unless calls overlapped, the user changed the workbook or there
\* are more charts than a session remembers.
NoTwins ==
    \A c \in Calls :
      /\ pc[c] = "applying" /\ c \notin crowded /\ args[c].target = None
      /\ IsFiniteSet(Charts) /\ Cardinality(Charts) <= MaxSheets
      => \A t \in Titles : <<chart[c], t>> \in finished => doc[t] = None
=============================================================================
