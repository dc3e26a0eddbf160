---------------------------- MODULE DesktopApply ----------------------------
(***************************************************************************)
(* The apply lock and the four ways a tool changes the open workbook:      *)
(*                                                                         *)
(*   "upsert"    read the whole workbook, splice one sheet in, post it     *)
(*               back (loadWorksheetXmlViaExternalApi);                    *)
(*   "artifact"  the same, if the live sheet is still the one the artifact *)
(*               was built for (loadWorksheetXml with an artifact);        *)
(*   "workbook"  post a cached, edited workbook if the live one is still   *)
(*               what was cached (loadWorkbookXml);                        *)
(*   "sheet"     post a cached, edited sheet through its own route if the  *)
(*               live sheet is still what was cached                       *)
(*               (tryApplyViaPerSheetRoute).                               *)
(*                                                                         *)
(* The last two compare only if their caller passes a source hash.         *)
(* Every apply runs under one promise chain.  The executor is abstracted   *)
(* to what ExternalApiExecutor promises of it: a POST takes effect at most *)
(* once, perhaps after the call gave up, and a completed POST may become   *)
(* readable a little later.  A user may edit at any time.                  *)
(***************************************************************************)
EXTENDS Naturals, Sequences

CONSTANTS
    Applies,      \* the apply calls
    Sheets,       \* the sheets of the open workbook
    Target,       \* Target[c]: the sheet apply c changes
    Route,        \* Route[c]: how apply c writes
    Hashed,       \* the applies whose caller passes expectedSourceHash
    MaxEdits      \* bound: edits made by the user

ASSUME TargetAssumption == Target \in [Applies -> Sheets]
ASSUME RouteAssumption == Route \in [Applies -> {"upsert", "artifact", "workbook", "sheet"}]
ASSUME HashedAssumption == Hashed \subseteq Applies
ASSUME MaxEditsAssumption == MaxEdits \in Nat

VARIABLES
    doc,          \* doc[s]: the version of sheet s in Desktop
    edits,        \* edits the user made
    tail,         \* the applies in the promise chain, the first one running
    pc,           \* pc[c]: where apply c is
    base,         \* base[c]: the document the caller of c edited
    snap,         \* snap[c]: the document c read under the lock
    inflight,     \* applies whose POST Desktop may still carry out
    landed,       \* applies whose POST Desktop carried out
    outcome,      \* outcome[c]: what the caller was told
    loose,        \* applies that left the lock with their POST in flight
    writer,       \* writer[s]: the apply that put the version of s there, if any
    clobbered     \* <<c, d>>: c overwrote what d wrote without having seen it

desktopVars == <<doc, edits>>
callVars == <<pc, base, snap, outcome>>
historyVars == <<loose, writer, clobbered>>
vars == <<desktopVars, tail, callVars, inflight, landed, historyVars>>

-----------------------------------------------------------------------------
UserVersion(n) == <<"user", n>>
ApplyVersion(c) == <<"apply", c>>
Version == ({"user"} \X (0..MaxEdits)) \union ({"apply"} \X Applies)
Document == [Sheets -> Version]

Inside == {"posting", "posted", "verifying"}

Outcomes == {"", "read-error", "drift", "rejected", "failed", "unknown", "applied", "unsettled"}

TypeOK ==
    /\ doc \in Document
    /\ edits \in 0..MaxEdits
    /\ tail \in Seq(Applies)
    /\ pc \in [Applies -> {"idle", "cached", "waiting", "done"} \union Inside]
    /\ base \in [Applies -> Document]
    /\ snap \in [Applies -> Document]
    /\ inflight \subseteq Applies
    /\ landed \subseteq Applies
    /\ inflight \intersect landed = {}
    /\ outcome \in [Applies -> Outcomes]
    /\ loose \subseteq Applies
    /\ writer \in [Sheets -> SUBSET Applies]
    /\ clobbered \subseteq Applies \X Applies

Init ==
    /\ doc = [s \in Sheets |-> UserVersion(0)]
    /\ edits = 0
    /\ tail = <<>>
    /\ pc = [c \in Applies |-> "idle"]
    /\ base = [c \in Applies |-> doc]
    /\ snap = [c \in Applies |-> doc]
    /\ inflight = {}
    /\ landed = {}
    /\ outcome = [c \in Applies |-> ""]
    /\ loose = {}
    /\ writer = [s \in Sheets |-> {}]
    /\ clobbered = {}

-----------------------------------------------------------------------------
\* What a POST changes.

Scope(c) == IF Route[c] = "sheet" THEN {Target[c]} ELSE Sheets

\* The document apply c works from.
Seen(c) == IF Route[c] \in {"upsert", "artifact"} THEN snap[c] ELSE base[c]

Posted(c) == [Seen(c) EXCEPT ![Target[c]] = ApplyVersion(c)]

\* Desktop replaces the posted scope, whatever it holds by now.
After(c) == [s \in Sheets |-> IF s \in Scope(c) THEN Posted(c)[s] ELSE doc[s]]

Unseen(c) == {s \in Scope(c) : doc[s] # Seen(c)[s]}

-----------------------------------------------------------------------------
\* Tableau Desktop and its user.

UserEdit ==
    /\ edits < MaxEdits
    /\ edits' = edits + 1
    /\ \E s \in Sheets :
        /\ doc' = [doc EXCEPT ![s] = UserVersion(edits + 1)]
        /\ writer' = [writer EXCEPT ![s] = {}]
    /\ UNCHANGED <<tail, callVars, inflight, landed, loose, clobbered>>

Land(c) ==
    /\ c \in inflight
    /\ doc' = After(c)
    /\ inflight' = inflight \ {c}
    /\ landed' = landed \union {c}
    /\ writer' = [s \in Sheets |-> IF After(c)[s] = doc[s] THEN writer[s] ELSE {c}]
    /\ clobbered' = clobbered \union ({c} \X UNION {writer[s] : s \in Unseen(c)})
    /\ UNCHANGED <<edits, tail, callVars, loose>>

\* The POST is lost, refused or fails.  One that was reported completed is not.
Fail(c) ==
    /\ c \in inflight
    /\ pc[c] = "posted" \/ outcome[c] = "unknown"
    /\ inflight' = inflight \ {c}
    /\ UNCHANGED <<desktopVars, tail, callVars, landed, historyVars>>

Desktop == UserEdit \/ \E c \in Applies : Land(c) \/ Fail(c)

-----------------------------------------------------------------------------
\* The tools.

\* A tool reads the document its caller then edits.
Cache(c) ==
    /\ pc[c] = "idle"
    /\ pc' = [pc EXCEPT ![c] = "cached"]
    /\ base' = [base EXCEPT ![c] = doc]
    /\ UNCHANGED <<desktopVars, tail, snap, inflight, landed, outcome, historyVars>>

\* withApplyLock appends the call to the chain.
Submit(c) ==
    /\ pc[c] = "cached"
    /\ pc' = [pc EXCEPT ![c] = "waiting"]
    /\ tail' = Append(tail, c)
    /\ UNCHANGED <<desktopVars, base, snap, inflight, landed, outcome, historyVars>>

\* Mutant: the chain does not wait for the applies before.
TurnOfAny(c) == tail # <<>>

\* The chain runs one call at a time, in the order of the calls.
Turn(c) == tail # <<>> /\ Head(tail) = c

\* Mutant: a call that fails leaves the chain rejected and nothing runs after it.
LeaveOnSuccess(c, result) ==
    /\ pc' = [pc EXCEPT ![c] = "done"]
    /\ outcome' = [outcome EXCEPT ![c] = result]
    /\ tail' = IF result = "applied" THEN Tail(tail) ELSE tail
    /\ loose' = IF c \in inflight THEN loose \union {c} ELSE loose

\* The call returns or throws; either way the chain goes on.
Leave(c, result) ==
    /\ pc' = [pc EXCEPT ![c] = "done"]
    /\ outcome' = [outcome EXCEPT ![c] = result]
    /\ tail' = Tail(tail)
    /\ loose' = IF c \in inflight THEN loose \union {c} ELSE loose

\* Without a source hash a cached document is posted whatever is there by now.
Blind(c) == Route[c] \in {"workbook", "sheet"} /\ c \notin Hashed

\* Mutant: the sheet route compares nothing.
DriftedWorkbookOnly(c) == Route[c] = "workbook" /\ doc # base[c]

\* The comparison with the document the caller worked from: of the whole
\* workbook, or of the target sheet alone.
Drifted(c) ==
    /\ ~Blind(c)
    /\ \/ Route[c] = "workbook" /\ doc # base[c]
       \/ Route[c] \in {"artifact", "sheet"} /\ doc[Target[c]] # base[c][Target[c]]

\* A whole workbook that is posted blindly is posted without a read.
Read(c) ==
    /\ pc[c] = "waiting"
    /\ Turn(c)
    /\ \/ /\ ~(Blind(c) /\ Route[c] = "workbook")
          /\ Leave(c, "read-error")
          /\ UNCHANGED snap
       \/ /\ snap' = [snap EXCEPT ![c] = doc]
          /\ IF Drifted(c)
               THEN Leave(c, "drift")
               ELSE /\ pc' = [pc EXCEPT ![c] = "posting"]
                    /\ UNCHANGED <<tail, outcome, loose>>
    /\ UNCHANGED <<desktopVars, base, inflight, landed, writer, clobbered>>

\* Validation or the instance pin may stop the document before it is sent.
Post(c) ==
    /\ pc[c] = "posting"
    /\ \/ /\ Leave(c, "rejected")
          /\ UNCHANGED inflight
       \/ /\ pc' = [pc EXCEPT ![c] = "posted"]
          /\ inflight' = inflight \union {c}
          /\ UNCHANGED <<tail, outcome, loose>>
    /\ UNCHANGED <<desktopVars, base, snap, landed, writer, clobbered>>

\* Desktop reports the end of the operation.  A whole-workbook apply returns;
\* the others read back first.
Ended(c) ==
    /\ pc[c] = "posted"
    /\ \/ /\ c \in inflight \union landed
          /\ IF Route[c] = "workbook"
               THEN Leave(c, "applied")
               ELSE /\ pc' = [pc EXCEPT ![c] = "verifying"]
                    /\ UNCHANGED <<tail, outcome, loose>>
       \/ /\ c \notin inflight \union landed
          /\ Leave(c, "failed")
    /\ UNCHANGED <<desktopVars, base, snap, inflight, landed, writer, clobbered>>

\* Mutant: a call that times out posts once more.
GiveUpRetries(c) ==
    /\ pc[c] = "posted"
    /\ inflight' = inflight \union {c}
    /\ UNCHANGED <<desktopVars, tail, callVars, landed, historyVars>>

\* Timeout, abort, a lost poll, a blocking dialog: the caller is told that the
\* outcome is not known.
GiveUp(c) ==
    /\ pc[c] = "posted"
    /\ Leave(c, "unknown")
    /\ UNCHANGED <<desktopVars, base, snap, inflight, landed, writer, clobbered>>

\* Mutant: the first read is taken as settled, whatever it shows.
ReadBackTrusting(c) ==
    /\ pc[c] = "verifying"
    /\ Leave(c, "applied")
    /\ UNCHANGED <<desktopVars, base, snap, inflight, landed, writer, clobbered>>

\* pollReadback: the read shows the apply, or the attempts are used up, or a
\* read fails, which does not fail the apply.
ReadBack(c) ==
    /\ pc[c] = "verifying"
    /\ \/ doc[Target[c]] = ApplyVersion(c) /\ Leave(c, "applied")
       \/ Leave(c, "unsettled")
    /\ UNCHANGED <<desktopVars, base, snap, inflight, landed, writer, clobbered>>

Progress(c) == Read(c) \/ Post(c) \/ Ended(c) \/ GiveUp(c) \/ ReadBack(c)

Tool(c) == Cache(c) \/ Submit(c) \/ Progress(c)

Finished == (\A c \in Applies : pc[c] = "done") /\ UNCHANGED vars

Next == Desktop \/ (\E c \in Applies : Tool(c)) \/ Finished

Fairness == \A c \in Applies : WF_vars(Progress(c))

Spec == Init /\ [][Next]_vars
FairSpec == Spec /\ Fairness

-----------------------------------------------------------------------------
\* Properties.

\* An apply overwrites another apply's change that it has not seen only if one
\* of the two left the lock before its POST had landed, or its caller passed no
\* source hash: the chain and the comparison leave no other way.
ClobberNeedsLooseApply ==
    \A c, d \in Applies :
        <<c, d>> \in clobbered => Blind(c) \/ c \in loose \/ d \in loose

\* What the caller is told not to have been sent never lands, and what was read
\* back did land and is not lost to an apply that was still holding the lock.
OutcomeHolds ==
    \A c \in Applies :
        /\ outcome[c] \in {"read-error", "drift", "rejected", "failed"}
             => c \notin inflight \union landed
        /\ outcome[c] = "applied" /\ Route[c] # "workbook" => c \in landed \ loose

\* Every apply that enters the chain returns, also behind calls that failed.
EveryApplyReturns == \A c \in Applies : pc[c] = "waiting" ~> pc[c] = "done"

\* What applyMutex.ts promises: "Serialize every mutating apply through this
\* single chain so each read-modify-write runs to completion", so that no apply
\* clobbers another one.
NoApplyClobbered == clobbered = {}
=============================================================================
