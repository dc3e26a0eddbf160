---------------------------- MODULE DashboardBatch ----------------------------
(***************************************************************************)
(* run-dashboard-batch and the store of staged worksheets it takes from.   *)
(* A worksheet is built from a template and stored as an artifact.  A      *)
(* batch leases its artifacts, checks them against the workbook, deletes   *)
(* the dashboard it is to replace, and writes worksheets and dashboard in  *)
(* one document; apply-worksheet writes one artifact.  An artifact is good *)
(* for one write: it is consumed when the write is sent, and given back    *)
(* when it is not.  The receipt says what the caller may do next.          *)
(*                                                                         *)
(* All batches name one dashboard, and Desktop stays one instance.  The    *)
(* lock is that of DesktopApply, without the order of those who wait.      *)
(***************************************************************************)
EXTENDS Naturals, FiniteSets, SequencesExt

CONSTANTS
    Batches,   \* calls of run-dashboard-batch
    Singles,   \* calls of apply-worksheet with an artifact
    Artifacts, \* artifact ids
    Sheets,    \* worksheet names
    Target,    \* the worksheet an artifact is for
    Wanted,    \* the artifacts of a call, in order
    Replacing, \* batches with replaceExisting
    Capacity,  \* of the artifact store
    MaxEdits,  \* bound: the user's changes of worksheets
    None

Calls == Batches \cup Singles

ASSUME CallsAssumption == Batches \cap Singles = {} /\ None \notin Calls \cup Artifacts
ASSUME WantedAssumption ==
    /\ Target \in [Artifacts -> Sheets]
    /\ Wanted \in [Calls -> Seq(Artifacts)]
    /\ \A c \in Calls : IsInjective(Wanted[c])
    /\ \A c \in Singles : Len(Wanted[c]) = 1
ASSUME BoundsAssumption == Capacity \in Nat \ {0} /\ MaxEdits \in Nat

VARIABLES
    fate,    \* artifacts: unbuilt, stored, and the tombstones consumed and evicted
    recent,  \* the stored artifacts, the least recently used one first
    lease,   \* which call holds an artifact's lease
    built,   \* targetState: what the artifact's worksheet was when it was built
    doc,     \* the open workbook: who wrote a worksheet, the dashboard and whether it is hidden
    edits,   \* how often the user changed it
    lock,    \* who is in the apply lock
    pc,      \* where a call is
    read,    \* the workbook a batch checked its artifacts against
    base,    \* the workbook a call's document is made from
    phase,   \* removal.phase
    op,      \* the call's last command in Desktop
    answer,  \* its receipt
    spent,   \* history: the call that consumed an artifact
    deleted, \* history: calls whose delete was carried out
    written, \* history: calls whose document was
    raced,   \* history: calls whose document was on its way, checked, at a change by others
    undone   \* history: calls whose document was made without a change it replaced

store == <<fate, recent, lease, built>>
desktop == <<doc, edits>>
local == <<read, base, phase>>
history == <<deleted, written, raced, undone>>
vars == <<store, desktop, lock, pc, local, op, answer, spent, history>>

Writers == (0..MaxEdits) \cup Calls
Docs == [sheet : [Sheets -> Writers], dashboard : {"none", "old"} \cup Batches, hidden : BOOLEAN]
Idle == [kind |-> "none", state |-> "none"]
Answers == [applied : {"yes", "no", "unknown", "fatal"}, retrySafe : BOOLEAN,
            note : {"none", "sent", "hidden", "removed", "drifted", "ready"}]

ToDo(c) == ToSet(Wanted[c])
Targets(c) == {Target[a] : a \in ToDo(c)}

\* Between the check of the workbook and the end of the write it allows.
Committed(c) == pc[c] = "apply" \/ op[c] = [kind |-> "apply", state |-> "sent"]

\* A lease has its artifact stored and its call under way: none is left behind, and
\* no artifact is evicted or consumed by another call while it is leased.
TypeOK ==
    /\ fate \in [Artifacts -> {"unbuilt", "stored", "consumed", "evicted"}]
    /\ recent \in Seq(Artifacts) /\ IsInjective(recent) /\ Len(recent) <= Capacity
    /\ ToSet(recent) = {a \in Artifacts : fate[a] = "stored"}
    /\ lease \in [Artifacts -> Calls \cup {None}]
    /\ \A a \in Artifacts : lease[a] # None =>
          fate[a] = "stored" /\ a \in ToDo(lease[a]) /\ pc[lease[a]] \notin {"idle", "answered"}
    /\ built \in [Artifacts -> Writers]
    /\ doc \in Docs /\ edits \in 0..MaxEdits
    /\ lock \in Calls \cup {None}
    /\ pc \in [Calls -> {"idle", "read", "guardDelete", "delete", "deleting", "confirm",
                         "guardApply", "apply", "applying", "verify", "answered"}]
    /\ read \in [Calls -> Docs \cup {None}] /\ base \in [Calls -> Docs \cup {None}]
    /\ phase \in [Calls -> {"none", "sent", "removed", "ready"}]
    /\ op \in [Calls -> [kind : {"none", "delete", "apply"},
                         state : {"none", "sent", "done", "refused"}]]
    /\ answer \in [Calls -> Answers \cup {None}]

Init ==
    /\ fate = [a \in Artifacts |-> "unbuilt"]
    /\ recent = <<>>
    /\ lease = [a \in Artifacts |-> None]
    /\ built = [a \in Artifacts |-> 0]
    /\ doc = [sheet |-> [s \in Sheets |-> 0], dashboard |-> "old", hidden |-> FALSE]
    /\ edits = 0
    /\ lock = None
    /\ pc = [c \in Calls |-> "idle"]
    /\ read = [c \in Calls |-> None]
    /\ base = [c \in Calls |-> None]
    /\ phase = [c \in Calls |-> "none"]
    /\ op = [c \in Calls |-> Idle]
    /\ answer = [c \in Calls |-> None]
    /\ spent = [a \in Artifacts |-> None]
    /\ deleted = {}
    /\ written = {}
    /\ raced = {}
    /\ undone = {}

-----------------------------------------------------------------------------
\* TemplateArtifactStore

\* Mutant: the least recently used artifact goes, leased or not.
SpareAny(a) == {i \in DOMAIN recent : recent[i] # a}

\* evictLeastRecentlyUsedAvailable may take these.
Spare(a) == {i \in DOMAIN recent : recent[i] # a /\ lease[recent[i]] = None}

\* A sequence without some of its members.
Without(s, gone) ==
    LET kept[n \in 0..Len(s)] ==
          IF n = 0 THEN <<>>
          ELSE IF s[n] \in gone THEN kept[n - 1] ELSE Append(kept[n - 1], s[n])
    IN  kept[Len(s)]

\* build-worksheets-from-templates; at capacity with every artifact leased it fails.
Build(a) ==
    /\ fate[a] = "unbuilt"
    /\ built' = [built EXCEPT ![a] = doc.sheet[Target[a]]]
    /\ \/ /\ Len(recent) < Capacity
          /\ fate' = [fate EXCEPT ![a] = "stored"]
          /\ recent' = Append(recent, a)
       \/ /\ Len(recent) = Capacity
          /\ \E i \in Spare(a) :
               /\ \A j \in Spare(a) : i <= j
               /\ fate' = [fate EXCEPT ![a] = "stored", ![recent[i]] = "evicted"]
               /\ recent' = Append(Without(recent, {recent[i]}), a)
    /\ UNCHANGED <<lease, desktop, lock, pc, local, op, answer, spent, history>>

Used(some) == Without(recent, ToSet(some)) \o some

\* reserve, artifact by artifact, up to the first that is not available.
Available(a) == fate[a] = "stored" /\ lease[a] = None
FirstRefused(c, i) ==
    ~Available(Wanted[c][i]) /\ \A j \in 1..(i - 1) : Available(Wanted[c][j])
Reserved(c, i) == SubSeq(Wanted[c], 1, i - 1)

\* releaseReservations, in the finally: leases that were consumed are gone already.
Release(c) ==
    /\ lease' = [a \in Artifacts |-> IF lease[a] = c THEN None ELSE lease[a]]
    /\ recent' = Used(Without(Wanted[c], {a \in Artifacts : lease[a] # c}))
    /\ UNCHANGED <<fate, built, spent>>

\* Mutant: an artifact goes only once its document is known to be written.
ConsumeLater(c) == UNCHANGED <<store, spent>>

\* consumeReservations
Consume(c) ==
    /\ fate' = [a \in Artifacts |-> IF lease[a] = c THEN "consumed" ELSE fate[a]]
    /\ recent' = Without(recent, {a \in Artifacts : lease[a] = c})
    /\ lease' = [a \in Artifacts |-> IF lease[a] = c THEN None ELSE lease[a]]
    /\ spent' = [a \in Artifacts |-> IF lease[a] = c THEN c ELSE spent[a]]
    /\ UNCHANGED built

-----------------------------------------------------------------------------
\* Receipts

Leave(c) == lock' = IF lock = c THEN None ELSE lock

Answer(c, applied, retrySafe, note) ==
    /\ pc' = [pc EXCEPT ![c] = "answered"]
    /\ answer' = [answer EXCEPT ![c] = [applied |-> applied, retrySafe |-> retrySafe, note |-> note]]
    /\ read' = IF op[c] = [kind |-> "delete", state |-> "sent"] THEN read ELSE [read EXCEPT ![c] = None]
    /\ Release(c)
    /\ Leave(c)
    /\ UNCHANGED <<desktop, base, phase, op, history>>

\* preflightInputFailure: nothing was written, and the call may be repeated.
Refuse(c) == Answer(c, "no", TRUE, "none")

\* failBatch, with the note on the old dashboard that removalNote adds
Fail(c, note) == Answer(c, "unknown", FALSE, note)

\* getSessionFatalError: an error that says nothing of the batch
Fatal(c) == Answer(c, "fatal", FALSE, "none")

-----------------------------------------------------------------------------
\* A batch up to its first command

Begin(c) ==
    /\ pc[c] = "idle"
    /\ IF \A a \in ToDo(c) : Available(a)
       THEN /\ lease' = [a \in Artifacts |-> IF a \in ToDo(c) THEN c ELSE lease[a]]
            /\ recent' = Used(Wanted[c])
            /\ pc' = [pc EXCEPT ![c] = IF c \in Batches THEN "read" ELSE "guardApply"]
            /\ UNCHANGED answer
       ELSE /\ \E i \in DOMAIN Wanted[c] :
                 FirstRefused(c, i) /\ recent' = Used(Reserved(c, i))
            /\ pc' = [pc EXCEPT ![c] = "answered"]
            /\ answer' = [answer EXCEPT ![c] = [applied |-> "no", retrySafe |-> TRUE, note |-> "none"]]
            /\ UNCHANGED lease
    /\ UNCHANGED <<fate, built, desktop, lock, local, op, spent, history>>

\* artifactDriftReasons: some artifact's worksheet was changed since then.
Drifted(c, now) == \E a \in ToDo(c) : now.sheet[Target[a]] # built[a]

\* The workbook read and the checks on what it holds.  Any artifact may fail validation.
ReadRefused(c) ==
    /\ pc[c] = "read"
    /\ Refuse(c)

ReadWorkbook(c) ==
    /\ pc[c] = "read"
    /\ ~Drifted(c, doc)
    /\ doc.dashboard # "none" => c \in Replacing
    /\ read' = [read EXCEPT ![c] = doc]
    /\ base' = [base EXCEPT ![c] = doc]
    /\ pc' = [pc EXCEPT ![c] = IF doc.dashboard = "none" THEN "guardApply" ELSE "guardDelete"]
    /\ UNCHANGED <<store, desktop, lock, phase, op, answer, spent, history>>

-----------------------------------------------------------------------------
\* removeDashboard

\* deleteDashboardGuarded: in the lock, and only if the workbook is still the one read.
GuardDelete(c) ==
    /\ pc[c] = "guardDelete"
    /\ lock = None
    /\ doc = read[c]
    /\ lock' = c
    /\ pc' = [pc EXCEPT ![c] = "delete"]
    /\ UNCHANGED <<store, desktop, local, op, answer, spent, history>>

\* Drift, a read that failed, or an executor that found no instance
DeleteNotSent(c) ==
    /\ pc[c] \in {"guardDelete", "delete"}
    /\ lock \in {None, c}
    /\ Refuse(c) \/ Fatal(c)

\* Mutant: the removal is noted only when Desktop has answered.
SendingLater(c) == UNCHANGED phase

\* onDispatch
Sending(c) == phase' = [phase EXCEPT ![c] = "sent"]

SendDelete(c) ==
    /\ pc[c] = "delete"
    /\ Sending(c)
    /\ op' = [op EXCEPT ![c] = [kind |-> "delete", state |-> "sent"]]
    /\ pc' = [pc EXCEPT ![c] = "deleting"]
    /\ UNCHANGED <<store, desktop, lock, read, base, answer, spent, history>>

\* A build without the route has done nothing; any other failure may have done it.
DeleteFails(c) ==
    /\ pc[c] = "deleting"
    /\ \/ op[c].state = "refused" /\ Refuse(c)
       \/ Fail(c, phase[c])
       \/ Fatal(c)

\* The command is reported complete, which may be before Desktop shows it.
DeleteReported(c) ==
    /\ pc[c] = "deleting"
    /\ op[c].state \in {"sent", "done"}
    /\ Leave(c)
    /\ pc' = [pc EXCEPT ![c] = "confirm"]
    /\ UNCHANGED <<store, desktop, local, op, answer, spent, history>>

\* Reads until the dashboard is gone: it is not, or no read says so.
Unconfirmed(c) ==
    /\ pc[c] = "confirm"
    /\ \/ doc.dashboard # "none" /\ Fail(c, "hidden")
       \/ Fail(c, phase[c])
       \/ Fatal(c)

\* Mutant: the artifacts were checked before the dashboard was deleted.
AsReadTrusted(c) == TRUE

\* artifactDriftReasons, against the first read
AsRead(c) == \A s \in Targets(c) : doc.sheet[s] = read[c].sheet[s]

\* The rebuild starts from the workbook without the dashboard.  What the batch is to
\* write must be as it was, and its document must be valid.
Confirmed(c) ==
    /\ pc[c] = "confirm"
    /\ doc.dashboard = "none"
    /\ AsRead(c)
    /\ base' = [base EXCEPT ![c] = doc]
    /\ phase' = [phase EXCEPT ![c] = "ready"]
    /\ pc' = [pc EXCEPT ![c] = "guardApply"]
    /\ UNCHANGED <<store, desktop, lock, read, op, answer, spent, history>>

RebuildFails(c) ==
    /\ pc[c] = "confirm"
    /\ doc.dashboard = "none"
    /\ \E note \in {"removed", "drifted"} : Fail(c, note)

-----------------------------------------------------------------------------
\* The write

\* A batch has its document made from a workbook it read; an artifact is spliced into
\* the workbook read in the lock.
GuardApply(c) ==
    /\ pc[c] = "guardApply"
    /\ lock = None
    /\ IF c \in Batches THEN doc = base[c] ELSE ~Drifted(c, doc)
    /\ base' = [base EXCEPT ![c] = doc]
    /\ lock' = c
    /\ pc' = [pc EXCEPT ![c] = "apply"]
    /\ UNCHANGED <<store, desktop, read, phase, op, answer, spent, history>>

\* Mutant: a write that was not sent is a failed preflight, also of a replacement.
NotSentRefused(c) == Refuse(c)

NotSent(c) ==
    IF phase[c] = "none" THEN Refuse(c) ELSE \E note \in {"removed", "drifted"} : Fail(c, note)

\* Drift, invalid content, a failed read, no instance
ApplyNotSent(c) ==
    /\ pc[c] \in {"guardApply", "apply"}
    /\ lock \in {None, c}
    /\ NotSent(c) \/ Fatal(c)

\* onDispatch: a batch consumes its artifacts, apply-worksheet when the call ends.
SendApply(c) ==
    /\ pc[c] = "apply"
    /\ IF c \in Batches THEN Consume(c) ELSE UNCHANGED <<store, spent>>
    /\ op' = [op EXCEPT ![c] = [kind |-> "apply", state |-> "sent"]]
    /\ pc' = [pc EXCEPT ![c] = "applying"]
    /\ UNCHANGED <<desktop, lock, local, answer, history>>

BatchApplyFails(c) ==
    /\ pc[c] = "applying" /\ c \in Batches
    /\ Fail(c, phase[c]) \/ Fatal(c)

BatchReported(c) ==
    /\ pc[c] = "applying" /\ c \in Batches
    /\ op[c].state \in {"sent", "done"}
    /\ Leave(c)
    /\ pc' = [pc EXCEPT ![c] = "verify"]
    /\ UNCHANGED <<store, desktop, local, op, answer, spent, history>>

\* verifyBatchReadback: worksheets and dashboard are those of the document.
Verify(c) ==
    /\ pc[c] = "verify"
    /\ \/ /\ \A s \in Targets(c) : doc.sheet[s] = c
          /\ doc.dashboard = c /\ ~doc.hidden
          /\ Answer(c, "yes", FALSE, "none")
       \/ Fail(c, phase[c])
       \/ Fatal(c)

\* finalize of applyWorksheetArtifact, after the read back in the lock
SingleEnds(c) ==
    /\ pc[c] = "applying" /\ c \in Singles
    /\ \E applied \in {"unknown"} \cup (IF op[c].state = "refused" THEN {} ELSE {"yes"}) :
         answer' = [answer EXCEPT ![c] = [applied |-> applied, retrySafe |-> FALSE, note |-> "none"]]
    /\ Consume(c)
    /\ Leave(c)
    /\ pc' = [pc EXCEPT ![c] = "answered"]
    /\ UNCHANGED <<desktop, local, op, history>>

-----------------------------------------------------------------------------
\* Desktop and its user

Race(changers) == raced' = raced \cup {d \in Calls \ changers : Committed(d)}

\* A delete by id finds the dashboard that was read, if it is still there; Desktop may
\* hide it and not remove it.
CarryOutDelete(c) ==
    /\ op[c] = [kind |-> "delete", state |-> "sent"]
    /\ op' = [op EXCEPT ![c].state = "done"]
    /\ IF doc.dashboard # read[c].dashboard THEN UNCHANGED <<doc, deleted, raced>>
       ELSE /\ \/ doc' = [doc EXCEPT !.dashboard = "none", !.hidden = FALSE] /\ deleted' = deleted \cup {c}
               \/ doc' = [doc EXCEPT !.hidden = TRUE] /\ UNCHANGED deleted
            /\ Race({c})
    /\ UNCHANGED <<store, edits, lock, pc, local, answer, spent, written, undone>>

\* The workbook has a change that the document of c lacks, or a worksheet it replaces is
\* not the one its artifact was built for.
Undoes(c) == doc # base[c] \/ Drifted(c, doc)

CarryOutApply(c) ==
    /\ op[c] = [kind |-> "apply", state |-> "sent"]
    /\ op' = [op EXCEPT ![c].state = "done"]
    /\ doc' = [sheet |-> [s \in Sheets |-> IF s \in Targets(c) THEN c ELSE base[c].sheet[s]],
               dashboard |-> IF c \in Batches THEN c ELSE base[c].dashboard,
               hidden |-> IF c \in Batches THEN FALSE ELSE base[c].hidden]
    /\ undone' = IF Undoes(c) THEN undone \cup {c} ELSE undone
    /\ written' = written \cup {c}
    /\ Race({c})
    /\ UNCHANGED <<store, edits, lock, pc, local, answer, spent, deleted>>

\* An unknown route, or a command that failed before it did anything
CarryOutNothing(c) ==
    /\ op[c].state = "sent"
    /\ op' = [op EXCEPT ![c].state = "refused"]
    /\ UNCHANGED <<store, desktop, lock, pc, local, answer, spent, history>>

UserEdit ==
    /\ edits < MaxEdits
    /\ edits' = edits + 1
    /\ \E s \in Sheets : doc' = [doc EXCEPT !.sheet[s] = edits']
    /\ Race({})
    /\ UNCHANGED <<store, lock, pc, local, op, answer, spent, deleted, written, undone>>

-----------------------------------------------------------------------------
Step(c) ==
    \/ Begin(c) \/ ReadRefused(c) \/ ReadWorkbook(c)
    \/ GuardDelete(c) \/ DeleteNotSent(c) \/ SendDelete(c) \/ DeleteFails(c) \/ DeleteReported(c)
    \/ Unconfirmed(c) \/ Confirmed(c) \/ RebuildFails(c)
    \/ GuardApply(c) \/ ApplyNotSent(c) \/ SendApply(c) \/ BatchApplyFails(c) \/ BatchReported(c)
    \/ Verify(c) \/ SingleEnds(c)

Desktop(c) == CarryOutDelete(c) \/ CarryOutApply(c) \/ CarryOutNothing(c)

Next ==
    \/ \E a \in Artifacts : Build(a)
    \/ \E c \in Calls : Step(c) \/ Desktop(c)
    \/ UserEdit

Spec == Init /\ [][Next]_vars

-----------------------------------------------------------------------------
\* Properties

\* A receipt that calls a retry safe is right: the call did nothing in Desktop, nothing
\* of it is on the way, and it has taken none of its artifacts.
RetrySafeLeavesNothing ==
    \A c \in Calls : answer[c] # None /\ answer[c].retrySafe =>
      /\ op[c].state \in {"none", "refused"}
      /\ c \notin deleted \cup written
      /\ \A a \in Artifacts : spent[a] # c

\* Who deleted the dashboard and did not report a new one says what became of the old
\* one, unless the session is lost; where it says the new one was not applied it is not,
\* then or later.
OldDashboardIsToldOf ==
    \A c \in Batches : answer[c] # None =>
      /\ c \in deleted /\ answer[c].applied \notin {"yes", "fatal"} => answer[c].note # "none"
      /\ answer[c].note \in {"sent", "hidden", "removed", "drifted"} =>
            c \notin written /\ op[c] # [kind |-> "apply", state |-> "sent"]

\* An artifact is sent to Desktop by one call.
ArtifactSentOnce ==
    \A a \in Artifacts :
      Cardinality({c \in Calls : a \in ToDo(c) /\ op[c].kind = "apply"}) <= 1

\* A document undoes only changes made while it was on its way: what was changed before
\* the last check, also while the old dashboard was being deleted, is kept or stops the call.
UndoesOnlyInARace == undone \subseteq raced
=============================================================================
