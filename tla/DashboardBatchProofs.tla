------------------------- MODULE DashboardBatchProofs -------------------------
(***************************************************************************)
(* Theorems about DashboardBatch, for any batches, artifact applies,       *)
(* artifacts, worksheets, capacity of the store and edits by the user.     *)
(***************************************************************************)
EXTENDS DashboardBatch, FiniteSetTheorems, WellFoundedInduction, TLAPS

Pcs == {"idle", "read", "guardDelete", "delete", "deleting", "confirm",
        "guardApply", "apply", "applying", "verify", "answered"}
Ops == [kind : {"none", "delete", "apply"}, state : {"none", "sent", "done", "refused"}]
Notes == {"none", "sent", "hidden", "removed", "drifted", "ready"}
Applieds == {"yes", "no", "unknown", "fatal"}

\* The part of TypeOK the proofs need.
Types ==
    /\ fate \in [Artifacts -> {"unbuilt", "stored", "consumed", "evicted"}]
    /\ lease \in [Artifacts -> Calls \cup {None}]
    /\ spent \in [Artifacts -> Calls \cup {None}]
    /\ built = [a \in Artifacts |-> built[a]]
    /\ pc \in [Calls -> Pcs]
    /\ phase \in [Calls -> {"none", "sent", "removed", "ready"}]
    /\ op \in [Calls -> Ops]
    /\ answer \in [Calls -> Answers \cup {None}]
    /\ read = [c \in Calls |-> read[c]]
    /\ base = [c \in Calls |-> base[c]]

\* A receipt a call may give: it is right about the call's commands.
RightReceipt(c, applied, retrySafe, note) ==
    /\ retrySafe => op[c].state \in {"none", "refused"} /\ op[c].kind # "apply"
    /\ c \in Batches /\ phase[c] # "none" /\ applied \notin {"yes", "fatal"} =>
          note # "none" \/ op[c] = [kind |-> "delete", state |-> "refused"]
    /\ note \in {"sent", "hidden", "removed", "drifted"} => op[c].kind = "delete"

\* What a call's place says of its commands, and its receipt too.
Local(c) ==
    /\ pc[c] \in {"idle", "read", "guardDelete", "delete"} => op[c] = Idle /\ phase[c] = "none"
    /\ pc[c] \in {"deleting", "confirm"} => op[c].kind = "delete" /\ phase[c] = "sent"
    /\ pc[c] \in {"guardApply", "apply"} =>
          \/ phase[c] = "none" /\ op[c] = Idle
          \/ phase[c] = "ready" /\ op[c].kind = "delete"
    /\ pc[c] \in {"applying", "verify"} => op[c].kind = "apply" /\ phase[c] \in {"none", "ready"}
    /\ op[c].kind = "apply" => pc[c] \in {"applying", "verify", "answered"}
    /\ pc[c] \in {"read", "guardDelete", "delete", "deleting", "confirm", "verify"} => c \in Batches
    /\ c \notin Batches => phase[c] = "none"
    /\ op[c].kind = "none" <=> op[c].state = "none"
    /\ op[c].kind = "none" => phase[c] = "none"
    /\ op[c].kind = "delete" => phase[c] # "none"
    /\ c \in deleted => phase[c] # "none" /\ (op[c].kind = "delete" => op[c].state = "done")
    /\ c \in written => op[c] = [kind |-> "apply", state |-> "done"]
    /\ answer[c] # None => pc[c] = "answered"
    /\ answer[c] # None => RightReceipt(c, answer[c].applied, answer[c].retrySafe, answer[c].note)

\* A call that answers before its document is sent, or a batch that answers after it.
Closing(c) ==
    /\ pc[c] \notin {"idle", "answered"}
    /\ op[c].kind = "apply" => c \in Batches
    /\ \E applied \in Applieds, retrySafe \in BOOLEAN, note \in Notes :
         RightReceipt(c, applied, retrySafe, note) /\ Answer(c, applied, retrySafe, note)

Ending(c) ==
    \/ ReadRefused(c) \/ DeleteNotSent(c) \/ DeleteFails(c) \/ Unconfirmed(c) \/ RebuildFails(c)
    \/ ApplyNotSent(c) \/ BatchApplyFails(c) \/ Verify(c)

LEMMA EndingCloses ==
    ASSUME Types, NEW c \in Calls, Local(c), Ending(c)
    PROVE  Closing(c)
  <1> USE DEF Notes, Applieds
  <1>a. op[c] \in Ops /\ phase[c] \in {"none", "sent", "removed", "ready"} /\ pc[c] \in Pcs
    BY DEF Types
  <1>1. ASSUME Refuse(c), op[c].state \in {"none", "refused"}, op[c].kind # "apply",
               phase[c] # "none" => op[c] = [kind |-> "delete", state |-> "refused"],
               pc[c] \notin {"idle", "answered"}
        PROVE  Closing(c)
    BY <1>1 DEF Refuse, Closing, RightReceipt
  <1>2. ASSUME Fatal(c), pc[c] \notin {"idle", "answered"}, op[c].kind = "apply" => c \in Batches
        PROVE  Closing(c)
    BY <1>2 DEF Fatal, Closing, RightReceipt
  <1>3. ASSUME NEW note \in Notes, Fail(c, note), pc[c] \notin {"idle", "answered"},
               op[c].kind = "apply" => c \in Batches, phase[c] # "none" => note # "none",
               note \in {"sent", "hidden", "removed", "drifted"} => op[c].kind = "delete"
        PROVE  Closing(c)
    BY <1>3 DEF Fail, Closing, RightReceipt
  <1>4. CASE ReadRefused(c)
    BY <1>1, <1>4 DEF ReadRefused, Local, Idle
  <1>5. CASE DeleteNotSent(c)
    BY <1>1, <1>2, <1>5 DEF DeleteNotSent, Local, Idle
  <1>6. CASE DeleteFails(c)
    <2>1. pc[c] = "deleting" /\ op[c].kind = "delete" /\ phase[c] = "sent"
      BY <1>6 DEF DeleteFails, Local
    <2>2. CASE op[c].state = "refused" /\ Refuse(c)
      <3>1. op[c] = [kind |-> "delete", state |-> "refused"]
        BY <2>1, <2>2, <1>a DEF Ops
      <3> QED BY <3>1, <2>1, <2>2, <1>1
    <2>3. CASE Fail(c, phase[c])
      BY <2>1, <2>3, <1>3
    <2>4. CASE Fatal(c)
      BY <2>1, <2>4, <1>2
    <2> QED BY <2>2, <2>3, <2>4, <1>6 DEF DeleteFails
  <1>7. CASE Unconfirmed(c)
    <2>1. pc[c] = "confirm" /\ op[c].kind = "delete" /\ phase[c] = "sent"
      BY <1>7 DEF Unconfirmed, Local
    <2> QED BY <2>1, <1>7, <1>2, <1>3 DEF Unconfirmed
  <1>8. CASE RebuildFails(c)
    <2>1. pc[c] = "confirm" /\ op[c].kind = "delete" /\ phase[c] = "sent"
      BY <1>8 DEF RebuildFails, Local
    <2> QED BY <2>1, <1>8, <1>3 DEF RebuildFails
  <1>9. CASE ApplyNotSent(c)
    <2>1. pc[c] \in {"guardApply", "apply"}
      BY <1>9 DEF ApplyNotSent
    <2>2. CASE phase[c] = "none" /\ op[c] = Idle
      BY <2>1, <2>2, <1>9, <1>1, <1>2 DEF ApplyNotSent, NotSent, Idle
    <2>3. CASE phase[c] = "ready" /\ op[c].kind = "delete"
      BY <2>1, <2>3, <1>9, <1>2, <1>3 DEF ApplyNotSent, NotSent
    <2> QED BY <2>1, <2>2, <2>3 DEF Local
  <1>10. CASE BatchApplyFails(c)
    <2>1. pc[c] = "applying" /\ c \in Batches /\ phase[c] \in {"none", "ready"}
      BY <1>10 DEF BatchApplyFails, Local
    <2> QED BY <2>1, <1>10, <1>2, <1>3 DEF BatchApplyFails
  <1>11. CASE Verify(c)
    <2>1. pc[c] = "verify" /\ c \in Batches /\ phase[c] \in {"none", "ready"}
      BY <1>11 DEF Verify, Local
    <2>2. CASE Answer(c, "yes", FALSE, "none")
      BY <2>1, <2>2 DEF Closing, RightReceipt
    <2> QED BY <2>1, <2>2, <1>11, <1>2, <1>3 DEF Verify
  <1> QED BY <1>4, <1>5, <1>6, <1>7, <1>8, <1>9, <1>10, <1>11 DEF Ending

Moves(c) ==
    \/ ReadWorkbook(c) \/ GuardDelete(c) \/ SendDelete(c) \/ DeleteReported(c) \/ Confirmed(c)
    \/ GuardApply(c) \/ BatchReported(c)

LEMMA Cases ==
    ASSUME Types, \A c \in Calls : Local(c), [Next]_vars
    PROVE  \/ \E a \in Artifacts : Build(a)
           \/ \E c \in Calls : Begin(c)
           \/ \E c \in Calls : Closing(c)
           \/ \E c \in Calls : Moves(c)
           \/ \E c \in Calls : SendApply(c)
           \/ \E c \in Calls : SingleEnds(c)
           \/ \E c \in Calls : Desktop(c)
           \/ UserEdit
           \/ UNCHANGED vars
  <1>1. ASSUME NEW c \in Calls, Step(c)
        PROVE  \/ Begin(c) \/ Closing(c) \/ Moves(c) \/ SendApply(c) \/ SingleEnds(c)
    <2>1. CASE Ending(c)
      BY <2>1, EndingCloses
    <2> QED BY <1>1, <2>1 DEF Step, Ending, Moves
  <1> QED BY <1>1 DEF Next

LEMMA InitTypes == Init => Types
  BY DEF Init, Types, Pcs, Ops, Idle

LEMMA ReceiptType ==
    ASSUME NEW applied \in Applieds, NEW retrySafe \in BOOLEAN, NEW note \in Notes
    PROVE  [applied |-> applied, retrySafe |-> retrySafe, note |-> note] \in Answers
  BY DEF Applieds, Notes, Answers

LEMMA TypesStep ==
    ASSUME Types, \A c \in Calls : Local(c), [Next]_vars
    PROVE  Types'
  <1>1. ASSUME NEW a \in Artifacts, Build(a) PROVE Types'
    <2>1. fate' \in [Artifacts -> {"unbuilt", "stored", "consumed", "evicted"}]
      <3>1. CASE fate' = [fate EXCEPT ![a] = "stored"]
        BY <3>1 DEF Types
      <3>2. ASSUME NEW x, fate' = [fate EXCEPT ![a] = "stored", ![x] = "evicted"]
            PROVE  fate' \in [Artifacts -> {"unbuilt", "stored", "consumed", "evicted"}]
        BY <3>2 DEF Types
      <3> QED BY <1>1, <3>1, <3>2 DEF Build
    <2>2. built' = [b \in Artifacts |-> built'[b]]
      BY <1>1 DEF Build, Types
    <2> QED BY <1>1, <2>1, <2>2 DEF Build, Types, local, store, desktop, history
  <1>2. ASSUME NEW c \in Calls, Begin(c) PROVE Types'
    <2>1. [applied |-> "no", retrySafe |-> TRUE, note |-> "none"] \in Answers
      BY DEF Answers
    <2>2. pc' \in [Calls -> Pcs] /\ lease' \in [Artifacts -> Calls \cup {None}]
          /\ answer' \in [Calls -> Answers \cup {None}]
      <3>1. CASE \A a \in ToDo(c) : Available(a)
        <4>1. pc' = [pc EXCEPT ![c] = IF c \in Batches THEN "read" ELSE "guardApply"] /\ UNCHANGED answer
              /\ lease' = [a \in Artifacts |-> IF a \in ToDo(c) THEN c ELSE lease[a]]
          BY <1>2, <3>1 DEF Begin
        <4> QED BY <4>1 DEF Types, Pcs
      <3>2. CASE ~(\A a \in ToDo(c) : Available(a))
        <4>1. pc' = [pc EXCEPT ![c] = "answered"] /\ UNCHANGED lease
              /\ answer' = [answer EXCEPT ![c] = [applied |-> "no", retrySafe |-> TRUE, note |-> "none"]]
          BY <1>2, <3>2 DEF Begin
        <4> QED BY <4>1, <2>1 DEF Types, Pcs
      <3> QED BY <3>1, <3>2
    <2>3. UNCHANGED <<fate, built, spent, read, base, phase, op>>
      BY <1>2 DEF Begin, local
    <2> QED BY <2>2, <2>3 DEF Types
  <1>3. ASSUME NEW c \in Calls, Closing(c) PROVE Types'
    <2>1. PICK applied \in Applieds, retrySafe \in BOOLEAN, note \in Notes : Answer(c, applied, retrySafe, note)
      BY <1>3 DEF Closing
    <2>2. answer' \in [Calls -> Answers \cup {None}]
      BY <2>1, ReceiptType DEF Answer, Types
    <2>3. pc' \in [Calls -> Pcs] /\ read' = [d \in Calls |-> read'[d]]
      BY <2>1 DEF Answer, Types, Pcs
    <2>4. lease' \in [Artifacts -> Calls \cup {None}]
      BY <2>1 DEF Answer, Release, Types
    <2> QED BY <2>1, <2>2, <2>3, <2>4 DEF Answer, Release, Types, history
  <1>4. ASSUME NEW c \in Calls, Moves(c) PROVE Types'
    <2>1. pc' \in [Calls -> Pcs]
      BY <1>4 DEF Moves, Types, Pcs, ReadWorkbook, GuardDelete, SendDelete, DeleteReported, Confirmed,
            GuardApply, BatchReported
    <2>2. phase' \in [Calls -> {"none", "sent", "removed", "ready"}] /\ op' \in [Calls -> Ops]
      <3>1. CASE SendDelete(c)
        BY <3>1 DEF SendDelete, Sending, Types, Ops
      <3>2. CASE Confirmed(c)
        BY <3>2 DEF Confirmed, Types
      <3>3. CASE ReadWorkbook(c) \/ GuardDelete(c) \/ DeleteReported(c) \/ GuardApply(c) \/ BatchReported(c)
        BY <3>3 DEF ReadWorkbook, GuardDelete, DeleteReported, GuardApply, BatchReported, local, Types
      <3> QED BY <3>1, <3>2, <3>3, <1>4 DEF Moves
    <2>3. read' = [d \in Calls |-> read'[d]] /\ base' = [d \in Calls |-> base'[d]]
      BY <1>4 DEF Moves, Types, Sending, ReadWorkbook, GuardDelete, SendDelete, DeleteReported, Confirmed,
            GuardApply, BatchReported, local
    <2>4. UNCHANGED <<store, answer, spent>>
      BY <1>4 DEF Moves, ReadWorkbook, GuardDelete, SendDelete, DeleteReported, Confirmed, GuardApply,
            BatchReported
    <2> QED BY <2>1, <2>2, <2>3, <2>4 DEF Types, store
  <1>5. ASSUME NEW c \in Calls, SendApply(c) PROVE Types'
    <2>1. pc' \in [Calls -> Pcs] /\ op' \in [Calls -> Ops]
      BY <1>5 DEF SendApply, Types, Pcs, Ops
    <2>2. CASE Consume(c)
      BY <2>1, <2>2, <1>5 DEF SendApply, Consume, Types, local
    <2>3. CASE UNCHANGED <<store, spent>>
      BY <2>1, <2>3, <1>5 DEF SendApply, Types, local, store
    <2> QED BY <2>2, <2>3, <1>5 DEF SendApply
  <1>6. ASSUME NEW c \in Calls, SingleEnds(c) PROVE Types'
    <2>1. answer' \in [Calls -> Answers \cup {None}]
      BY <1>6 DEF SingleEnds, Types, Answers
    <2>2. pc' \in [Calls -> Pcs]
      BY <1>6 DEF SingleEnds, Types, Pcs
    <2> QED BY <2>1, <2>2, <1>6 DEF SingleEnds, Consume, Types, local
  <1>7. ASSUME NEW c \in Calls, Desktop(c) PROVE Types'
    <2>1. op' \in [Calls -> Ops]
      <3>1. PICK end \in {"done", "refused"} : op' = [op EXCEPT ![c].state = end]
        BY <1>7 DEF Desktop, CarryOutDelete, CarryOutApply, CarryOutNothing
      <3>2. op[c] \in Ops
        BY DEF Types
      <3>3. [op[c] EXCEPT !.state = end] \in Ops
        BY <3>2 DEF Ops
      <3> QED BY <3>1, <3>3 DEF Types
    <2>2. UNCHANGED <<store, pc, local, answer, spent>>
      BY <1>7 DEF Desktop, CarryOutDelete, CarryOutApply, CarryOutNothing
    <2> QED BY <2>1, <2>2 DEF Types, store, local
  <1>8. CASE UserEdit
    BY <1>8 DEF UserEdit, Types, store, local
  <1>9. CASE UNCHANGED vars
    BY <1>9 DEF vars, Types, store, local
  <1> QED BY <1>1, <1>2, <1>3, <1>4, <1>5, <1>6, <1>7, <1>8, <1>9, Cases

-----------------------------------------------------------------------------
\* What a call's place says holds from step to step.

Same(d) ==
    /\ pc'[d] = pc[d] /\ op'[d] = op[d] /\ phase'[d] = phase[d] /\ answer'[d] = answer[d]
    /\ d \in deleted' <=> d \in deleted
    /\ d \in written' <=> d \in written

LEMMA SameLocal ==
    ASSUME NEW d \in Calls, Local(d), Same(d)
    PROVE  Local(d)'
  BY DEF Same, Local, RightReceipt

LEMMA InitLocal == Init => \A c \in Calls : Local(c)
  BY DEF Init, Local, Idle

LEMMA LocalStep ==
    ASSUME Types, \A c \in Calls : Local(c), [Next]_vars
    PROVE  \A c \in Calls : Local(c)'
  <1>1. ASSUME NEW a \in Artifacts, Build(a) PROVE \A c \in Calls : Local(c)'
    BY <1>1, SameLocal DEF Build, Same, local, history
  <1>2. ASSUME NEW c \in Calls, Begin(c) PROVE \A d \in Calls : Local(d)'
    <2>1. \A d \in Calls \ {c} : Same(d)
      BY <1>2 DEF Begin, Same, Types, local, history
    <2>2. op[c] = Idle /\ phase[c] = "none" /\ answer[c] = None /\ pc[c] = "idle" /\ c \notin deleted \cup written
      BY <1>2 DEF Begin, Local, Idle
    <2>3. op'[c] = Idle /\ phase'[c] = "none" /\ c \notin deleted' \cup written'
      BY <1>2, <2>2 DEF Begin, local, history
    <2>4. CASE \A a \in ToDo(c) : Available(a)
      <3>1. pc'[c] = (IF c \in Batches THEN "read" ELSE "guardApply") /\ answer'[c] = None
        BY <1>2, <2>2, <2>4 DEF Begin, Types
      <3> QED BY <3>1, <2>1, <2>3, SameLocal DEF Local, Idle
    <2>5. CASE ~(\A a \in ToDo(c) : Available(a))
      <3>1. pc'[c] = "answered" /\ answer'[c] = [applied |-> "no", retrySafe |-> TRUE, note |-> "none"]
        BY <1>2, <2>5 DEF Begin, Types
      <3> QED BY <3>1, <2>1, <2>3, SameLocal DEF Local, RightReceipt, Idle
    <2> QED BY <2>4, <2>5
  <1>3. ASSUME NEW c \in Calls, Closing(c) PROVE \A d \in Calls : Local(d)'
    <2>1. PICK applied \in Applieds, retrySafe \in BOOLEAN, note \in Notes :
            RightReceipt(c, applied, retrySafe, note) /\ Answer(c, applied, retrySafe, note)
      BY <1>3 DEF Closing
    <2>2. \A d \in Calls \ {c} : Same(d)
      BY <2>1 DEF Answer, Same, Types, history
    <2>3. pc'[c] = "answered" /\ UNCHANGED <<op, phase, deleted, written>>
          /\ answer'[c] = [applied |-> applied, retrySafe |-> retrySafe, note |-> note]
      BY <2>1 DEF Answer, Types, history
    <2>4. Local(c)'
      BY <2>1, <2>3, <1>3 DEF Local, RightReceipt, Closing
    <2> QED BY <2>2, <2>4, SameLocal
  <1>4. ASSUME NEW c \in Calls, Moves(c) PROVE \A d \in Calls : Local(d)'
    <2>1. \A d \in Calls \ {c} : Same(d)
      BY <1>4 DEF Moves, ReadWorkbook, GuardDelete, SendDelete, Sending, DeleteReported, Confirmed,
            GuardApply, BatchReported, Same, Types, local, history
    <2>2. UNCHANGED <<answer, deleted, written>> /\ pc[c] # "answered"
      BY <1>4 DEF Moves, ReadWorkbook, GuardDelete, SendDelete, DeleteReported, Confirmed, GuardApply,
            BatchReported, history
    <2>3. answer[c] = None
      BY <2>2 DEF Local
    <2>4. CASE ReadWorkbook(c)
      <3>1. pc[c] = "read" /\ pc'[c] \in {"guardApply", "guardDelete"} /\ UNCHANGED <<op, phase>>
        BY <2>4 DEF ReadWorkbook, Types
      <3> QED BY <3>1, <2>1, <2>2, <2>3, SameLocal DEF Local
    <2>5. CASE GuardDelete(c)
      <3>1. pc[c] = "guardDelete" /\ pc'[c] = "delete" /\ UNCHANGED <<op, phase>>
        BY <2>5 DEF GuardDelete, Types, local
      <3> QED BY <3>1, <2>1, <2>2, <2>3, SameLocal DEF Local
    <2>6. CASE SendDelete(c)
      <3>1. pc[c] = "delete" /\ pc'[c] = "deleting" /\ phase'[c] = "sent"
            /\ op'[c] = [kind |-> "delete", state |-> "sent"]
        BY <2>6 DEF SendDelete, Sending, Types
      <3>2. c \notin deleted \cup written /\ c \in Batches
        BY <3>1 DEF Local, Idle
      <3> QED BY <3>1, <3>2, <2>1, <2>2, <2>3, SameLocal DEF Local
    <2>7. CASE DeleteReported(c)
      <3>1. pc[c] = "deleting" /\ pc'[c] = "confirm" /\ UNCHANGED <<op, phase>>
        BY <2>7 DEF DeleteReported, Types, local
      <3> QED BY <3>1, <2>1, <2>2, <2>3, SameLocal DEF Local
    <2>8. CASE Confirmed(c)
      <3>1. pc[c] = "confirm" /\ pc'[c] = "guardApply" /\ phase'[c] = "ready" /\ UNCHANGED op
        BY <2>8 DEF Confirmed, Types
      <3> QED BY <3>1, <2>1, <2>2, <2>3, SameLocal DEF Local
    <2>9. CASE GuardApply(c)
      <3>1. pc[c] = "guardApply" /\ pc'[c] = "apply" /\ UNCHANGED <<op, phase>>
        BY <2>9 DEF GuardApply, Types
      <3> QED BY <3>1, <2>1, <2>2, <2>3, SameLocal DEF Local
    <2>10. CASE BatchReported(c)
      <3>1. pc[c] = "applying" /\ pc'[c] = "verify" /\ c \in Batches /\ UNCHANGED <<op, phase>>
        BY <2>10 DEF BatchReported, Types, local
      <3> QED BY <3>1, <2>1, <2>2, <2>3, SameLocal DEF Local
    <2> QED BY <1>4, <2>4, <2>5, <2>6, <2>7, <2>8, <2>9, <2>10 DEF Moves
  <1>5. ASSUME NEW c \in Calls, SendApply(c) PROVE \A d \in Calls : Local(d)'
    <2>1. \A d \in Calls \ {c} : Same(d)
      BY <1>5 DEF SendApply, Same, Types, local, history
    <2>2. pc[c] = "apply" /\ pc'[c] = "applying" /\ op'[c] = [kind |-> "apply", state |-> "sent"]
          /\ UNCHANGED <<phase, answer, deleted, written>>
      BY <1>5 DEF SendApply, Types, local, history
    <2>3. answer[c] = None /\ phase[c] \in {"none", "ready"} /\ c \notin written
          /\ (c \in deleted => phase[c] # "none")
      BY <2>2 DEF Local, Idle
    <2> QED BY <2>1, <2>2, <2>3, SameLocal DEF Local
  <1>6. ASSUME NEW c \in Calls, SingleEnds(c) PROVE \A d \in Calls : Local(d)'
    <2>1. \A d \in Calls \ {c} : Same(d)
      BY <1>6 DEF SingleEnds, Same, Types, local, history
    <2>2. PICK applied : answer' =
            [answer EXCEPT ![c] = [applied |-> applied, retrySafe |-> FALSE, note |-> "none"]]
      BY <1>6 DEF SingleEnds
    <2>3. pc[c] = "applying" /\ c \in Singles /\ pc'[c] = "answered" /\ UNCHANGED <<op, phase, deleted, written>>
          /\ answer'[c] = [applied |-> applied, retrySafe |-> FALSE, note |-> "none"]
      BY <1>6, <2>2 DEF SingleEnds, Types, local, history
    <2>4. c \notin Batches
      BY <2>3, CallsAssumption
    <2> QED BY <2>1, <2>3, <2>4, SameLocal DEF Local, RightReceipt
  <1>7. ASSUME NEW c \in Calls, Desktop(c) PROVE \A d \in Calls : Local(d)'
    <2>1. \A d \in Calls \ {c} : Same(d)
      BY <1>7 DEF Desktop, CarryOutDelete, CarryOutApply, CarryOutNothing, Same, Types, local, history
    <2>2. UNCHANGED <<pc, phase, answer>> /\ op[c].state = "sent"
      <3>1. CASE CarryOutDelete(c)
        BY <3>1 DEF CarryOutDelete, local
      <3>2. CASE CarryOutApply(c)
        BY <3>2 DEF CarryOutApply, local
      <3>3. CASE CarryOutNothing(c)
        BY <3>3 DEF CarryOutNothing, local
      <3> QED BY <3>1, <3>2, <3>3, <1>7 DEF Desktop
    <2>3. op[c] \in Ops
      BY DEF Types
    <2>4. CASE CarryOutDelete(c)
      <3>1. op[c].kind = "delete" /\ op'[c] = [kind |-> "delete", state |-> "done"]
        BY <2>3, <2>4 DEF CarryOutDelete, Types, Ops
      <3>2. deleted' \subseteq deleted \cup {c} /\ UNCHANGED written
        BY <2>4 DEF CarryOutDelete
      <3>3. c \notin written'
        BY <3>1, <3>2 DEF Local
      <3> QED BY <3>1, <3>2, <3>3, <2>1, <2>2, <2>3, SameLocal DEF Local, RightReceipt, Ops
    <2>5. CASE CarryOutApply(c)
      <3>1. op[c].kind = "apply" /\ op'[c] = [kind |-> "apply", state |-> "done"]
        BY <2>3, <2>5 DEF CarryOutApply, Types, Ops
      <3>2. UNCHANGED deleted
        BY <2>5 DEF CarryOutApply
      <3>3. c \in written' <=> TRUE
        BY <2>5 DEF CarryOutApply
      <3>4. pc[c] \in {"applying", "verify", "answered"}
        BY <3>1 DEF Local
      <3>5. answer[c] # None => RightReceipt(c, answer[c].applied, answer[c].retrySafe, answer[c].note)'
        BY <3>1, <2>2 DEF Local, RightReceipt
      <3>6. Local(c)'
        BY <3>1, <3>2, <3>4, <3>5, <2>2 DEF Local
      <3> QED BY <3>6, <2>1, SameLocal
    <2>6. CASE CarryOutNothing(c)
      <3>1. op'[c] = [kind |-> op[c].kind, state |-> "refused"] /\ UNCHANGED <<deleted, written>>
        BY <2>3, <2>6 DEF CarryOutNothing, Types, Ops, history
      <3>2. c \notin written /\ (op[c].kind = "delete" => c \notin deleted)
        BY <2>2 DEF Local
      <3> QED BY <3>1, <3>2, <2>1, <2>2, <2>3, SameLocal DEF Local, RightReceipt, Ops
    <2> QED BY <2>4, <2>5, <2>6, <1>7 DEF Desktop
  <1>8. CASE UserEdit
    BY <1>8, SameLocal DEF UserEdit, Same, local
  <1>9. CASE UNCHANGED vars
    BY <1>9, SameLocal DEF vars, Same, local, history
  <1> QED BY <1>1, <1>2, <1>3, <1>4, <1>5, <1>6, <1>7, <1>8, <1>9, Cases

-----------------------------------------------------------------------------
\* The store: who works with its artifacts holds their leases, and who has sent its
\* document has consumed them.

Holds(c) ==
    \/ pc[c] \in {"read", "guardDelete", "delete", "deleting", "confirm", "guardApply", "apply"}
    \/ c \in Singles /\ pc[c] = "applying"

Leases ==
    /\ \A c \in Calls, a \in Artifacts : lease[a] = c =>
          fate[a] = "stored" /\ a \in ToDo(c) /\ Holds(c)
    /\ \A c \in Calls, a \in Artifacts : Holds(c) /\ a \in ToDo(c) => lease[a] = c
    /\ \A c \in Calls, a \in Artifacts : spent[a] = c =>
          fate[a] \in {"consumed", "evicted"} /\ op[c].kind = "apply"
    /\ \A c \in Calls, a \in Artifacts :
          op[c].kind = "apply" /\ ~Holds(c) /\ a \in ToDo(c) => spent[a] = c

LEMMA InitLeases == Init => Leases
  <1> SUFFICES ASSUME Init PROVE Leases
    OBVIOUS
  <1>1. None \notin Calls
    BY CallsAssumption
  <1>2. \A a \in Artifacts : lease[a] = None /\ spent[a] = None
    BY DEF Init
  <1>3. \A c \in Calls : pc[c] = "idle" /\ op[c] = Idle
    BY DEF Init
  <1> QED BY <1>1, <1>2, <1>3 DEF Leases, Holds, Idle

\* A step that changes nothing in the store, nor who works with its artifacts.
LEMMA SameLeases ==
    ASSUME Types, Leases, UNCHANGED <<fate, lease, spent>>,
           \A c \in Calls : (Holds(c)' <=> Holds(c)) /\ (op'[c].kind = "apply" <=> op[c].kind = "apply")
    PROVE  Leases'
  <1>1. \A a \in Artifacts : lease[a] \in Calls \cup {None} /\ spent[a] \in Calls \cup {None}
    BY DEF Types
  <1>2. \A c : ToDo(c)' = ToDo(c)
    BY DEF ToDo
  <1> QED BY <1>1, <1>2 DEF Leases

\* What a call consumes is its own.
LEMMA ConsumeLeases ==
    ASSUME Types, Leases, NEW c \in Calls, Consume(c), Holds(c), ~Holds(c)', op'[c].kind = "apply",
           \A d \in Calls \ {c} : (Holds(d)' <=> Holds(d)) /\ op'[d] = op[d]
    PROVE  Leases'
  <1>1. \A a \in Artifacts : lease[a] \in Calls \cup {None} /\ spent[a] \in Calls \cup {None}
    BY DEF Types
  <1>2. None \notin Calls
    BY CallsAssumption
  <1>3. ASSUME NEW a \in Artifacts
        PROVE  /\ fate'[a] = IF lease[a] = c THEN "consumed" ELSE fate[a]
               /\ lease'[a] = IF lease[a] = c THEN None ELSE lease[a]
               /\ spent'[a] = IF lease[a] = c THEN c ELSE spent[a]
    BY DEF Consume
  <1>4. \A d : ToDo(d)' = ToDo(d)
    BY DEF ToDo
  <1>5. ASSUME NEW d \in Calls, NEW a \in Artifacts, lease'[a] = d
        PROVE  fate'[a] = "stored" /\ a \in ToDo(d)' /\ Holds(d)'
    <2>1. lease[a] # c /\ lease[a] = d /\ fate'[a] = fate[a]
      BY <1>2, <1>3, <1>5
    <2>2. Holds(d) /\ fate[a] = "stored" /\ a \in ToDo(d)
      BY <2>1 DEF Leases
    <2>3. Holds(d)'
      BY <2>1, <2>2
    <2> QED BY <2>1, <2>2, <2>3, <1>4
  <1>6. ASSUME NEW d \in Calls, NEW a \in Artifacts, Holds(d)', a \in ToDo(d)'
        PROVE  lease'[a] = d
    <2>1. d # c /\ Holds(d) /\ a \in ToDo(d)
      BY <1>4, <1>6
    <2>2. lease[a] = d
      BY <2>1 DEF Leases
    <2> QED BY <2>1, <2>2, <1>3
  <1>7. ASSUME NEW d \in Calls, NEW a \in Artifacts, spent'[a] = d
        PROVE  fate'[a] \in {"consumed", "evicted"} /\ op'[d].kind = "apply"
    <2>1. CASE lease[a] = c
      <3>1. d = c /\ fate'[a] = "consumed"
        BY <2>1, <1>3, <1>7
      <3> QED BY <3>1
    <2>2. CASE lease[a] # c
      <3>1. spent[a] = d /\ fate'[a] = fate[a]
        BY <2>2, <1>3, <1>7
      <3>2. fate[a] \in {"consumed", "evicted"} /\ op[d].kind = "apply"
        BY <3>1 DEF Leases
      <3> QED BY <3>1, <3>2
    <2> QED BY <2>1, <2>2
  <1>8. ASSUME NEW d \in Calls, NEW a \in Artifacts, op'[d].kind = "apply", ~Holds(d)', a \in ToDo(d)'
        PROVE  spent'[a] = d
    <2>1. CASE d = c
      BY <2>1, <1>3, <1>4, <1>8 DEF Leases
    <2>2. CASE d # c
      <3>1. spent[a] = d
        BY <2>2, <1>4, <1>8 DEF Leases
      <3>2. lease[a] # c
        BY <3>1, <1>2 DEF Leases
      <3> QED BY <3>1, <3>2, <1>3
    <2> QED BY <2>1, <2>2
  <1> QED BY <1>5, <1>6, <1>7, <1>8 DEF Leases

LEMMA LeasesStep ==
    ASSUME Types, \A c \in Calls : Local(c), Leases, [Next]_vars
    PROVE  Leases'
  <1>t. \A a \in Artifacts : lease[a] \in Calls \cup {None} /\ spent[a] \in Calls \cup {None}
    BY DEF Types
  <1>n. None \notin Calls
    BY CallsAssumption
  <1>d. \A d : ToDo(d)' = ToDo(d)
    BY DEF ToDo
  <1>1. ASSUME NEW b \in Artifacts, Build(b) PROVE Leases'
    <2>1. UNCHANGED <<lease, pc, op, spent>> /\ fate[b] = "unbuilt"
      BY <1>1 DEF Build
    <2>2. \A a \in Artifacts : lease[a] # None => fate'[a] = "stored"
      <3>1. CASE fate' = [fate EXCEPT ![b] = "stored"]
        BY <3>1 DEF Leases, Types
      <3>2. ASSUME NEW i \in Spare(b), fate' = [fate EXCEPT ![b] = "stored", ![recent[i]] = "evicted"]
            PROVE  \A a \in Artifacts : lease[a] # None => fate'[a] = "stored"
        BY <3>2 DEF Leases, Types, Spare
      <3> QED BY <1>1, <3>1, <3>2 DEF Build
    <2>3. \A a \in Artifacts : fate[a] \in {"consumed", "evicted"} => fate'[a] \in {"consumed", "evicted"}
      <3>1. CASE fate' = [fate EXCEPT ![b] = "stored"]
        BY <3>1, <2>1 DEF Types
      <3>2. ASSUME NEW i \in Spare(b), fate' = [fate EXCEPT ![b] = "stored", ![recent[i]] = "evicted"]
            PROVE  \A a \in Artifacts : fate[a] \in {"consumed", "evicted"} => fate'[a] \in {"consumed", "evicted"}
        BY <3>2, <2>1 DEF Types
      <3> QED BY <1>1, <3>1, <3>2 DEF Build
    <2>4. \A c : Holds(c)' <=> Holds(c)
      BY <2>1 DEF Holds
    <2> QED BY <2>1, <2>2, <2>3, <2>4, <1>d, <1>n DEF Leases
  <1>2. ASSUME NEW c \in Calls, Begin(c) PROVE Leases'
    <2>1. UNCHANGED <<fate, op, spent>> /\ pc[c] = "idle" /\ op[c] = Idle
      BY <1>2 DEF Begin, Local
    <2>2. \A d \in Calls \ {c} : Holds(d)' <=> Holds(d)
      BY <1>2 DEF Begin, Holds, Types
    <2>3. ~Holds(c)
      BY <2>1 DEF Holds
    <2>4. CASE \A a \in ToDo(c) : Available(a)
      <3>1. \A a \in Artifacts : lease'[a] = IF a \in ToDo(c) THEN c ELSE lease[a]
        BY <1>2, <2>4 DEF Begin
      <3>2. pc'[c] \in {"read", "guardApply"}
        BY <1>2, <2>4 DEF Begin, Types
      <3>3. Holds(c)'
        BY <3>2 DEF Holds
      <3>4. \A a \in ToDo(c) : fate[a] = "stored" /\ lease[a] = None
        BY <2>4 DEF Available
      <3>5. ASSUME NEW d \in Calls, NEW a \in Artifacts, lease'[a] = d
            PROVE  fate'[a] = "stored" /\ a \in ToDo(d)' /\ Holds(d)'
        <4>1. CASE a \in ToDo(c)
          <5>1. d = c /\ fate[a] = "stored"
            BY <4>1, <3>1, <3>4, <3>5
          <5> QED BY <4>1, <5>1, <3>3, <2>1, <1>d
        <4>2. CASE a \notin ToDo(c)
          <5>1. lease[a] = d
            BY <4>2, <3>1, <3>5
          <5>2. Holds(d) /\ fate[a] = "stored" /\ a \in ToDo(d)
            BY <5>1 DEF Leases
          <5>3. Holds(d)'
            BY <5>2, <2>2, <2>3
          <5> QED BY <5>2, <5>3, <2>1, <1>d
        <4> QED BY <4>1, <4>2
      <3>6. ASSUME NEW d \in Calls, NEW a \in Artifacts, Holds(d)', a \in ToDo(d)'
            PROVE  lease'[a] = d
        <4>1. CASE d = c
          BY <4>1, <3>1, <3>6, <1>d
        <4>2. CASE d # c
          <5>1. lease[a] = d
            BY <4>2, <3>6, <2>2, <1>d DEF Leases
          <5>2. a \notin ToDo(c)
            BY <5>1, <3>4, <1>n
          <5> QED BY <5>1, <5>2, <3>1
        <4> QED BY <4>1, <4>2
      <3>7. ASSUME NEW d \in Calls, NEW a \in Artifacts, op'[d].kind = "apply", ~Holds(d)', a \in ToDo(d)'
            PROVE  spent'[a] = d
        <4>1. d # c
          BY <3>3, <3>7
        <4> QED BY <4>1, <3>7, <2>1, <2>2, <1>d DEF Leases
      <3> QED BY <3>5, <3>6, <3>7, <2>1 DEF Leases
    <2>5. CASE ~(\A a \in ToDo(c) : Available(a))
      <3>1. UNCHANGED lease /\ pc'[c] = "answered"
        BY <1>2, <2>5 DEF Begin, Types
      <3>2. ~Holds(c)'
        BY <3>1 DEF Holds
      <3> QED BY <3>1, <3>2, <2>1, <2>2, <2>3, SameLeases
    <2> QED BY <2>4, <2>5
  <1>3. ASSUME NEW c \in Calls, Closing(c) PROVE Leases'
    <2>1. UNCHANGED <<fate, op, spent>> /\ pc' = [pc EXCEPT ![c] = "answered"]
          /\ lease' = [a \in Artifacts |-> IF lease[a] = c THEN None ELSE lease[a]]
      BY <1>3 DEF Closing, Answer, Release, history
    <2>2. \A d \in Calls \ {c} : Holds(d)' <=> Holds(d)
      BY <2>1 DEF Holds, Types
    <2>3. ~Holds(c)'
      BY <2>1 DEF Holds, Types
    <2>4. op[c].kind = "apply" => ~Holds(c)
      BY <1>3, CallsAssumption DEF Closing, Local, Holds
    <2>5. ASSUME NEW d \in Calls, NEW a \in Artifacts, lease'[a] = d
          PROVE  fate'[a] = "stored" /\ a \in ToDo(d)' /\ Holds(d)'
      <3>1. lease[a] = d /\ d # c
        BY <2>1, <2>5, <1>n
      <3>2. Holds(d) /\ fate[a] = "stored" /\ a \in ToDo(d)
        BY <3>1 DEF Leases
      <3>3. Holds(d)'
        BY <3>1, <3>2, <2>2
      <3> QED BY <3>2, <3>3, <2>1, <1>d
    <2>6. ASSUME NEW d \in Calls, NEW a \in Artifacts, Holds(d)', a \in ToDo(d)'
          PROVE  lease'[a] = d
      BY <2>1, <2>2, <2>3, <2>6, <1>d DEF Leases
    <2>7. ASSUME NEW d \in Calls, NEW a \in Artifacts, op'[d].kind = "apply", ~Holds(d)', a \in ToDo(d)'
          PROVE  spent'[a] = d
      BY <2>1, <2>2, <2>4, <2>7, <1>d DEF Leases
    <2> QED BY <2>1, <2>5, <2>6, <2>7 DEF Leases
  <1>4. ASSUME NEW c \in Calls, Moves(c) PROVE Leases'
    <2>1. UNCHANGED <<fate, lease, spent>>
      BY <1>4 DEF Moves, ReadWorkbook, GuardDelete, SendDelete, DeleteReported, Confirmed, GuardApply,
            BatchReported, store
    <2>2. \A d \in Calls \ {c} : pc'[d] = pc[d] /\ op'[d] = op[d]
      BY <1>4 DEF Moves, ReadWorkbook, GuardDelete, SendDelete, DeleteReported, Confirmed, GuardApply,
            BatchReported, Types
    <2>3. (Holds(c)' <=> Holds(c)) /\ (op'[c].kind = "apply" <=> op[c].kind = "apply")
      <3>1. CASE BatchReported(c)
        BY <3>1, CallsAssumption DEF BatchReported, Types, Holds
      <3>2. CASE SendDelete(c)
        BY <3>2 DEF SendDelete, Types, Holds, Local, Idle
      <3>3. CASE ReadWorkbook(c) \/ GuardDelete(c) \/ DeleteReported(c) \/ Confirmed(c) \/ GuardApply(c)
        BY <3>3 DEF ReadWorkbook, GuardDelete, DeleteReported, Confirmed, GuardApply, Types, Holds
      <3> QED BY <3>1, <3>2, <3>3, <1>4 DEF Moves
    <2>4. \A d \in Calls \ {c} : Holds(d)' <=> Holds(d)
      BY <2>2 DEF Holds
    <2> QED BY <2>1, <2>2, <2>3, <2>4, SameLeases
  <1>5. ASSUME NEW c \in Calls, SendApply(c) PROVE Leases'
    <2>1. pc[c] = "apply" /\ pc' = [pc EXCEPT ![c] = "applying"]
          /\ op' = [op EXCEPT ![c] = [kind |-> "apply", state |-> "sent"]]
      BY <1>5 DEF SendApply
    <2>2. \A d \in Calls \ {c} : (Holds(d)' <=> Holds(d)) /\ op'[d] = op[d]
      BY <2>1 DEF Holds, Types
    <2>3. Holds(c) /\ op'[c].kind = "apply" /\ pc'[c] = "applying"
      BY <2>1 DEF Holds, Types
    <2>4. CASE c \in Batches
      <3>1. ~Holds(c)'
        BY <2>3, <2>4, CallsAssumption DEF Holds
      <3> QED BY <3>1, <2>2, <2>3, <2>4, <1>5, ConsumeLeases DEF SendApply
    <2>5. CASE c \notin Batches
      <3>1. Holds(c)' /\ UNCHANGED <<fate, lease, spent>>
        BY <2>3, <2>5, <1>5 DEF Holds, SendApply, store, Calls
      <3>2. ASSUME NEW a \in Artifacts, spent[a] # None PROVE op'[spent[a]].kind = "apply"
        BY <3>2, <2>2, <2>3, <1>t DEF Leases
      <3> QED BY <3>1, <3>2, <2>2, <2>3, <1>d, <1>t DEF Leases
    <2> QED BY <2>4, <2>5
  <1>6. ASSUME NEW c \in Calls, SingleEnds(c) PROVE Leases'
    <2>1. pc[c] = "applying" /\ c \in Singles /\ pc' = [pc EXCEPT ![c] = "answered"] /\ UNCHANGED op
      BY <1>6 DEF SingleEnds
    <2>2. Holds(c) /\ ~Holds(c)' /\ \A d \in Calls \ {c} : Holds(d)' <=> Holds(d)
      BY <2>1 DEF Holds, Types
    <2>3. op'[c].kind = "apply" /\ Consume(c)
      BY <2>1, <1>6 DEF Local, SingleEnds
    <2> QED BY <2>1, <2>2, <2>3, ConsumeLeases
  <1>7. ASSUME NEW c \in Calls, Desktop(c) PROVE Leases'
    <2>1. UNCHANGED <<fate, lease, spent, pc>>
      BY <1>7 DEF Desktop, CarryOutDelete, CarryOutApply, CarryOutNothing, store
    <2>2. PICK end : op' = [op EXCEPT ![c].state = end]
      BY <1>7 DEF Desktop, CarryOutDelete, CarryOutApply, CarryOutNothing
    <2>3. \A d \in Calls : op'[d].kind = op[d].kind
      BY <2>2 DEF Types, Ops
    <2>4. \A d \in Calls : Holds(d)' <=> Holds(d)
      BY <2>1 DEF Holds
    <2> QED BY <2>1, <2>3, <2>4, SameLeases
  <1>8. CASE UserEdit \/ UNCHANGED vars
    <2>1. UNCHANGED <<fate, lease, spent, pc, op>>
      BY <1>8 DEF UserEdit, vars, store
    <2> QED BY <2>1, SameLeases DEF Holds
  <1> QED BY <1>1, <1>2, <1>3, <1>4, <1>5, <1>6, <1>7, <1>8, Cases

-----------------------------------------------------------------------------
\* The workbook a document is made from: it is the open one until something else changes
\* that one, and the artifacts of the call were built for what it replaces.

RaceOf(c) ==
    /\ Committed(c) /\ c \notin raced => doc = base[c] /\ ~Drifted(c, doc)
    /\ pc[c] \in {"guardDelete", "delete", "deleting", "confirm"} => ~Drifted(c, read[c])
    /\ pc[c] = "guardApply" /\ c \in Batches => ~Drifted(c, base[c])
    /\ pc[c] \in {"guardDelete", "delete"} \/ op[c] = [kind |-> "delete", state |-> "sent"] =>
          read[c].dashboard # "none"
    /\ pc[c] \in {"guardApply", "apply"} /\ phase[c] = "ready" => base[c].dashboard = "none"

Races == (\A c \in Calls : RaceOf(c)) /\ undone \subseteq raced

LEMMA InitRaces == Init => Races
  BY DEF Init, Races, RaceOf, Committed, Idle, Calls

\* What a call works with stays as it was built.
LEMMA BuiltStays ==
    ASSUME Types, Leases, \A c \in Calls : Local(c), [Next]_vars,
           NEW c \in Calls, Holds(c) \/ op[c].kind = "apply"
    PROVE  \A w : Drifted(c, w)' <=> Drifted(c, w)
  <1>1. ASSUME NEW a \in ToDo(c) PROVE built'[a] = built[a]
    <2>1. a \in Artifacts
      <3>1. Wanted[c] \in Seq(Artifacts)
        BY WantedAssumption
      <3>2. PICK i \in DOMAIN Wanted[c] : a = Wanted[c][i]
        BY <1>1 DEF ToDo, ToSet
      <3>3. PICK q \in Seq(Artifacts) : q = Wanted[c]
        BY <3>1
      <3>4. i \in DOMAIN q /\ a = q[i]
        BY <3>2, <3>3
      <3> QED BY <3>4
    <2>2. fate[a] # "unbuilt"
      BY <2>1, <1>1 DEF Leases
    <2>3. ASSUME NEW b \in Artifacts, Build(b) PROVE built'[a] = built[a]
      BY <2>1, <2>2, <2>3 DEF Build, Types
    <2>4. ASSUME ~(\E b \in Artifacts : Build(b)) PROVE UNCHANGED built
      <3>1. ASSUME NEW d \in Calls, Begin(d) \/ SendApply(d) \/ SingleEnds(d) PROVE UNCHANGED built
        BY <3>1 DEF Begin, SendApply, SingleEnds, Consume, store
      <3>2. ASSUME NEW d \in Calls, Closing(d) PROVE UNCHANGED built
        BY <3>2 DEF Closing, Answer, Release
      <3>3. ASSUME NEW d \in Calls, Moves(d) PROVE UNCHANGED built
        BY <3>3 DEF Moves, ReadWorkbook, GuardDelete, SendDelete, DeleteReported, Confirmed, GuardApply,
              BatchReported, store
      <3>4. ASSUME NEW d \in Calls, Desktop(d) PROVE UNCHANGED built
        BY <3>4 DEF Desktop, CarryOutDelete, CarryOutApply, CarryOutNothing, store
      <3>5. CASE UserEdit \/ UNCHANGED vars
        BY <3>5 DEF UserEdit, vars, store
      <3> QED BY <2>4, <3>1, <3>2, <3>3, <3>4, <3>5, Cases
    <2> QED BY <2>3, <2>4
  <1> QED BY <1>1 DEF Drifted, ToDo

Stays(d) ==
    /\ pc'[d] = pc[d] /\ op'[d] = op[d] /\ phase'[d] = phase[d]
    /\ read'[d] = read[d] /\ base'[d] = base[d]

\* A step of another call, or beside all of them, which may change the workbook only if
\* the call's document is not on its way or it counts as a race.
LEMMA StaysRaceOf ==
    ASSUME Types, Leases, \A c \in Calls : Local(c), [Next]_vars,
           NEW d \in Calls, RaceOf(d), Stays(d), raced \subseteq raced',
           Committed(d) /\ d \notin raced' => doc' = doc
    PROVE  RaceOf(d)'
  <1>1. Committed(d)' <=> Committed(d)
    BY DEF Stays, Committed
  <1>2. Committed(d) => Holds(d) \/ op[d].kind = "apply"
    BY DEF Committed, Holds
  <1>3. pc[d] \in {"guardDelete", "delete", "deleting", "confirm", "guardApply"} => Holds(d)
    BY DEF Holds
  <1>4. Holds(d) \/ op[d].kind = "apply" => \A w : Drifted(d, w)' <=> Drifted(d, w)
    BY BuiltStays
  <1>5. (Committed(d) /\ d \notin raced => doc = base[d] /\ ~Drifted(d, doc))'
    <2> SUFFICES ASSUME Committed(d), d \notin raced'
                 PROVE  doc' = base'[d] /\ ~Drifted(d, doc)'
      BY <1>1
    <2>1. doc = base[d] /\ ~Drifted(d, doc) /\ doc' = doc /\ base'[d] = base[d]
      BY DEF RaceOf, Stays
    <2>2. PICK w : w = doc
      OBVIOUS
    <2>3. ~Drifted(d, w)'
      BY <1>2, <1>4, <2>1, <2>2
    <2> QED BY <2>1, <2>2, <2>3
  <1>6. (pc[d] \in {"guardDelete", "delete", "deleting", "confirm"} => ~Drifted(d, read[d]))'
    <2> SUFFICES ASSUME pc[d] \in {"guardDelete", "delete", "deleting", "confirm"}
                 PROVE  ~Drifted(d, read[d])'
      BY DEF Stays
    <2>1. PICK w : w = read[d]
      OBVIOUS
    <2>2. ~Drifted(d, w)'
      BY <1>3, <1>4, <2>1 DEF RaceOf
    <2> QED BY <2>1, <2>2 DEF Stays
  <1>7. (pc[d] = "guardApply" /\ d \in Batches => ~Drifted(d, base[d]))'
    <2> SUFFICES ASSUME pc[d] = "guardApply", d \in Batches
                 PROVE  ~Drifted(d, base[d])'
      BY DEF Stays
    <2>1. PICK w : w = base[d]
      OBVIOUS
    <2>2. ~Drifted(d, w)'
      BY <1>3, <1>4, <2>1 DEF RaceOf
    <2> QED BY <2>1, <2>2 DEF Stays
  <1> QED BY <1>5, <1>6, <1>7 DEF RaceOf, Stays

\* The call that moves: its document is checked against the open workbook in the lock, and
\* a check of the artifacts carries over from one read to the next.
LEMMA MovesRaceOf ==
    ASSUME Types, Leases, \A c \in Calls : Local(c), [Next]_vars,
           NEW c \in Calls, RaceOf(c), Moves(c)
    PROVE  RaceOf(c)'
  <1>h. Holds(c) \/ op[c].kind = "apply"
    BY DEF Moves, Holds, Local, ReadWorkbook, GuardDelete, SendDelete, DeleteReported, Confirmed,
          GuardApply, BatchReported
  <1>b. \A w : Drifted(c, w)' <=> Drifted(c, w)
    BY <1>h, BuiltStays
  <1>l. Local(c)
    OBVIOUS
  <1>1. CASE ReadWorkbook(c)
    <2>1. PICK w : w = doc
      OBVIOUS
    <2>2. ~Drifted(c, w)' /\ read'[c] = w /\ base'[c] = w
      BY <1>1, <1>b, <2>1 DEF ReadWorkbook, Types
    <2>3. pc'[c] = (IF w.dashboard = "none" THEN "guardApply" ELSE "guardDelete")
      BY <1>1, <2>1 DEF ReadWorkbook, Types
    <2>4. op'[c] = Idle /\ phase'[c] = "none"
      BY <1>1, <1>l DEF ReadWorkbook, Local
    <2> QED BY <2>2, <2>3, <2>4 DEF RaceOf, Committed, Idle
  <1>2. CASE GuardDelete(c) \/ SendDelete(c) \/ DeleteReported(c)
    <2>1. PICK w : w = read[c]
      OBVIOUS
    <2>2. pc[c] \in {"guardDelete", "delete", "deleting"} /\ read'[c] = w
      BY <1>2, <2>1 DEF GuardDelete, SendDelete, DeleteReported, local
    <2>3. ~Drifted(c, w)'
      BY <1>b, <2>1, <2>2 DEF RaceOf
    <2>4. pc'[c] \in {"delete", "deleting", "confirm"} /\ op'[c].kind # "apply"
      BY <1>2, <1>l DEF GuardDelete, SendDelete, DeleteReported, Types, Local, Idle
    <2>5. pc[c] \in {"guardDelete", "delete"} \/ op[c] = [kind |-> "delete", state |-> "sent"]
          \/ (pc'[c] = "confirm" /\ op'[c] = op[c])
      BY <1>2 DEF GuardDelete, SendDelete, DeleteReported, Types
    <2>6. pc'[c] \in {"guardDelete", "delete"} \/ op'[c] = [kind |-> "delete", state |-> "sent"]
          => w.dashboard # "none"
      BY <2>1, <2>5 DEF RaceOf
    <2> QED BY <2>2, <2>3, <2>4, <2>6 DEF RaceOf, Committed
  <1>3. CASE Confirmed(c)
    <2>1. PICK w : w = doc
      OBVIOUS
    <2>2. ~Drifted(c, read[c]) /\ \A s \in Targets(c) : w.sheet[s] = read[c].sheet[s]
      BY <1>3, <2>1 DEF Confirmed, RaceOf, AsRead
    <2>3. ~Drifted(c, w)
      BY <2>2 DEF Drifted, Targets
    <2>4. ~Drifted(c, w)'
      BY <2>3, <1>b
    <2>5. pc'[c] = "guardApply" /\ base'[c] = w /\ w.dashboard = "none"
          /\ read'[c] = read[c] /\ op'[c] = op[c] /\ op[c].kind = "delete"
      BY <1>3, <1>l, <2>1 DEF Confirmed, Types, Local
    <2> QED BY <2>4, <2>5 DEF RaceOf, Committed
  <1>4. CASE GuardApply(c)
    <2>1. PICK w : w = doc
      OBVIOUS
    <2>2. c \in Batches => w = base[c]
      BY <1>4, <2>1 DEF GuardApply
    <2>3. ~Drifted(c, w)
      BY <1>4, <2>1, <2>2 DEF GuardApply, RaceOf
    <2>4. ~Drifted(c, w)' /\ doc' = w
      BY <1>4, <2>1, <2>3, <1>b DEF GuardApply, desktop
    <2>5. pc[c] = "guardApply" /\ pc'[c] = "apply" /\ base'[c] = w /\ read'[c] = read[c]
          /\ op'[c] = op[c] /\ phase'[c] = phase[c]
      BY <1>4, <2>1 DEF GuardApply, Types
    <2>6. phase[c] = "ready" => w.dashboard = "none"
      BY <1>l, <2>2, <2>5 DEF Local, RaceOf
    <2> QED BY <2>4, <2>5, <2>6 DEF RaceOf, Committed
  <1>5. CASE BatchReported(c)
    <2>1. PICK w : w = doc
      OBVIOUS
    <2>2. pc'[c] = "verify" /\ op'[c] = op[c] /\ op[c].kind = "apply" /\ base'[c] = base[c] /\ doc' = w
          /\ raced' = raced
      BY <1>5, <1>l, <2>1 DEF BatchReported, Types, Local, local, desktop, history
    <2>3. Committed(c) /\ c \notin raced => w = base[c] /\ ~Drifted(c, w)'
      BY <1>b, <2>1 DEF RaceOf
    <2> QED BY <2>2, <2>3 DEF RaceOf, Committed
  <1> QED BY <1>1, <1>2, <1>3, <1>4, <1>5 DEF Moves

LEMMA RacesStep ==
    ASSUME Types, Leases, \A c \in Calls : Local(c), Races, [Next]_vars
    PROVE  Races'
  <1>r. \A c \in Calls : RaceOf(c)
    BY DEF Races
  <1>u. undone \subseteq raced
    BY DEF Races
  <1>b. ASSUME NEW c \in Calls, Holds(c) \/ op[c].kind = "apply"
        PROVE  \A w : Drifted(c, w)' <=> Drifted(c, w)
    BY <1>b, BuiltStays
  <1>1. CASE (\E a \in Artifacts : Build(a)) \/ UNCHANGED vars
    <2>1. UNCHANGED <<doc, raced, undone>> /\ \A d \in Calls : Stays(d)
      BY <1>1 DEF Build, desktop, local, history, vars, Stays
    <2> QED BY <2>1, <1>r, <1>u, StaysRaceOf DEF Races
  <1>2. ASSUME NEW c \in Calls, Begin(c) PROVE Races'
    <2>1. UNCHANGED <<doc, raced, undone>> /\ \A d \in Calls \ {c} : Stays(d)
      BY <1>2 DEF Begin, desktop, local, history, Stays, Types
    <2>2. op'[c] = Idle /\ phase'[c] = "none"
      BY <1>2 DEF Begin, Local, local
    <2>3. pc'[c] \in {"read", "guardApply", "answered"} /\ (pc'[c] = "guardApply" => c \notin Batches)
      <3>1. CASE \A a \in ToDo(c) : Available(a)
        <4>1. pc' = [pc EXCEPT ![c] = IF c \in Batches THEN "read" ELSE "guardApply"]
          BY <1>2, <3>1 DEF Begin
        <4> QED BY <4>1 DEF Types
      <3>2. CASE ~(\A a \in ToDo(c) : Available(a))
        <4>1. pc' = [pc EXCEPT ![c] = "answered"]
          BY <1>2, <3>2 DEF Begin
        <4> QED BY <4>1 DEF Types
      <3> QED BY <3>1, <3>2
    <2>4. RaceOf(c)'
      BY <2>2, <2>3 DEF RaceOf, Committed, Idle
    <2> QED BY <2>1, <2>4, <1>r, <1>u, StaysRaceOf DEF Races
  <1>3. ASSUME NEW c \in Calls, Closing(c) PROVE Races'
    <2>1. PICK applied \in Applieds, retrySafe \in BOOLEAN, note \in Notes : Answer(c, applied, retrySafe, note)
      BY <1>3 DEF Closing
    <2>2. UNCHANGED <<doc, raced, undone>> /\ \A d \in Calls \ {c} : Stays(d)
      BY <2>1 DEF Answer, desktop, history, Stays, Types
    <2>3. pc'[c] = "answered" /\ op'[c] = op[c] /\ base'[c] = base[c]
          /\ (op[c] = [kind |-> "delete", state |-> "sent"] => read'[c] = read[c])
      BY <2>1 DEF Answer, Types
    <2>4. PICK w : w = doc
      OBVIOUS
    <2>5. op[c].kind = "apply" /\ Committed(c) /\ c \notin raced => w = base[c] /\ ~Drifted(c, w)'
      BY <1>b, <1>r, <2>4 DEF RaceOf
    <2>6. RaceOf(c)'
      BY <2>2, <2>3, <2>4, <2>5, <1>r DEF RaceOf, Committed
    <2> QED BY <2>2, <2>6, <1>r, <1>u, StaysRaceOf DEF Races
  <1>4. ASSUME NEW c \in Calls, Moves(c) PROVE Races'
    <2>1. UNCHANGED <<doc, raced, undone>> /\ \A d \in Calls \ {c} : Stays(d)
      BY <1>4 DEF Moves, ReadWorkbook, GuardDelete, SendDelete, Sending, DeleteReported, Confirmed, GuardApply,
            BatchReported, desktop, local, history, Stays, Types
    <2>2. RaceOf(c)'
      BY <1>4, <1>r, MovesRaceOf
    <2> QED BY <2>1, <2>2, <1>r, <1>u, StaysRaceOf DEF Races
  <1>5. ASSUME NEW c \in Calls, SendApply(c) \/ SingleEnds(c) PROVE Races'
    <2>1. UNCHANGED <<doc, raced, undone>> /\ \A d \in Calls \ {c} : Stays(d)
      BY <1>5 DEF SendApply, SingleEnds, desktop, local, history, Stays, Types
    <2>2. pc'[c] \in {"applying", "answered"} /\ op'[c].kind = "apply" /\ base'[c] = base[c]
          /\ (Committed(c)' => Committed(c))
      BY <1>5 DEF SendApply, SingleEnds, Types, Local, local, Committed
    <2>3. PICK w : w = doc
      OBVIOUS
    <2>4. Holds(c) \/ op[c].kind = "apply"
      BY <1>5 DEF SendApply, SingleEnds, Holds
    <2>5. Committed(c) /\ c \notin raced => w = base[c] /\ ~Drifted(c, w)'
      BY <1>b, <1>r, <2>3, <2>4 DEF RaceOf
    <2>6. RaceOf(c)'
      BY <2>1, <2>2, <2>3, <2>5 DEF RaceOf
    <2> QED BY <2>1, <2>6, <1>r, <1>u, StaysRaceOf DEF Races
  <1>6. ASSUME NEW c \in Calls, CarryOutDelete(c) PROVE Races'
    <2>1. op[c] = [kind |-> "delete", state |-> "sent"] /\ op' = [op EXCEPT ![c].state = "done"]
          /\ UNCHANGED <<pc, read, base, phase, undone>>
      BY <1>6 DEF CarryOutDelete, local
    <2>2. op'[c] = [kind |-> "delete", state |-> "done"]
      BY <2>1 DEF Types
    <2>3. \A d \in Calls \ {c} : Stays(d)
      BY <2>1 DEF Stays, Types
    <2>4. raced \subseteq raced' /\ \A d \in Calls \ {c} : Committed(d) /\ d \notin raced' => doc' = doc
      BY <1>6 DEF CarryOutDelete, Race
    <2>5. Committed(c) /\ c \notin raced' => doc' = doc
      <3> SUFFICES ASSUME Committed(c), c \notin raced', doc' # doc PROVE FALSE
        OBVIOUS
      <3>1. pc[c] = "apply" /\ phase[c] = "ready"
        BY <2>1 DEF Committed, Local, Idle
      <3>2. base[c].dashboard = "none" /\ read[c].dashboard # "none" /\ doc = base[c]
        BY <3>1, <2>1, <2>4, <1>r DEF RaceOf
      <3>3. doc.dashboard = read[c].dashboard
        BY <1>6 DEF CarryOutDelete
      <3> QED BY <3>2, <3>3
    <2>6. PICK w : w = doc
      OBVIOUS
    <2>7. Committed(c)' => Committed(c) /\ Holds(c)
      BY <2>1, <2>2 DEF Committed, Holds
    <2>8. Committed(c)' /\ c \notin raced' => doc' = w /\ w = base'[c] /\ ~Drifted(c, w)'
      BY <1>b, <1>r, <2>1, <2>4, <2>5, <2>6, <2>7 DEF RaceOf
    <2>9. pc[c] \notin {"guardDelete", "delete"}
      BY <2>1 DEF Local, Idle
    <2>10. pc[c] \in {"deleting", "confirm", "guardApply", "apply"} => Holds(c)
      BY DEF Holds
    <2>11. (pc[c] \in {"guardDelete", "delete", "deleting", "confirm"} => ~Drifted(c, read[c]))'
      <3>1. PICK v : v = read[c]
        OBVIOUS
      <3>2. pc[c] \in {"deleting", "confirm"} => ~Drifted(c, v)'
        BY <1>b, <1>r, <2>10, <3>1 DEF RaceOf
      <3> QED BY <3>1, <3>2, <2>1, <2>9
    <2>12. (pc[c] = "guardApply" /\ c \in Batches => ~Drifted(c, base[c]))'
      <3>1. PICK v : v = base[c]
        OBVIOUS
      <3>2. pc[c] = "guardApply" /\ c \in Batches => ~Drifted(c, v)'
        BY <1>b, <1>r, <2>10, <3>1 DEF RaceOf
      <3> QED BY <3>1, <3>2, <2>1
    <2>13. (pc[c] \in {"guardApply", "apply"} /\ phase[c] = "ready" => base[c].dashboard = "none")'
      BY <1>r, <2>1 DEF RaceOf
    <2>14. RaceOf(c)'
      BY <2>1, <2>2, <2>8, <2>9, <2>11, <2>12, <2>13 DEF RaceOf
    <2> QED BY <2>1, <2>3, <2>4, <2>14, <1>r, <1>u, StaysRaceOf DEF Races
  <1>7. ASSUME NEW c \in Calls, CarryOutApply(c) PROVE Races'
    <2>1. op[c] = [kind |-> "apply", state |-> "sent"] /\ op' = [op EXCEPT ![c].state = "done"]
          /\ UNCHANGED <<pc, read, base, phase>>
      BY <1>7 DEF CarryOutApply, local
    <2>2. op'[c] = [kind |-> "apply", state |-> "done"]
      BY <2>1 DEF Types
    <2>3. \A d \in Calls \ {c} : Stays(d)
      BY <2>1 DEF Stays, Types
    <2>4. raced \subseteq raced' /\ \A d \in Calls \ {c} : Committed(d) => d \in raced'
      BY <1>7 DEF CarryOutApply, Race
    <2>5. pc'[c] \in {"applying", "verify", "answered"}
      BY <2>1 DEF Local
    <2>6. RaceOf(c)'
      BY <2>2, <2>5 DEF RaceOf, Committed
    <2>7. Undoes(c) => c \in raced
      BY <1>r, <2>1 DEF Undoes, RaceOf, Committed
    <2>8. undone' \subseteq raced'
      <3>1. CASE Undoes(c)
        BY <3>1, <2>4, <2>7, <1>7, <1>u DEF CarryOutApply
      <3>2. CASE ~Undoes(c)
        BY <3>2, <2>4, <1>7, <1>u DEF CarryOutApply
      <3> QED BY <3>1, <3>2
    <2>9. \A d \in Calls \ {c} : RaceOf(d)'
      BY <2>3, <2>4, <1>r, StaysRaceOf
    <2> QED BY <2>6, <2>8, <2>9 DEF Races
  <1>8. ASSUME NEW c \in Calls, CarryOutNothing(c) PROVE Races'
    <2>1. op[c].state = "sent" /\ op' = [op EXCEPT ![c].state = "refused"]
          /\ UNCHANGED <<pc, read, base, phase, doc, raced, undone>>
      BY <1>8 DEF CarryOutNothing, local, desktop, history
    <2>2. op'[c].state = "refused" /\ op'[c].kind = op[c].kind
      BY <2>1 DEF Types, Ops
    <2>3. \A d \in Calls \ {c} : Stays(d)
      BY <2>1 DEF Stays, Types
    <2>4. pc[c] \notin {"guardDelete", "delete"}
      BY <2>1 DEF Local, Idle
    <2>5. PICK w : w = doc
      OBVIOUS
    <2>6. Committed(c)' => pc[c] = "apply"
      BY <2>1, <2>2 DEF Committed
    <2>7. pc[c] \in {"deleting", "confirm", "guardApply", "apply"} => Holds(c)
      BY DEF Holds
    <2>8. Committed(c)' /\ c \notin raced => w = base[c] /\ ~Drifted(c, w)'
      BY <1>b, <1>r, <2>5, <2>6, <2>7 DEF RaceOf, Committed
    <2>9. (pc[c] \in {"guardDelete", "delete", "deleting", "confirm"} => ~Drifted(c, read[c]))'
      <3>1. PICK v : v = read[c]
        OBVIOUS
      <3>2. pc[c] \in {"deleting", "confirm"} => ~Drifted(c, v)'
        BY <1>b, <1>r, <2>7, <3>1 DEF RaceOf
      <3> QED BY <3>1, <3>2, <2>1, <2>4
    <2>10. (pc[c] = "guardApply" /\ c \in Batches => ~Drifted(c, base[c]))'
      <3>1. PICK v : v = base[c]
        OBVIOUS
      <3>2. pc[c] = "guardApply" /\ c \in Batches => ~Drifted(c, v)'
        BY <1>b, <1>r, <2>7, <3>1 DEF RaceOf
      <3> QED BY <3>1, <3>2, <2>1
    <2>11. (pc[c] \in {"guardApply", "apply"} /\ phase[c] = "ready" => base[c].dashboard = "none")'
      BY <1>r, <2>1 DEF RaceOf
    <2>12. RaceOf(c)'
      BY <2>1, <2>2, <2>4, <2>5, <2>8, <2>9, <2>10, <2>11 DEF RaceOf
    <2> QED BY <2>1, <2>3, <2>12, <1>r, <1>u, StaysRaceOf DEF Races
  <1>9. CASE UserEdit
    <2>1. undone' = undone /\ \A d \in Calls : Stays(d)
      BY <1>9 DEF UserEdit, local, Stays
    <2>2. raced \subseteq raced' /\ \A d \in Calls : Committed(d) => d \in raced'
      BY <1>9 DEF UserEdit, Race
    <2> QED BY <2>1, <2>2, <1>r, <1>u, StaysRaceOf DEF Races
  <1> QED BY <1>1, <1>2, <1>3, <1>4, <1>5, <1>6, <1>7, <1>8, <1>9, Cases DEF Desktop

-----------------------------------------------------------------------------
\* The inductive invariant, and what follows from it

Inv == Types /\ (\A c \in Calls : Local(c)) /\ Leases /\ Races

LEMMA InvHolds == Spec => []Inv
  <1>1. Init => Inv
    BY InitTypes, InitLocal, InitLeases, InitRaces DEF Inv
  <1>2. Inv /\ [Next]_vars => Inv'
    <2> SUFFICES ASSUME Inv, [Next]_vars PROVE Inv'
      OBVIOUS
    <2>1. Types' /\ Leases' /\ Races' /\ \A c \in Calls : Local(c)'
      BY TypesStep, LocalStep, LeasesStep, RacesStep DEF Inv
    <2> QED BY <2>1 DEF Inv
  <1> QED BY <1>1, <1>2, PTL DEF Spec

\* Whenever a receipt of run-dashboard-batch or apply-worksheet says that the call may be
\* repeated (retrySafe), the call has changed nothing in Desktop, has nothing on its way and
\* has consumed no artifact.
THEOREM ReceiptsAreRight == Spec => []RetrySafeLeavesNothing
  <1>1. Inv => RetrySafeLeavesNothing
    <2> SUFFICES ASSUME Inv, NEW c \in Calls, answer[c] # None, answer[c].retrySafe
                 PROVE  /\ op[c].state \in {"none", "refused"}
                        /\ c \notin deleted \cup written
                        /\ \A a \in Artifacts : spent[a] # c
      BY DEF RetrySafeLeavesNothing
    <2>1. op[c].state \in {"none", "refused"} /\ op[c].kind # "apply"
      BY DEF Inv, Local, RightReceipt
    <2>2. op[c] \in Ops
      BY DEF Inv, Types
    <2>3. c \notin deleted
      BY <2>1, <2>2 DEF Inv, Local, Ops
    <2>4. c \notin written
      BY <2>1 DEF Inv, Local
    <2>5. \A a \in Artifacts : spent[a] # c
      BY <2>1 DEF Inv, Leases
    <2> QED BY <2>1, <2>3, <2>4, <2>5
  <1> QED BY <1>1, InvHolds, PTL

\* A batch that deleted the dashboard it replaces and cannot say that the new one is applied
\* says what became of the old one, and where it says that the new one was not applied its
\* document is neither written nor on its way (removalNote).
THEOREM TellsOfOldDashboard == Spec => []OldDashboardIsToldOf
  <1>1. Inv => OldDashboardIsToldOf
    <2> SUFFICES ASSUME Inv, NEW c \in Batches, answer[c] # None
                 PROVE  /\ c \in deleted /\ answer[c].applied \notin {"yes", "fatal"} => answer[c].note # "none"
                        /\ answer[c].note \in {"sent", "hidden", "removed", "drifted"} =>
                              c \notin written /\ op[c] # [kind |-> "apply", state |-> "sent"]
      BY DEF OldDashboardIsToldOf
    <2>1. Local(c) /\ c \in Calls
      BY DEF Inv, Calls
    <2>2. RightReceipt(c, answer[c].applied, answer[c].retrySafe, answer[c].note)
      BY <2>1 DEF Local
    <2>3. c \in deleted => phase[c] # "none" /\ op[c] # [kind |-> "delete", state |-> "refused"]
      BY <2>1 DEF Local
    <2>4. op[c].kind = "delete" => c \notin written
      BY <2>1 DEF Local
    <2> QED BY <2>2, <2>3, <2>4 DEF RightReceipt
  <1> QED BY <1>1, InvHolds, PTL

\* Two calls never send one artifact: whoever sends it holds its lease, and it is consumed
\* before the lease goes (consumeReservations at dispatch, or at the end of the call).
THEOREM SentOnce == Spec => []ArtifactSentOnce
  <1>1. Inv => ArtifactSentOnce
    <2> SUFFICES ASSUME Inv, NEW a \in Artifacts
                 PROVE  Cardinality({c \in Calls : a \in ToDo(c) /\ op[c].kind = "apply"}) <= 1
      BY DEF ArtifactSentOnce
    <2> DEFINE Senders == {c \in Calls : a \in ToDo(c) /\ op[c].kind = "apply"}
    <2>1. ASSUME NEW c \in Senders PROVE lease[a] = c \/ spent[a] = c
      BY <2>1 DEF Inv, Leases
    <2>2. ASSUME NEW c \in Senders, NEW d \in Senders PROVE c = d
      <3>1. CASE lease[a] = c /\ spent[a] = d
        BY <3>1 DEF Inv, Leases
      <3>2. CASE lease[a] = d /\ spent[a] = c
        BY <3>2 DEF Inv, Leases
      <3> QED BY <3>1, <3>2, <2>1
    <2>3. CASE Senders = {}
      BY <2>3, FS_EmptySet
    <2>4. CASE Senders # {}
      <3>1. PICK c : Senders = {c}
        BY <2>2, <2>4
      <3>2. Cardinality({c}) = 1
        BY FS_Singleton
      <3> QED BY <3>1, <3>2
    <2> QED BY <2>3, <2>4
  <1> QED BY <1>1, InvHolds, PTL

\* A document written by a batch or an artifact apply undoes a change of the user or of
\* another call only if that change was made after the last check, which the lock does not
\* prevent; a change made while the old dashboard was being deleted stops the batch.
THEOREM OnlyRacesUndo == Spec => []UndoesOnlyInARace
  <1>1. Inv => UndoesOnlyInARace
    BY DEF Inv, Races, UndoesOnlyInARace
  <1> QED BY <1>1, InvHolds, PTL

-----------------------------------------------------------------------------
(***************************************************************************)
(* The store's order of use.  Without is a recursive function of the       *)
(* length of what was looked at; that it exists, and what it keeps, is     *)
(* shown for the least length for which it might fail.                     *)
(***************************************************************************)

LEMMA SmallestMember ==
    ASSUME NEW T \in SUBSET Nat, T # {}
    PROVE  \E x \in T : \A y \in T : x <= y
  <1> DEFINE R == OpToRel(<, Nat)
  <1>1. IsWellFoundedOn(R, Nat)
    BY NatLessThanWellFounded
  <1> HIDE DEF R
  <1>2. PICK x \in T : \A y \in T : ~(<<y, x>> \in R)
    BY <1>1, WFMin
  <1>3. ASSUME NEW y \in T PROVE x <= y
    <2>1. ~(<<y, x>> \in R) /\ x \in Nat /\ y \in Nat
      BY <1>2
    <2>2. ~(y < x)
      BY <2>1 DEF R, OpToRel
    <2> QED BY <2>1, <2>2
  <1> QED BY <1>2, <1>3

\* kept says what is left of the first members of s, up to m of them.
Keeping(s, gone, m, kept) ==
    kept = [n \in 0..m |-> IF n = 0 THEN <<>>
                           ELSE IF s[n] \in gone THEN kept[n - 1] ELSE Append(kept[n - 1], s[n])]

LEMMA KeepingExists ==
    ASSUME NEW s, NEW gone, NEW m \in Nat
    PROVE  \E kept : Keeping(s, gone, m, kept)
  <1> DEFINE T == {n \in Nat : ~ \E kept : Keeping(s, gone, n, kept)}
  <1> SUFFICES ASSUME T # {} PROVE FALSE
    OBVIOUS
  <1>1. PICK n \in T : \A y \in T : n <= y
    BY SmallestMember
  <1>2. n # 0
    <2>1. Keeping(s, gone, 0, [k \in 0..0 |-> <<>>])
      BY DEF Keeping
    <2> QED BY <1>1, <2>1
  <1>3. n - 1 \in Nat /\ n - 1 \notin T
    BY <1>1, <1>2
  <1>4. PICK f : Keeping(s, gone, n - 1, f)
    BY <1>3
  <1> DEFINE g == [k \in 0..n |->
                     IF k < n THEN f[k]
                     ELSE IF s[k] \in gone THEN f[k - 1] ELSE Append(f[k - 1], s[k])]
  <1>5. ASSUME NEW k \in 0..n
        PROVE  g[k] = IF k = 0 THEN <<>>
                      ELSE IF s[k] \in gone THEN g[k - 1] ELSE Append(g[k - 1], s[k])
    <2>1. CASE k = 0
      <3>1. g[k] = f[0]
        BY <1>2, <2>1
      <3>2. f[0] = <<>>
        BY <1>3, <1>4 DEF Keeping
      <3> QED BY <2>1, <3>1, <3>2
    <2>2. CASE k # 0 /\ k < n
      <3>1. g[k] = f[k] /\ g[k - 1] = f[k - 1] /\ k \in 0..(n - 1)
        BY <2>2
      <3>2. f[k] = IF s[k] \in gone THEN f[k - 1] ELSE Append(f[k - 1], s[k])
        BY <1>4, <2>2, <3>1 DEF Keeping
      <3> QED BY <2>2, <3>1, <3>2
    <2>3. CASE k = n
      <3>1. g[k - 1] = f[k - 1]
        BY <1>2, <2>3
      <3> QED BY <1>2, <2>3, <3>1
    <2> QED BY <2>1, <2>2, <2>3
  <1>6. Keeping(s, gone, n, g)
    <2>1. g = [k \in 0..n |-> g[k]]
      OBVIOUS
    <2> HIDE DEF g
    <2> QED BY <1>5, <2>1 DEF Keeping
  <1> QED BY <1>1, <1>6

LEMMA WithoutKeeps ==
    ASSUME NEW S, NEW s \in Seq(S), NEW gone
    PROVE  \E kept : Keeping(s, gone, Len(s), kept) /\ Without(s, gone) = kept[Len(s)]
  <1> DEFINE kept == CHOOSE f : Keeping(s, gone, Len(s), f)
  <1>1. Keeping(s, gone, Len(s), kept)
    BY KeepingExists
  <1>2. Without(s, gone) = kept[Len(s)]
    BY DEF Without, Keeping
  <1> QED BY <1>1, <1>2

\* What is kept of the first n members: those that are not gone, each once if they are
\* different.
KeptWell(S, s, gone, t, n) ==
    /\ t \in Seq(S)
    /\ \A i \in 1..Len(t) : \E j \in 1..n : t[i] = s[j] /\ s[j] \notin gone
    /\ \A j \in 1..n : s[j] \notin gone => \E i \in 1..Len(t) : t[i] = s[j]
    /\ \A i, k \in 1..Len(t) : t[i] = t[k] => i = k

LEMMA KeptOne ==
    ASSUME NEW S, NEW s \in Seq(S), \A i, k \in 1..Len(s) : s[i] = s[k] => i = k, NEW gone,
           NEW n \in 1..Len(s), NEW t, KeptWell(S, s, gone, t, n - 1), s[n] \notin gone
    PROVE  KeptWell(S, s, gone, Append(t, s[n]), n)
  <1> DEFINE u == Append(t, s[n])
  <1>0. t \in Seq(S) /\ s[n] \in S /\ Len(t) \in Nat /\ n \in Nat
    BY DEF KeptWell
  <1>1. /\ u \in Seq(S) /\ Len(u) = Len(t) + 1
        /\ u[Len(t) + 1] = s[n]
        /\ \A i \in 1..Len(t) : u[i] = t[i]
    BY <1>0
  <1> HIDE DEF u
  <1>2. ASSUME NEW i \in 1..Len(u) PROVE \E j \in 1..n : u[i] = s[j] /\ s[j] \notin gone
    <2>1. CASE i = Len(t) + 1
      BY <1>0, <1>1, <2>1
    <2>2. CASE i \in 1..Len(t)
      <3>1. PICK j \in 1..(n - 1) : t[i] = s[j] /\ s[j] \notin gone
        BY <2>2 DEF KeptWell
      <3> QED BY <1>1, <2>2, <3>1
    <2> QED BY <1>0, <1>1, <2>1, <2>2
  <1>3. ASSUME NEW j \in 1..n, s[j] \notin gone PROVE \E i \in 1..Len(u) : u[i] = s[j]
    <2>1. CASE j = n
      <3>1. Len(t) + 1 \in 1..Len(u)
        BY <1>0, <1>1
      <3> QED BY <1>1, <2>1, <3>1
    <2>2. CASE j \in 1..(n - 1)
      <3>1. PICK i \in 1..Len(t) : t[i] = s[j]
        BY <1>3, <2>2 DEF KeptWell
      <3>2. i \in 1..Len(u) /\ u[i] = s[j]
        BY <1>0, <1>1, <3>1
      <3> QED BY <3>2
    <2> QED BY <2>1, <2>2
  <1>4. ASSUME NEW i \in 1..Len(t) PROVE t[i] # s[n]
    <2>1. PICK j \in 1..(n - 1) : t[i] = s[j]
      BY DEF KeptWell
    <2>2. j \in 1..Len(s) /\ n \in 1..Len(s) /\ j # n
      BY <2>1
    <2> QED BY <2>1, <2>2
  <1>5. ASSUME NEW i \in 1..Len(u), NEW k \in 1..Len(u), u[i] = u[k] PROVE i = k
    <2>1. CASE i \in 1..Len(t) /\ k \in 1..Len(t)
      <3>1. t[i] = t[k]
        BY <1>1, <1>5, <2>1
      <3> QED BY <2>1, <3>1 DEF KeptWell
    <2>2. CASE i = Len(t) + 1 /\ k \in 1..Len(t)
      BY <1>1, <1>4, <1>5, <2>2
    <2>3. CASE i \in 1..Len(t) /\ k = Len(t) + 1
      BY <1>1, <1>4, <1>5, <2>3
    <2>4. CASE i = Len(t) + 1 /\ k = Len(t) + 1
      BY <2>4
    <2> QED BY <1>0, <1>1, <2>1, <2>2, <2>3, <2>4
  <1>6. KeptWell(S, s, gone, u, n)
    BY <1>1, <1>2, <1>3, <1>5 DEF KeptWell
  <1> QED BY <1>6 DEF u

LEMMA KeptNone ==
    ASSUME NEW S, NEW s, NEW gone, NEW n \in Nat, NEW t, KeptWell(S, s, gone, t, n - 1), s[n] \in gone
    PROVE  KeptWell(S, s, gone, t, n)
  <1>1. \A j \in 1..(n - 1) : j \in 1..n
    OBVIOUS
  <1>2. \A j \in 1..n : j \in 1..(n - 1) \/ j = n
    OBVIOUS
  <1>3. \A i \in 1..Len(t) : \E j \in 1..n : t[i] = s[j] /\ s[j] \notin gone
    BY <1>1 DEF KeptWell
  <1>4. ASSUME NEW j \in 1..n, s[j] \notin gone PROVE \E i \in 1..Len(t) : t[i] = s[j]
    <2>1. j \in 1..(n - 1)
      BY <1>2, <1>4
    <2> QED BY <1>4, <2>1 DEF KeptWell
  <1>5. t \in Seq(S) /\ \A i, k \in 1..Len(t) : t[i] = t[k] => i = k
    BY DEF KeptWell
  <1> QED BY <1>3, <1>4, <1>5 DEF KeptWell

LEMMA KeptAll ==
    ASSUME NEW S, NEW s \in Seq(S), \A i, k \in 1..Len(s) : s[i] = s[k] => i = k, NEW gone,
           NEW kept, Keeping(s, gone, Len(s), kept)
    PROVE  KeptWell(S, s, gone, kept[Len(s)], Len(s))
  <1> DEFINE T == {n \in 0..Len(s) : ~KeptWell(S, s, gone, kept[n], n)}
  <1>0. Len(s) \in Nat
    OBVIOUS
  <1> SUFFICES ASSUME T # {} PROVE FALSE
    BY <1>0
  <1>1. PICK n \in T : \A y \in T : n <= y
    <2>1. T \in SUBSET Nat
      BY <1>0
    <2> HIDE DEF T
    <2> QED BY <2>1, SmallestMember
  <1>2. n # 0
    <2>1. kept[0] = <<>>
      BY <1>0 DEF Keeping
    <2>2. KeptWell(S, s, gone, <<>>, 0)
      BY DEF KeptWell
    <2> QED BY <1>1, <2>1, <2>2
  <1>3. /\ n \in 1..Len(s) /\ n - 1 \in 0..Len(s)
        /\ KeptWell(S, s, gone, kept[n - 1], n - 1)
    BY <1>0, <1>1, <1>2
  <1>4. kept[n] = IF s[n] \in gone THEN kept[n - 1] ELSE Append(kept[n - 1], s[n])
    BY <1>2, <1>3 DEF Keeping
  <1>5. KeptWell(S, s, gone, kept[n], n)
    <2>1. CASE s[n] \in gone
      <3>1. kept[n] = kept[n - 1]
        BY <1>4, <2>1
      <3> QED BY <1>3, <2>1, <3>1, KeptNone
    <2>2. CASE s[n] \notin gone
      BY <1>3, <1>4, <2>2, KeptOne
    <2> QED BY <2>1, <2>2
  <1> QED BY <1>1, <1>5

\* A sequence of different members without some of them.
LEMMA WithoutIs ==
    ASSUME NEW S, NEW s \in Seq(S), IsInjective(s), NEW gone
    PROVE  /\ Without(s, gone) \in Seq(S)
           /\ IsInjective(Without(s, gone))
           /\ ToSet(Without(s, gone)) = ToSet(s) \ gone
  <1>1. PICK kept : Keeping(s, gone, Len(s), kept) /\ Without(s, gone) = kept[Len(s)]
    BY WithoutKeeps
  <1>2. \A i, k \in 1..Len(s) : s[i] = s[k] => i = k
    BY DEF IsInjective
  <1> DEFINE t == Without(s, gone)
  <1>3. KeptWell(S, s, gone, t, Len(s))
    BY <1>1, <1>2, KeptAll
  <1> HIDE DEF t
  <1>4. t \in Seq(S) /\ DOMAIN t = 1..Len(t) /\ DOMAIN s = 1..Len(s)
    BY <1>3 DEF KeptWell
  <1>5. IsInjective(t)
    BY <1>3, <1>4 DEF KeptWell, IsInjective
  <1>6. ToSet(t) = ToSet(s) \ gone
    <2>1. ASSUME NEW x \in ToSet(t) PROVE x \in ToSet(s) \ gone
      <3>1. PICK i \in 1..Len(t) : x = t[i]
        BY <1>4, <2>1 DEF ToSet
      <3>2. PICK j \in 1..Len(s) : t[i] = s[j] /\ s[j] \notin gone
        BY <1>3 DEF KeptWell
      <3> QED BY <1>4, <3>1, <3>2 DEF ToSet
    <2>2. ASSUME NEW x \in ToSet(s) \ gone PROVE x \in ToSet(t)
      <3>1. PICK j \in 1..Len(s) : x = s[j]
        BY <1>4, <2>2 DEF ToSet
      <3>2. PICK i \in 1..Len(t) : t[i] = s[j]
        BY <1>3, <2>2, <3>1 DEF KeptWell
      <3> QED BY <1>4, <3>1, <3>2 DEF ToSet
    <2> QED BY <2>1, <2>2
  <1> QED BY <1>4, <1>5, <1>6 DEF t

\* A sequence of different members is as long as the set of them is large.
LEMMA LengthCounts ==
    ASSUME NEW S, NEW s \in Seq(S), IsInjective(s)
    PROVE  IsFiniteSet(ToSet(s)) /\ Len(s) = Cardinality(ToSet(s))
  <1>1. Len(s) \in Nat /\ DOMAIN s = 1..Len(s) /\ s \in [1..Len(s) -> ToSet(s)]
    BY DEF ToSet
  <1>2. s \in Bijection(1..Len(s), ToSet(s))
    BY <1>1 DEF Bijection, Injection, Surjection, IsInjective, ToSet
  <1>3. ExistsBijection(1..Len(s), ToSet(s))
    BY <1>2 DEF ExistsBijection
  <1> QED BY <1>1, <1>3, FS_CountingElements, FS_NatBijection

LEMMA Concatenated ==
    ASSUME NEW S, NEW t \in Seq(S), NEW u \in Seq(S), IsInjective(t), IsInjective(u),
           ToSet(t) \cap ToSet(u) = {}
    PROVE  /\ t \o u \in Seq(S) /\ IsInjective(t \o u)
           /\ ToSet(t \o u) = ToSet(t) \cup ToSet(u)
  <1> DEFINE v == t \o u
  <1>1. /\ v \in Seq(S) /\ Len(v) = Len(t) + Len(u) /\ Len(t) \in Nat /\ Len(u) \in Nat
        /\ DOMAIN v = 1..Len(v) /\ DOMAIN t = 1..Len(t) /\ DOMAIN u = 1..Len(u)
    OBVIOUS
  <1>2. \A i \in 1..Len(t) : v[i] = t[i]
    BY <1>1
  <1>3. \A i \in 1..Len(u) : v[Len(t) + i] = u[i]
    BY <1>1
  <1> HIDE DEF v
  <1>4. ASSUME NEW i \in 1..Len(v)
        PROVE  \/ i \in 1..Len(t) /\ v[i] = t[i] /\ v[i] \in ToSet(t)
               \/ \E k \in 1..Len(u) : i = Len(t) + k /\ v[i] = u[k] /\ v[i] \in ToSet(u)
    <2>1. CASE i \in 1..Len(t)
      BY <1>1, <1>2, <2>1 DEF ToSet
    <2>2. CASE i \notin 1..Len(t)
      <3>1. i - Len(t) \in 1..Len(u) /\ i = Len(t) + (i - Len(t))
        BY <1>1, <2>2
      <3>2. v[i] = u[i - Len(t)]
        BY <1>3, <3>1
      <3> QED BY <1>1, <3>1, <3>2 DEF ToSet
    <2> QED BY <2>1, <2>2
  <1>5. ASSUME NEW i \in 1..Len(v), NEW j \in 1..Len(v), v[i] = v[j] PROVE i = j
    <2>1. CASE v[i] \in ToSet(t)
      <3>1. v[i] \notin ToSet(u)
        BY <2>1
      <3>2. i \in 1..Len(t) /\ v[i] = t[i] /\ j \in 1..Len(t) /\ v[j] = t[j]
        BY <1>4, <1>5, <3>1
      <3> QED BY <1>1, <1>5, <3>2 DEF IsInjective
    <2>2. CASE v[i] \notin ToSet(t)
      <3>1. PICK k \in 1..Len(u) : i = Len(t) + k /\ v[i] = u[k]
        BY <1>4, <2>2
      <3>2. PICK l \in 1..Len(u) : j = Len(t) + l /\ v[j] = u[l]
        BY <1>4, <1>5, <2>2
      <3>3. k = l
        BY <1>1, <1>5, <3>1, <3>2 DEF IsInjective
      <3> QED BY <3>1, <3>2, <3>3
    <2> QED BY <2>1, <2>2
  <1>6. IsInjective(v)
    BY <1>1, <1>5 DEF IsInjective
  <1>7. ToSet(v) = ToSet(t) \cup ToSet(u)
    <2>1. ASSUME NEW x \in ToSet(v) PROVE x \in ToSet(t) \cup ToSet(u)
      <3>1. PICK i \in 1..Len(v) : x = v[i]
        BY <1>1, <2>1 DEF ToSet
      <3> QED BY <1>4, <3>1
    <2>2. ASSUME NEW x \in ToSet(t) PROVE x \in ToSet(v)
      <3>1. PICK i \in 1..Len(t) : x = t[i]
        BY <1>1, <2>2 DEF ToSet
      <3>2. i \in 1..Len(v) /\ v[i] = x
        BY <1>1, <1>2, <3>1
      <3> QED BY <1>1, <3>2 DEF ToSet
    <2>3. ASSUME NEW x \in ToSet(u) PROVE x \in ToSet(v)
      <3>1. PICK i \in 1..Len(u) : x = u[i]
        BY <1>1, <2>3 DEF ToSet
      <3>2. Len(t) + i \in 1..Len(v) /\ v[Len(t) + i] = x
        BY <1>1, <1>3, <3>1
      <3> QED BY <1>1, <3>2 DEF ToSet
    <2> QED BY <2>1, <2>2, <2>3
  <1> QED BY <1>1, <1>6, <1>7 DEF v

LEMMA Appended ==
    ASSUME NEW S, NEW t \in Seq(S), NEW x \in S, IsInjective(t), x \notin ToSet(t)
    PROVE  /\ Append(t, x) \in Seq(S) /\ IsInjective(Append(t, x))
           /\ ToSet(Append(t, x)) = ToSet(t) \cup {x}
  <1> DEFINE u == <<x>>
  <1>1. u \in Seq(S) /\ Len(u) = 1 /\ u[1] = x /\ DOMAIN u = 1..1
    OBVIOUS
  <1>2. Append(t, x) = t \o u
    OBVIOUS
  <1> HIDE DEF u
  <1>3. IsInjective(u) /\ ToSet(u) = {x}
    BY <1>1 DEF IsInjective, ToSet
  <1> QED BY <1>1, <1>2, <1>3, Concatenated

\* The store holds its artifacts once each, in order of use, and no more than it may.
Order ==
    /\ recent \in Seq(Artifacts) /\ IsInjective(recent)
    /\ ToSet(recent) = {a \in Artifacts : fate[a] = "stored"}
    /\ Len(recent) <= Capacity

\* What the store holds after a step is what it is to hold.
LEMMA OrderOf ==
    ASSUME Order, recent' \in Seq(Artifacts), IsInjective(recent'),
           ToSet(recent') = {a \in Artifacts : fate'[a] = "stored"},
           ToSet(recent') \subseteq ToSet(recent)
    PROVE  Order'
  <1>1. /\ IsFiniteSet(ToSet(recent)) /\ Len(recent) = Cardinality(ToSet(recent))
        /\ IsFiniteSet(ToSet(recent')) /\ Len(recent') = Cardinality(ToSet(recent'))
    <2>1. IsFiniteSet(ToSet(recent)) /\ Len(recent) = Cardinality(ToSet(recent))
      BY LengthCounts DEF Order
    <2> DEFINE r == recent'
    <2>2. r \in Seq(Artifacts) /\ IsInjective(r)
      OBVIOUS
    <2> HIDE DEF r
    <2>3. IsFiniteSet(ToSet(r)) /\ Len(r) = Cardinality(ToSet(r))
      BY <2>2, LengthCounts
    <2> QED BY <2>1, <2>3 DEF r
  <1>2. Cardinality(ToSet(recent')) <= Cardinality(ToSet(recent))
    BY <1>1, FS_Subset
  <1>3. Len(recent') <= Capacity
    <2>1. Len(recent) \in Nat /\ Len(recent') \in Nat /\ Capacity \in Nat /\ Len(recent) <= Capacity
      BY BoundsAssumption DEF Order
    <2> QED BY <1>1, <1>2, <2>1
  <1> QED BY <1>3 DEF Order

LEMMA UsedOrder ==
    ASSUME Order, NEW some \in Seq(Artifacts), IsInjective(some), ToSet(some) \subseteq ToSet(recent),
           recent' = Used(some), UNCHANGED fate
    PROVE  Order'
  <1> DEFINE t == Without(recent, ToSet(some))
  <1>1. t \in Seq(Artifacts) /\ IsInjective(t) /\ ToSet(t) = ToSet(recent) \ ToSet(some)
    BY WithoutIs DEF Order
  <1>2. recent' = t \o some
    BY DEF Used
  <1> HIDE DEF t
  <1>3. /\ t \o some \in Seq(Artifacts) /\ IsInjective(t \o some)
        /\ ToSet(t \o some) = ToSet(recent)
    <2>1. ToSet(t) \cap ToSet(some) = {}
      BY <1>1
    <2>2. /\ t \o some \in Seq(Artifacts) /\ IsInjective(t \o some)
          /\ ToSet(t \o some) = ToSet(t) \cup ToSet(some)
      BY <1>1, <2>1, Concatenated
    <2> QED BY <1>1, <2>2
  <1> QED BY <1>2, <1>3, OrderOf DEF Order

LEMMA BuildOrder ==
    ASSUME Types, Order, NEW a \in Artifacts, Build(a)
    PROVE  Order'
  <1>0. /\ recent \in Seq(Artifacts) /\ IsInjective(recent) /\ Len(recent) \in Nat
        /\ ToSet(recent) = {b \in Artifacts : fate[b] = "stored"} /\ a \notin ToSet(recent)
        /\ Capacity \in Nat
    BY BoundsAssumption DEF Order, Build
  <1>1. CASE Len(recent) < Capacity /\ fate' = [fate EXCEPT ![a] = "stored"] /\ recent' = Append(recent, a)
    <2> DEFINE t == Append(recent, a)
    <2>1. t \in Seq(Artifacts) /\ IsInjective(t) /\ ToSet(t) = ToSet(recent) \cup {a}
      BY <1>0, Appended
    <2>2. Len(t) = Len(recent) + 1 /\ recent' = t
      BY <1>0, <1>1
    <2> HIDE DEF t
    <2>3. {b \in Artifacts : fate'[b] = "stored"} = ToSet(recent) \cup {a}
      BY <1>0, <1>1 DEF Types
    <2> QED BY <1>0, <1>1, <2>1, <2>2, <2>3 DEF Order
  <1>2. ASSUME NEW i \in Spare(a), Len(recent) = Capacity,
               fate' = [fate EXCEPT ![a] = "stored", ![recent[i]] = "evicted"],
               recent' = Append(Without(recent, {recent[i]}), a)
        PROVE  Order'
    <2> DEFINE x == recent[i]
               t == Without(recent, {x})
               u == Append(t, a)
    <2>1. i \in DOMAIN recent /\ x # a /\ x \in ToSet(recent)
      BY <1>2 DEF Spare, ToSet
    <2>2. t \in Seq(Artifacts) /\ IsInjective(t) /\ ToSet(t) = ToSet(recent) \ {x}
      BY <1>0, WithoutIs
    <2>3. recent' = u /\ fate' = [fate EXCEPT ![a] = "stored", ![x] = "evicted"]
      BY <1>2
    <2> HIDE DEF x, t
    <2>4. u \in Seq(Artifacts) /\ IsInjective(u) /\ ToSet(u) = (ToSet(recent) \ {x}) \cup {a}
      <3>1. a \notin ToSet(t)
        BY <1>0, <2>2
      <3> QED BY <2>2, <3>1, Appended
    <2> HIDE DEF u
    <2>5. Len(u) = Len(recent)
      <3>1. IsFiniteSet(ToSet(recent)) /\ Len(recent) = Cardinality(ToSet(recent))
        BY <1>0, LengthCounts
      <3>2. IsFiniteSet(ToSet(u)) /\ Len(u) = Cardinality(ToSet(u))
        BY <2>4, LengthCounts
      <3>3. /\ IsFiniteSet(ToSet(recent) \ {x})
            /\ Cardinality(ToSet(recent) \ {x}) = Cardinality(ToSet(recent)) - 1
        BY <2>1, <3>1, FS_RemoveElement
      <3>4. Cardinality((ToSet(recent) \ {x}) \cup {a}) = Cardinality(ToSet(recent) \ {x}) + 1
        <4>1. a \notin ToSet(recent) \ {x}
          BY <1>0
        <4> QED BY <3>3, <4>1, FS_AddElement
      <3> QED BY <1>0, <2>4, <3>1, <3>2, <3>3, <3>4
    <2>6. {b \in Artifacts : fate'[b] = "stored"} = (ToSet(recent) \ {x}) \cup {a}
      <3>1. x \in Artifacts /\ x # a
        BY <1>0, <2>1
      <3>2. \A b \in Artifacts : fate'[b] = IF b = x THEN "evicted" ELSE IF b = a THEN "stored" ELSE fate[b]
        BY <2>3, <3>1 DEF Types
      <3> QED BY <1>0, <3>1, <3>2
    <2> QED BY <1>0, <1>2, <2>3, <2>4, <2>5, <2>6 DEF Order
  <1> QED BY <1>1, <1>2 DEF Build

LEMMA ReleaseOrder ==
    ASSUME Types, Order, Leases, NEW c \in Calls, Release(c)
    PROVE  Order'
  <1> DEFINE some == Without(Wanted[c], {a \in Artifacts : lease[a] # c})
  <1>1. /\ some \in Seq(Artifacts) /\ IsInjective(some)
        /\ ToSet(some) = ToSet(Wanted[c]) \ {a \in Artifacts : lease[a] # c}
    BY WantedAssumption, WithoutIs
  <1>2. recent' = Used(some) /\ UNCHANGED fate
    BY DEF Release
  <1> HIDE DEF some
  <1>3. ASSUME NEW a \in ToSet(some) PROVE a \in ToSet(recent)
    <2>1. a \in Artifacts
      BY <1>1 DEF ToSet
    <2>2. lease[a] = c
      BY <1>1, <2>1
    <2>3. fate[a] = "stored"
      BY <2>1, <2>2 DEF Leases
    <2> QED BY <2>1, <2>3 DEF Order
  <1> QED BY <1>1, <1>2, <1>3, UsedOrder

LEMMA ConsumeOrder ==
    ASSUME Types, Order, NEW c \in Calls, Consume(c)
    PROVE  Order'
  <1> DEFINE t == Without(recent, {a \in Artifacts : lease[a] = c})
  <1>1. /\ t \in Seq(Artifacts) /\ IsInjective(t)
        /\ ToSet(t) = ToSet(recent) \ {a \in Artifacts : lease[a] = c}
    BY WithoutIs DEF Order
  <1>2. recent' = t
    BY DEF Consume
  <1> HIDE DEF t
  <1>3. {a \in Artifacts : fate'[a] = "stored"} = ToSet(recent) \ {a \in Artifacts : lease[a] = c}
    <2>1. \A a \in Artifacts : fate'[a] = IF lease[a] = c THEN "consumed" ELSE fate[a]
      BY DEF Consume
    <2> QED BY <2>1 DEF Order
  <1> QED BY <1>1, <1>2, <1>3, OrderOf

LEMMA BeginOrder ==
    ASSUME Types, Order, NEW c \in Calls, Begin(c)
    PROVE  Order'
  <1>0. Wanted[c] \in Seq(Artifacts) /\ IsInjective(Wanted[c]) /\ UNCHANGED fate
    BY WantedAssumption DEF Begin
  <1>1. CASE \A a \in ToDo(c) : Available(a)
    <2>1. recent' = Used(Wanted[c])
      BY <1>1 DEF Begin
    <2>2. ASSUME NEW a \in ToSet(Wanted[c]) PROVE a \in ToSet(recent)
      <3>1. a \in Artifacts /\ Available(a)
        BY <1>0, <1>1 DEF ToDo, ToSet
      <3> QED BY <3>1 DEF Available, Order
    <2> QED BY <1>0, <2>1, <2>2, UsedOrder
  <1>2. CASE ~(\A a \in ToDo(c) : Available(a))
    <2>1. PICK i \in DOMAIN Wanted[c] : FirstRefused(c, i) /\ recent' = Used(Reserved(c, i))
      BY <1>2 DEF Begin
    <2> DEFINE w == Wanted[c]
               some == Reserved(c, i)
    <2>2. w \in Seq(Artifacts) /\ IsInjective(w) /\ i \in 1..Len(w) /\ Len(w) \in Nat /\ DOMAIN w = 1..Len(w)
      BY <1>0, <2>1
    <2>3. some = SubSeq(w, 1, i - 1)
      BY DEF Reserved
    <2>4. \A j \in 1..(i - 1) : Available(w[j])
      BY <2>1 DEF FirstRefused
    <2> HIDE DEF w
    <2>5. /\ SubSeq(w, 1, i - 1) \in Seq(Artifacts)
          /\ Len(SubSeq(w, 1, i - 1)) = i - 1
          /\ \A j \in 1..(i - 1) : SubSeq(w, 1, i - 1)[j] = w[j]
      BY <2>2
    <2>6. /\ some \in Seq(Artifacts) /\ DOMAIN some = 1..(i - 1)
          /\ \A j \in 1..(i - 1) : some[j] = w[j] /\ j \in DOMAIN w
      BY <2>2, <2>3, <2>5
    <2> HIDE DEF some
    <2>7. IsInjective(some)
      BY <2>2, <2>6 DEF IsInjective
    <2>8. ASSUME NEW a \in ToSet(some) PROVE a \in ToSet(recent)
      <3>1. a \in Artifacts /\ Available(a)
        BY <2>2, <2>4, <2>6 DEF ToSet
      <3> QED BY <3>1 DEF Available, Order
    <2>9. recent' = Used(some)
      BY <2>1 DEF some
    <2> QED BY <1>0, <2>6, <2>7, <2>8, <2>9, UsedOrder
  <1> QED BY <1>1, <1>2

LEMMA InitOrder == Init => Order
  <1> SUFFICES ASSUME Init PROVE Order
    OBVIOUS
  <1>1. recent = <<>> /\ \A a \in Artifacts : fate[a] = "unbuilt"
    BY DEF Init
  <1>2. /\ <<>> \in Seq(Artifacts) /\ Len(<<>>) = 0 /\ DOMAIN <<>> = {}
    OBVIOUS
  <1>3. IsInjective(<<>>) /\ ToSet(<<>>) = {}
    BY <1>2 DEF IsInjective, ToSet
  <1> QED BY <1>1, <1>2, <1>3, BoundsAssumption DEF Order

LEMMA OrderStep ==
    ASSUME Types, \A c \in Calls : Local(c), Leases, Order, [Next]_vars
    PROVE  Order'
  <1>1. ASSUME UNCHANGED <<fate, recent>> PROVE Order'
    BY <1>1 DEF Order
  <1>2. ASSUME NEW c \in Calls, Closing(c) PROVE Order'
    <2>1. Release(c)
      BY <1>2 DEF Closing, Answer
    <2> QED BY <2>1, ReleaseOrder
  <1>3. ASSUME NEW c \in Calls, Moves(c) \/ Desktop(c) PROVE Order'
    BY <1>1, <1>3 DEF Moves, Desktop, ReadWorkbook, GuardDelete, SendDelete, DeleteReported, Confirmed,
          GuardApply, BatchReported, CarryOutDelete, CarryOutApply, CarryOutNothing, store
  <1>4. ASSUME NEW c \in Calls, SendApply(c) \/ SingleEnds(c) PROVE Order'
    BY <1>1, <1>4, ConsumeOrder DEF SendApply, SingleEnds, store
  <1>5. CASE UserEdit \/ UNCHANGED vars
    BY <1>1, <1>5 DEF UserEdit, vars, store
  <1> QED BY <1>2, <1>3, <1>4, <1>5, BuildOrder, BeginOrder, Cases

-----------------------------------------------------------------------------
\* Type correctness.  A document is made from a workbook that was read.

Workbooks ==
    /\ built \in [Artifacts -> Writers]
    /\ doc \in Docs /\ edits \in 0..MaxEdits
    /\ lock \in Calls \cup {None}
    /\ read \in [Calls -> Docs \cup {None}]
    /\ base \in [Calls -> Docs \cup {None}]
    /\ \A c \in Calls : pc[c] = "apply" \/ op[c].kind = "apply" => base[c] \in Docs

LEMMA InitWorkbooks == Init => Workbooks
  <1> SUFFICES ASSUME Init PROVE Workbooks
    OBVIOUS
  <1>1. 0 \in 0..MaxEdits /\ 0 \in Writers
    BY BoundsAssumption DEF Writers
  <1>2. [sheet |-> [s \in Sheets |-> 0], dashboard |-> "old", hidden |-> FALSE] \in Docs
    BY <1>1 DEF Docs
  <1>3. \A c \in Calls : pc[c] = "idle" /\ op[c] = Idle
    BY DEF Init
  <1>4. \A c \in Calls : ~(pc[c] = "apply" \/ op[c].kind = "apply")
    BY <1>3 DEF Idle
  <1>5. /\ built \in [Artifacts -> Writers] /\ doc \in Docs /\ edits \in 0..MaxEdits /\ lock = None
        /\ read \in [Calls -> Docs \cup {None}] /\ base \in [Calls -> Docs \cup {None}]
    BY <1>1, <1>2 DEF Init
  <1> QED BY <1>4, <1>5 DEF Workbooks

\* A step that changes neither the workbooks nor who works with one.
LEMMA SameWorkbooks ==
    ASSUME Workbooks, UNCHANGED <<built, doc, edits, base>>, lock' \in Calls \cup {None},
           read' \in [Calls -> Docs \cup {None}],
           \A c \in Calls : pc'[c] = "apply" \/ op'[c].kind = "apply"
                               => pc[c] = "apply" \/ op[c].kind = "apply"
    PROVE  Workbooks'
  BY DEF Workbooks

LEMMA WorkbooksStep ==
    ASSUME Types, \A c \in Calls : Local(c), Workbooks, [Next]_vars
    PROVE  Workbooks'
  <1>t. Target \in [Artifacts -> Sheets] /\ MaxEdits \in Nat
    BY WantedAssumption, BoundsAssumption
  <1>d. /\ doc.sheet \in [Sheets -> Writers] /\ doc.dashboard \in {"none", "old"} \cup Batches
        /\ doc.hidden \in BOOLEAN
    BY DEF Workbooks, Docs
  <1>l. ASSUME NEW c \in Calls PROVE Leave(c) => lock' \in Calls \cup {None}
    BY DEF Leave, Workbooks
  <1>r. lock \in Calls \cup {None} /\ read \in [Calls -> Docs \cup {None}]
    BY DEF Workbooks
  <1>1. ASSUME NEW a \in Artifacts, Build(a) PROVE Workbooks'
    <2>1. doc.sheet[Target[a]] \in Writers
      BY <1>t, <1>d
    <2>2. built' \in [Artifacts -> Writers]
      BY <1>1, <2>1 DEF Build, Workbooks
    <2> QED BY <1>1, <2>2 DEF Build, Workbooks, desktop, local
  <1>2. ASSUME NEW c \in Calls, Begin(c) PROVE Workbooks'
    <2>1. UNCHANGED <<built, doc, edits, lock, read, base, op>>
      BY <1>2 DEF Begin, desktop, local
    <2>2. \A d \in Calls : pc'[d] = pc[d] \/ pc'[d] # "apply"
      BY <1>2 DEF Begin, Types
    <2> QED BY <1>r, <2>1, <2>2, SameWorkbooks
  <1>3. ASSUME NEW c \in Calls, Closing(c) PROVE Workbooks'
    <2>1. PICK applied \in Applieds, retrySafe \in BOOLEAN, note \in Notes : Answer(c, applied, retrySafe, note)
      BY <1>3 DEF Closing
    <2>2. UNCHANGED <<built, doc, edits, base, op>> /\ lock' \in Calls \cup {None}
      BY <1>l, <2>1 DEF Answer, Release, desktop
    <2>3. \A d \in Calls : pc'[d] = pc[d] \/ pc'[d] # "apply"
      BY <2>1 DEF Answer, Types
    <2>4. read' \in [Calls -> Docs \cup {None}]
      BY <1>r, <2>1 DEF Answer
    <2> QED BY <2>2, <2>3, <2>4, SameWorkbooks
  <1>4. ASSUME NEW c \in Calls, ReadWorkbook(c) PROVE Workbooks'
    <2>1. /\ UNCHANGED <<built, doc, edits, lock, op>>
          /\ read' = [read EXCEPT ![c] = doc] /\ base' = [base EXCEPT ![c] = doc]
      BY <1>4 DEF ReadWorkbook, store, desktop
    <2>2. \A d \in Calls : pc'[d] = pc[d] \/ pc'[d] # "apply"
      BY <1>4 DEF ReadWorkbook, Types
    <2> QED BY <2>1, <2>2 DEF Workbooks
  <1>5. ASSUME NEW c \in Calls, Confirmed(c) PROVE Workbooks'
    <2>1. UNCHANGED <<built, doc, edits, lock, op, read>> /\ base' = [base EXCEPT ![c] = doc]
      BY <1>5 DEF Confirmed, store, desktop
    <2>2. \A d \in Calls : pc'[d] = pc[d] \/ pc'[d] # "apply"
      BY <1>5 DEF Confirmed, Types
    <2> QED BY <2>1, <2>2 DEF Workbooks
  <1>6. ASSUME NEW c \in Calls, GuardApply(c) PROVE Workbooks'
    <2>1. UNCHANGED <<built, doc, edits, op, read>> /\ base' = [base EXCEPT ![c] = doc] /\ lock' = c
      BY <1>6 DEF GuardApply, store, desktop
    <2>2. \A d \in Calls \ {c} : pc'[d] = pc[d]
      BY <1>6 DEF GuardApply, Types
    <2> QED BY <2>1, <2>2 DEF Workbooks
  <1>7. ASSUME NEW c \in Calls, GuardDelete(c) \/ DeleteReported(c) \/ BatchReported(c) PROVE Workbooks'
    <2>1. UNCHANGED <<built, doc, edits, read, base, op>> /\ lock' \in Calls \cup {None}
      BY <1>7, <1>l DEF GuardDelete, DeleteReported, BatchReported, store, desktop, local
    <2>2. \A d \in Calls : pc'[d] = pc[d] \/ pc'[d] # "apply"
      BY <1>7 DEF GuardDelete, DeleteReported, BatchReported, Types
    <2> QED BY <1>r, <2>1, <2>2, SameWorkbooks
  <1>8. ASSUME NEW c \in Calls, SendDelete(c) PROVE Workbooks'
    <2>1. UNCHANGED <<built, doc, edits, lock, read, base>>
      BY <1>8 DEF SendDelete, store, desktop
    <2>2. \A d \in Calls : pc'[d] = pc[d] \/ pc'[d] # "apply"
      BY <1>8 DEF SendDelete, Types
    <2>3. \A d \in Calls : op'[d] = op[d] \/ op'[d].kind # "apply"
      BY <1>8 DEF SendDelete, Types
    <2> QED BY <1>r, <2>1, <2>2, <2>3, SameWorkbooks
  <1>9. ASSUME NEW c \in Calls, SendApply(c) PROVE Workbooks'
    <2>1. UNCHANGED <<built, doc, edits, lock, read, base>> /\ pc[c] = "apply"
      BY <1>9 DEF SendApply, Consume, store, desktop, local
    <2>2. \A d \in Calls \ {c} : pc'[d] = pc[d] /\ op'[d] = op[d]
      BY <1>9 DEF SendApply, Types
    <2> QED BY <1>r, <2>1, <2>2, SameWorkbooks
  <1>10. ASSUME NEW c \in Calls, SingleEnds(c) PROVE Workbooks'
    <2>1. UNCHANGED <<built, doc, edits, read, base, op>> /\ lock' \in Calls \cup {None}
      BY <1>10, <1>l DEF SingleEnds, Consume, desktop, local
    <2>2. \A d \in Calls : pc'[d] = pc[d] \/ pc'[d] # "apply"
      BY <1>10 DEF SingleEnds, Types
    <2> QED BY <1>r, <2>1, <2>2, SameWorkbooks
  <1>11. ASSUME NEW c \in Calls, Desktop(c) PROVE Workbooks'
    <2>1. UNCHANGED <<built, edits, lock, read, base, pc>>
      BY <1>11 DEF Desktop, CarryOutDelete, CarryOutApply, CarryOutNothing, store, desktop, local
    <2>2. \A d \in Calls : op'[d].kind = op[d].kind
      <3>1. PICK end \in {"done", "refused"} : op' = [op EXCEPT ![c].state = end]
        BY <1>11 DEF Desktop, CarryOutDelete, CarryOutApply, CarryOutNothing
      <3>2. op[c] \in Ops
        BY DEF Types
      <3>3. [op[c] EXCEPT !.state = end].kind = op[c].kind
        BY <3>2 DEF Ops
      <3> QED BY <3>1, <3>3 DEF Types
    <2>3. doc' \in Docs
      <3>1. CASE CarryOutDelete(c)
        <4>1. \/ doc' = doc
              \/ doc' = [doc EXCEPT !.dashboard = "none", !.hidden = FALSE]
              \/ doc' = [doc EXCEPT !.hidden = TRUE]
          BY <3>1 DEF CarryOutDelete
        <4>2. doc \in Docs
          BY DEF Workbooks
        <4> QED BY <4>1, <4>2 DEF Docs
      <3>2. CASE CarryOutApply(c)
        <4>1. base[c] \in Docs
          BY <3>2 DEF CarryOutApply, Workbooks
        <4> DEFINE b == base[c]
        <4>2. /\ b.sheet \in [Sheets -> Writers] /\ b.dashboard \in {"none", "old"} \cup Batches
              /\ b.hidden \in BOOLEAN /\ c \in Writers
          BY <4>1 DEF Docs, Writers
        <4>3. doc' = [sheet |-> [s \in Sheets |-> IF s \in Targets(c) THEN c ELSE b.sheet[s]],
                      dashboard |-> IF c \in Batches THEN c ELSE b.dashboard,
                      hidden |-> IF c \in Batches THEN FALSE ELSE b.hidden]
          BY <3>2 DEF CarryOutApply
        <4> HIDE DEF b
        <4> QED BY <4>2, <4>3 DEF Docs
      <3>3. CASE CarryOutNothing(c)
        BY <3>3 DEF CarryOutNothing, desktop, Workbooks
      <3> QED BY <1>11, <3>1, <3>2, <3>3 DEF Desktop
    <2> QED BY <2>1, <2>2, <2>3 DEF Workbooks
  <1>12. CASE UserEdit
    <2>1. UNCHANGED <<built, lock, pc, read, base, op>> /\ edits' = edits + 1 /\ edits < MaxEdits
      BY <1>12 DEF UserEdit, store, local
    <2>2. edits' \in 0..MaxEdits /\ edits' \in Writers
      BY <1>t, <2>1 DEF Workbooks, Writers
    <2>3. PICK s \in Sheets : doc' = [doc EXCEPT !.sheet[s] = edits']
      BY <1>12 DEF UserEdit
    <2>4. doc' \in Docs
      <3>1. doc \in Docs
        BY DEF Workbooks
      <3> QED BY <2>2, <2>3, <3>1 DEF Docs
    <2> QED BY <2>1, <2>2, <2>4 DEF Workbooks
  <1>13. CASE UNCHANGED vars
    BY <1>13 DEF vars, store, desktop, local, Workbooks
  <1>14. ASSUME NEW c \in Calls, Moves(c) PROVE Workbooks'
    BY <1>4, <1>5, <1>6, <1>7, <1>8, <1>14 DEF Moves
  <1> QED BY <1>1, <1>2, <1>3, <1>9, <1>10, <1>11, <1>12, <1>13, <1>14, Cases

\* The state keeps its type: in particular every lease is of a stored artifact by a call under
\* way, so that none outlives its call and no leased artifact is evicted or consumed by another,
\* and the store never holds more than its capacity (TemplateArtifactStore).
THEOREM TypeCorrect == Spec => []TypeOK
  <1>1. Init => Order /\ Workbooks
    BY InitOrder, InitWorkbooks
  <1>2. Inv /\ Order /\ Workbooks /\ [Next]_vars => Order' /\ Workbooks'
    BY OrderStep, WorkbooksStep DEF Inv
  <1>3. Inv /\ Order /\ Workbooks => TypeOK
    <2> SUFFICES ASSUME Inv, Order, Workbooks PROVE TypeOK
      OBVIOUS
    <2>1. ASSUME NEW a \in Artifacts, lease[a] # None
          PROVE  fate[a] = "stored" /\ a \in ToDo(lease[a]) /\ pc[lease[a]] \notin {"idle", "answered"}
      <3>1. lease[a] \in Calls
        BY <2>1 DEF Inv, Types
      <3> QED BY <3>1 DEF Inv, Leases, Holds
    <2> QED BY <2>1 DEF Inv, Types, Pcs, Ops, Order, Workbooks, TypeOK
  <1> QED BY <1>1, <1>2, <1>3, InvHolds, PTL DEF Spec
=============================================================================
