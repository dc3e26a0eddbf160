------------------------ MODULE MutationGuardProofs ------------------------
(***************************************************************************)
(* For any number of calls: a preview lets at most one mutation through,   *)
(* and the mutation is the one it previewed.  The invariant follows a      *)
(* nonce or an approval from the preview that gives it to the confirm that *)
(* takes it: it is in a cache or with one confirm, never both.             *)
(* The second part is about markers and records: what a deletion saw of    *)
(* the use of its content, which markers a removal has taken off, and that *)
(* a record tells what was sent.                                           *)
(***************************************************************************)
EXTENDS MutationGuard, TLAPS

\* The types the argument needs.
Shapes ==
    /\ approvals \in [Keys -> Calls \union {None}]
    /\ nonces \in [Keys -> Calls \union {None}]
    /\ request \in [Calls -> Requests \union {None}]
    /\ pc \in [Calls -> Steps]
    /\ proof \in [Calls -> Calls \union {None}]
    /\ audit \in [Calls -> Seq(Results)]
    /\ sent \subseteq Calls
    /\ applied \subseteq Calls

\* A call has arguments once it has begun, and neither a proof nor a request before.
BegunAt(c) ==
    /\ pc[c] = "idle" => proof[c] = None /\ c \notin sent \union applied
    /\ pc[c] # "idle" => request[c] \in Requests

\* The calls that still have their record to write.
Unrecorded == {"idle", "reading", "lookup", "admin", "tag", "nonce", "approval", "check",
               "establish", "act", "waiting", "untag"}

\* A preview the guard has allowed.
Allowed(p) ==
    /\ pc[p] \in {"present", "done", "lost"}
    /\ request[p] \in Requests
    /\ request[p].phase = "preview"
    /\ audit[p] = <<"allowed">>

\* Where a call can be, by what it asks for and what it has recorded.
PlacedAt(c) ==
    /\ pc[c] \in Unrecorded => audit[c] = <<>>
    /\ pc[c] = "establish" => request[c].phase = "preview"
    /\ pc[c] = "present" => Allowed(c) /\ request[c].app
    /\ pc[c] = "nonce" => ~IsPanelTool(request[c])
    /\ pc[c] = "approval" => IsPanelTool(request[c])
    /\ pc[c] = "tag" => OnContent(request[c])

\* Tokens are those previews have shown.
TokenAt(c) ==
    pc[c] # "idle" /\ request[c].token # None => Shown(request[c].token)

Calling == \A c \in Calls : BegunAt(c) /\ PlacedAt(c) /\ TokenAt(c)

\* What a cache holds is the preview its key describes.
NonceAt(key) ==
    nonces[key] # None => Allowed(nonces[key]) /\ KeyOf(request[nonces[key]]) = key

ApprovalAt(key) ==
    approvals[key] # None =>
        /\ Allowed(approvals[key]) /\ KeyOf(request[approvals[key]]) = key
        /\ pc[approvals[key]] = "done" /\ request[approvals[key]].app

Cached == \A key \in Keys : NonceAt(key) /\ ApprovalAt(key)

\* What a confirm has taken is no longer in the cache it took it from.
TakenFrom(p) ==
    IF request[p].app THEN \A key \in Keys : approvals[key] # p
                      ELSE \A key \in Keys : nonces[key] # p

ProofAt(c) ==
    proof[c] # None =>
        /\ Allowed(proof[c]) /\ pc[proof[c]] = "done"
        /\ KeyOf(request[proof[c]]) = KeyOf(request[c])
        /\ TakenFrom(proof[c])

Taken == (\A c \in Calls : ProofAt(c)) /\ ProofSpentOnce

\* A mutation that needs a nonce or an approval has one before it is asked for.
NeedsProof(c) == Mutates(request[c]) /\ (UsesNonce(request[c]) \/ UsesApproval(request[c]))

ClearedAt(c) ==
    \/ pc[c] \in {"act", "waiting", "check"}
    \/ c \in sent \union applied

Cleared == \A c \in Calls : ClearedAt(c) /\ NeedsProof(c) => proof[c] # None

Inv == Shapes /\ Calling /\ Cached /\ Taken /\ Cleared

-----------------------------------------------------------------------------
\* Most steps of a call only take it further: they touch no cache, no argument and no proof.
Walk(c, step) ==
    /\ pc[c] \in Unrecorded \ {"idle"}
    /\ step \in Steps \ {"idle", "lost"}
    /\ pc' = [pc EXCEPT ![c] = step]
    /\ \/ audit' = audit /\ step # "present"
       \/ \E result \in Results : Record(c, result) /\ step \notin Unrecorded
                                  /\ (step = "present" => result = "allowed")
    /\ step = "establish" => request[c].phase = "preview"
    /\ step = "present" => request[c].phase = "preview" /\ request[c].app
    /\ step = "nonce" => ~IsPanelTool(request[c])
    /\ step = "approval" => IsPanelTool(request[c])
    /\ step = "tag" => OnContent(request[c])
    /\ step \in {"act", "waiting", "check"} /\ NeedsProof(c) => pc[c] \in {"act", "check"}
    /\ sent' \union applied' \subseteq sent \union applied \union {c}
    /\ c \in sent' \union applied' /\ NeedsProof(c) =>
         c \in sent \union applied \/ pc[c] = "act"
    /\ sent' \subseteq Calls /\ applied' \subseteq Calls
    /\ UNCHANGED <<caches, request, proof>>

Walks(c) == \E step \in Steps : Walk(c, step)

\* A call begins.
Begins(c) == \E step \in {"admin", "lookup", "reading"}, r \in Requests :
    /\ Begin(c, step, r)
    /\ r.token # None => Shown(r.token)

\* What happens without a call going on.
Stands ==
    /\ UNCHANGED <<caches, callVars>>
    /\ sent' \union applied' = sent \union applied
    /\ sent' \subseteq Calls /\ applied' \subseteq Calls

Forgets ==
    /\ \A key \in Keys : approvals'[key] \in {approvals[key], None}
    /\ \A key \in Keys : nonces'[key] \in {nonces[key], None}
    /\ approvals' \in [Keys -> Calls \union {None}] /\ nonces' \in [Keys -> Calls \union {None}]
    /\ \/ pc' = pc
       \/ pc' = [c \in Calls |-> IF pc[c] \in Ended \union {"idle"} THEN pc[c] ELSE "lost"]
    /\ UNCHANGED <<request, proof, audit, sent, applied>>

Shift ==
    \/ Stands \/ Forgets
    \/ \E c \in Calls : Walks(c) \/ Begins(c) \/ VerifyNonce(c) \/ VerifyApproval(c)
                        \/ EstablishNonce(c) \/ Approve(c)

USE DEF At, Goto

LEMMA BeginsWith ==
    ASSUME NEW tool \in Tools, NEW phase \in Phases, NEW user \in Users, NEW target \in Targets,
           NEW batch \in Batches, NEW new \in Schedules \union {None},
           NEW token \in Tokens, NEW app \in BOOLEAN, day \in Days,
           NEW c \in Calls, NEW step \in {"admin", "lookup", "reading"},
           Begin(c, step, Arguments(tool, phase, user, target, batch, new, token, app))
    PROVE  Begins(c)
<1> DEFINE r == Arguments(tool, phase, user, target, batch, new, token, app)
<1>1. token \in Calls \union {None} /\ (token # None => Shown(token))
  BY DEF Tokens
<1>2. r \in Requests /\ r.token = token
  BY <1>1 DEF Arguments, Requests
<1> QED BY <1>1, <1>2 DEF Begins

LEMMA BeginShift ==
    ASSUME NEW c \in Calls, day \in Days,
           DeleteContent(c) \/ DeleteTask(c) \/ UpdateTask(c) \/ ConfirmDeleteContent(c)
             \/ ConfirmUpdateTask(c) \/ RemovePendingTags(c)
    PROVE  Begins(c)
<1>0. /\ NoBatch \in Batches /\ RecentBatches \subseteq Batches
      /\ None \in Tokens /\ None \in Schedules \union {None}
      /\ Schedules \subseteq Schedules \union {None}
      /\ Contents \subseteq Targets /\ Tasks \subseteq Targets
      /\ TRUE \in BOOLEAN /\ FALSE \in BOOLEAN /\ "confirm" \in Phases
      /\ {"delete-content", "confirm-delete-content", "update-task", "confirm-update-task",
          "remove-pending-tags"} \subseteq Tools
  BY DEF Batches, RecentBatches, Tokens, Targets, Phases, Tools
<1>1. CASE DeleteContent(c)
  <2>1. PICK user \in Users, phase \in Phases, target \in Contents, batch \in RecentBatches,
             app \in BOOLEAN :
          Begin(c, "admin",
                Arguments("delete-content", phase, user, target, batch, None, None, app))
    BY <1>1 DEF DeleteContent
  <2> QED BY <1>0, <2>1, BeginsWith
<1>2. CASE DeleteTask(c)
  <2>1. PICK user \in Users, phase \in Phases, target \in Tasks, token \in Tokens,
             app \in BOOLEAN :
          Begin(c, "lookup",
                Arguments("delete-content", phase, user, target, NoBatch, None, token, app))
    BY <1>2 DEF DeleteTask
  <2> QED BY <1>0, <2>1, BeginsWith
<1>3. CASE UpdateTask(c)
  <2>1. PICK user \in Users, phase \in Phases, target \in Tasks, new \in Schedules,
             token \in Tokens, app \in BOOLEAN :
          Begin(c, "admin",
                Arguments("update-task", phase, user, target, NoBatch, new, token, app))
    BY <1>3 DEF UpdateTask
  <2> QED BY <1>0, <2>1, BeginsWith
<1>4. CASE ConfirmDeleteContent(c)
  <2>1. PICK user \in Users, target \in Targets, batch \in Batches :
          Begin(c, "admin", Arguments("confirm-delete-content", "confirm", user, target,
                                      batch, None, None, TRUE))
    BY <1>0, <1>4 DEF ConfirmDeleteContent
  <2> QED BY <1>0, <2>1, BeginsWith
<1>5. CASE ConfirmUpdateTask(c)
  <2>1. PICK user \in Users, target \in Tasks, new \in Schedules :
          Begin(c, "admin", Arguments("confirm-update-task", "confirm", user, target,
                                      NoBatch, new, None, TRUE))
    BY <1>5 DEF ConfirmUpdateTask
  <2> QED BY <1>0, <2>1, BeginsWith
<1>6. CASE RemovePendingTags(c)
  <2>1. PICK user \in Users, target \in Contents, batch \in Batches :
          Begin(c, "reading", Arguments("remove-pending-tags", "confirm", user, target,
                                        batch, None, None, FALSE))
    BY <1>6 DEF RemovePendingTags
  <2> QED BY <1>0, <2>1, BeginsWith
<1> QED BY <1>1, <1>2, <1>3, <1>4, <1>5, <1>6

LEMMA WalkShift ==
    ASSUME Inv, NEW c \in Calls,
           \/ Refuse(c) \/ ReadMarkers(c) \/ Lookup(c) \/ AssertAdmin(c) \/ VerifyTag(c)
           \/ Precondition(c) \/ EstablishTag(c) \/ Throw(c) \/ Send(c) \/ Complete(c) \/ Fail(c)
           \/ RemoveTag(c) \/ RemoveTagFails(c) \/ TagsRemoved(c)
    PROVE  Walks(c)
<1> USE DEF Inv, Walks, Walk, Unrecorded, Steps
<1>0. /\ pc \in [Calls -> Steps] /\ sent \subseteq Calls /\ applied \subseteq Calls
      /\ PlacedAt(c)
      /\ {"allowed", "denied", "completed", "failed"} \subseteq Results
  BY DEF Shapes, Calling, Results
<1>1. CASE Refuse(c)
  BY <1>0, <1>1 DEF Refuse, history, callVars, tableau, caches
<1>2. CASE ReadMarkers(c)
  BY <1>0, <1>2 DEF ReadMarkers, caches, tableau
<1>3. CASE Lookup(c)
  BY <1>0, <1>3 DEF Lookup, history, caches
<1>4. CASE AssertAdmin(c)
  <2>1. CASE request[c].user \in admins
    BY <1>0, <1>4, <2>1 DEF AssertAdmin, AfterAdmin, NeedsProof, Mutates, UsesNonce,
       UsesApproval, Finish, history, caches
  <2>2. CASE request[c].user \notin admins
    BY <1>0, <1>4, <2>2 DEF AssertAdmin, Finish, history, caches
  <2> QED BY <2>1, <2>2
<1>5. CASE VerifyTag(c)
  <2>1. CASE Finish(c, "denied")
    BY <1>0, <1>5, <2>1 DEF VerifyTag, Finish, history, caches
  <2>2. CASE ~Finish(c, "denied") /\ IsPanelTool(request[c])
    BY <1>0, <1>5, <2>2 DEF VerifyTag, history, caches
  <2>3. CASE ~Finish(c, "denied") /\ ~IsPanelTool(request[c])
    BY <1>0, <1>5, <2>3 DEF VerifyTag, history, caches, PlacedAt, NeedsProof, UsesNonce, UsesApproval
  <2> QED BY <2>1, <2>2, <2>3
<1>6. CASE Precondition(c)
  <2>1. CASE Finish(c, "denied")
    BY <1>0, <1>6, <2>1 DEF Precondition, Finish, history, caches
  <2>2. CASE ~Finish(c, "denied")
    BY <1>0, <1>6, <2>2 DEF Precondition, history, caches
  <2> QED BY <2>1, <2>2
<1>7. CASE EstablishTag(c)
  <2>1. /\ request[c].phase = "preview" /\ ~NeedsProof(c)
        /\ sent' = sent /\ applied' = applied \union {c}
        /\ UNCHANGED <<caches, request, proof>>
    BY <1>0, <1>7 DEF EstablishTag, PlacedAt, NeedsProof, Mutates
  <2>2. CASE Allow(c)
    <3>1. At(c, "establish") /\ Record(c, "allowed") /\ AfterEstablish(request[c]) \in Steps
          /\ pc' = [pc EXCEPT ![c] = AfterEstablish(request[c])]
      BY <1>7, <2>2 DEF EstablishTag, Allow, AfterEstablish
    <3>2. CASE request[c].app
      BY <1>0, <2>1, <3>1, <3>2 DEF AfterEstablish
    <3>3. CASE ~request[c].app
      <4>1. AfterEstablish(request[c]) = "done"
        BY <3>3 DEF AfterEstablish
      <4>2. Walk(c, "done")
        BY <1>0, <2>1, <3>1, <4>1
      <4> QED BY <4>2
    <3> QED BY <3>2, <3>3
  <2>3. CASE ~Allow(c)
    BY <1>0, <1>7, <2>1, <2>3 DEF EstablishTag
  <2> QED BY <2>2, <2>3
<1>8. CASE Throw(c)
  BY <1>0, <1>8 DEF Throw, history, caches
<1>9. CASE Send(c)
  BY <1>0, <1>9 DEF Send, history, caches
<1>10. CASE Complete(c)
  BY <1>0, <1>10 DEF Complete, Finish, history, caches
<1>11. CASE Fail(c)
  BY <1>0, <1>11 DEF Fail, Finish, history, caches
<1>12. CASE RemoveTag(c)
  BY <1>0, <1>12 DEF RemoveTag, history, caches
<1>13. CASE RemoveTagFails(c)
  BY <1>0, <1>13 DEF RemoveTagFails, Finish, history, caches
<1>14. CASE TagsRemoved(c)
  BY <1>0, <1>14 DEF TagsRemoved, Finish, history, caches
<1> QED BY <1>1, <1>2, <1>3, <1>4, <1>5, <1>6, <1>7, <1>8, <1>9, <1>10, <1>11, <1>12, <1>13, <1>14

LEMMA NextShift ==
    ASSUME Inv, day \in Days, [Next]_vars
    PROVE  Shift
<1> USE DEF Shift
<1>0. /\ approvals \in [Keys -> Calls \union {None}] /\ nonces \in [Keys -> Calls \union {None}]
      /\ sent \subseteq Calls /\ applied \subseteq Calls
  BY DEF Inv, Shapes
<1>1. CASE UNCHANGED vars
  BY <1>0, <1>1 DEF vars, history, Stands
<1>2. CASE \E c \in Calls : Call(c)
  <2> PICK c \in Calls : Call(c)
    BY <1>2
  <2>1. CASE \/ DeleteContent(c) \/ DeleteTask(c) \/ UpdateTask(c) \/ ConfirmDeleteContent(c)
             \/ ConfirmUpdateTask(c) \/ RemovePendingTags(c)
    BY <2>1, BeginShift
  <2>2. CASE \/ Refuse(c) \/ ReadMarkers(c) \/ Lookup(c) \/ AssertAdmin(c) \/ VerifyTag(c)
             \/ Precondition(c) \/ EstablishTag(c) \/ Throw(c) \/ Send(c) \/ Complete(c)
             \/ Fail(c) \/ RemoveTag(c) \/ RemoveTagFails(c) \/ TagsRemoved(c)
    BY <2>2, WalkShift
  <2>3. CASE Execute(c)
    BY <1>0, <2>3 DEF Execute, Stands
  <2>4. CASE VerifyNonce(c) \/ VerifyApproval(c) \/ EstablishNonce(c) \/ Approve(c)
    BY <2>4
  <2> QED BY <2>1, <2>2, <2>3, <2>4 DEF Call
<1>3. CASE Environment
  <2>1. CASE NextDay
    BY <1>0, <2>1 DEF NextDay, history, Stands
  <2>2. CASE \E user \in Users : Demote(user)
    BY <1>0, <2>2 DEF Demote, history, Stands
  <2>3. CASE \E i \in Contents : ShowUse(i)
    BY <1>0, <2>3 DEF ShowUse, history, Stands
  <2>4. CASE \E key \in Keys : Expire(key)
    BY <1>0, <2>4 DEF Expire, history, callVars, Forgets
  <2>5. CASE Restart
    BY <1>0, <2>5 DEF Restart, history, Forgets
  <2> QED BY <1>3, <2>1, <2>2, <2>3, <2>4, <2>5 DEF Environment
<1> QED BY <1>1, <1>2, <1>3 DEF Next

-----------------------------------------------------------------------------
\* What a preview was stays so once the guard has allowed it.
LEMMA AllowedStays ==
    ASSUME Inv, Shift, NEW p \in Calls, Allowed(p)
    PROVE  /\ Allowed(p)' /\ request'[p] = request[p]
           /\ pc[p] = "done" => pc'[p] = "done"
           /\ pc[p] = "lost" => pc'[p] = "lost"
<1> USE DEF Allowed
<1>0. pc \in [Calls -> Steps] /\ audit \in [Calls -> Seq(Results)]
      /\ request \in [Calls -> Requests \union {None}]
  BY DEF Inv, Shapes
<1>1. CASE Stands
  BY <1>1 DEF Stands, callVars
<1>2. CASE Forgets
  BY <1>0, <1>2 DEF Forgets, Ended
<1>3. ASSUME NEW c \in Calls, Walks(c)
      PROVE  UNCHANGED <<pc[p], audit[p], request[p]>>
  <2>1. c # p
    BY <1>3 DEF Walks, Walk, Unrecorded
  <2> QED BY <1>0, <1>3, <2>1 DEF Walks, Walk, Record
<1>4. ASSUME NEW c \in Calls, Begins(c)
      PROVE  UNCHANGED <<pc[p], audit[p], request[p]>>
  BY <1>0, <1>4 DEF Begins, Begin
<1>5. ASSUME NEW c \in Calls, VerifyNonce(c) \/ VerifyApproval(c) \/ EstablishNonce(c)
      PROVE  UNCHANGED <<pc[p], audit[p], request[p]>>
  <2>1. c # p
    BY <1>5 DEF VerifyNonce, VerifyApproval, EstablishNonce
  <2>2. CASE VerifyNonce(c)
    BY <1>0, <2>1, <2>2 DEF VerifyNonce, Finish, Record
  <2>3. CASE VerifyApproval(c)
    BY <1>0, <2>1, <2>3 DEF VerifyApproval, Finish, Record
  <2>4. CASE EstablishNonce(c)
    BY <1>0, <2>1, <2>4 DEF EstablishNonce, Allow, Record
  <2> QED BY <1>5, <2>2, <2>3, <2>4
<1>6. ASSUME NEW c \in Calls, Approve(c)
      PROVE  /\ UNCHANGED <<audit[p], request[p]>>
             /\ pc'[p] = pc[p] \/ (pc[p] = "present" /\ pc'[p] = "done")
  <2>1. pc[c] = "present" /\ pc' = [pc EXCEPT ![c] = "done"] /\ audit' = audit /\ request' = request
    BY <1>6 DEF Approve
  <2>2. pc'[p] = IF c = p THEN "done" ELSE pc[p]
    BY <1>0, <2>1
  <2>3. UNCHANGED <<audit[p], request[p]>>
    BY <2>1
  <2>4. CASE c = p
    BY <2>1, <2>2, <2>3, <2>4
  <2>5. CASE c # p
    BY <2>1, <2>2, <2>3, <2>5
  <2> QED BY <2>4, <2>5
<1> QED BY <1>1, <1>2, <1>3, <1>4, <1>5, <1>6 DEF Shift

LEMMA ShownStays ==
    ASSUME Inv, Shift, NEW p \in Calls, Shown(p)
    PROVE  Allowed(p) /\ Shown(p)'
<1>1. Allowed(p)
  BY DEF Inv, Calling, BegunAt, Shown, Allowed
<1>2. pc[p] = "done" /\ ~request[p].app
  BY DEF Shown
<1>3. Allowed(p)' /\ request'[p] = request[p] /\ pc'[p] = "done"
  BY <1>1, <1>2, AllowedStays
<1> QED BY <1>1, <1>2, <1>3 DEF Shown, Allowed

LEMMA KeyTyped ==
    ASSUME NEW r \in Requests
    PROVE  KeyOf(r) \in Keys
<1>1. PreviewTool(r.tool) \in Tools
  BY DEF PreviewTool, Requests, Tools
<1> QED BY <1>1 DEF KeyOf, Keys, Requests

LEMMA RecordTyped ==
    ASSUME audit \in [Calls -> Seq(Results)], NEW c \in Calls, NEW result \in Results,
           Record(c, result)
    PROVE  audit' \in [Calls -> Seq(Results)]
<1>1. Append(audit[c], result) \in Seq(Results)
  OBVIOUS
<1> QED BY <1>1 DEF Record

LEMMA ShapesStep ==
    ASSUME Inv, Shift
    PROVE  Shapes'
<1> USE DEF Shapes
<1>0. Shapes /\ {"allowed", "denied", "completed", "failed"} \subseteq Results
  BY DEF Inv, Results
<1>1. CASE Stands
  BY <1>0, <1>1 DEF Stands, callVars, caches
<1>2. CASE Forgets
  BY <1>0, <1>2 DEF Forgets, Steps
<1>3. ASSUME NEW c \in Calls, Walks(c)
      PROVE  Shapes'
  <2>1. PICK step \in Steps : Walk(c, step)
    BY <1>3 DEF Walks
  <2>2. audit' \in [Calls -> Seq(Results)]
    <3>1. CASE audit' = audit
      BY <1>0, <3>1
    <3>2. CASE audit' # audit
      <4>1. PICK result \in Results : Record(c, result)
        BY <2>1, <3>2 DEF Walk
      <4> QED BY <1>0, <4>1, RecordTyped
    <3> QED BY <3>1, <3>2
  <2>3. pc' \in [Calls -> Steps]
    BY <1>0, <2>1 DEF Walk
  <2> QED BY <1>0, <2>1, <2>2, <2>3 DEF Walk, caches
<1>4. ASSUME NEW c \in Calls, Begins(c)
      PROVE  Shapes'
  BY <1>0, <1>4 DEF Begins, Begin, caches, Steps
<1>5. ASSUME NEW c \in Calls, VerifyNonce(c) \/ VerifyApproval(c)
      PROVE  Shapes'
  <2>1. UNCHANGED <<request, sent, applied>>
    BY <1>5 DEF VerifyNonce, VerifyApproval, history
  <2>2. audit' \in [Calls -> Seq(Results)]
    BY <1>0, <1>5, RecordTyped DEF VerifyNonce, VerifyApproval, Finish
  <2>3. pc' \in [Calls -> Steps]
    <3>1. AfterProof(request[c]) \in Steps /\ "done" \in Steps
      BY DEF AfterProof, Steps
    <3>2. pc' = [pc EXCEPT ![c] = AfterProof(request[c])] \/ pc' = [pc EXCEPT ![c] = "done"]
      BY <1>5 DEF VerifyNonce, VerifyApproval, Finish
    <3> QED BY <1>0, <3>1, <3>2
  <2>4. /\ approvals' \in [Keys -> Calls \union {None}]
        /\ nonces' \in [Keys -> Calls \union {None}]
    BY <1>0, <1>5 DEF VerifyNonce, VerifyApproval
  <2>5. proof' \in [Calls -> Calls \union {None}]
    <3>1. CASE VerifyNonce(c)
      <4>0. pc[c] = "nonce" /\ request[c] \in Requests
        <5>1. pc[c] = "nonce"
          BY <3>1 DEF VerifyNonce
        <5> QED BY <5>1 DEF Inv, Calling, BegunAt
      <4>1. \/ proof' = proof
            \/ (/\ request[c].token = nonces[KeyOf(request[c])]
                /\ proof' = [proof EXCEPT ![c] = request[c].token])
        BY <3>1 DEF VerifyNonce
      <4>2. CASE proof' = proof
        BY <1>0, <4>2
      <4>3. CASE proof' # proof
        <5>1. request[c].token \in Calls \union {None}
          BY <4>0 DEF Requests
        <5> QED BY <1>0, <4>1, <4>3, <5>1
      <4> QED BY <4>2, <4>3
    <3>2. CASE VerifyApproval(c)
      <4>1. KeyOf(request[c]) \in Keys
        <5>1. pc[c] = "approval"
          BY <3>2 DEF VerifyApproval
        <5>2. request[c] \in Requests
          BY <5>1 DEF Inv, Calling, BegunAt
        <5> QED BY <5>2, KeyTyped
      <4> QED BY <1>0, <3>2, <4>1 DEF VerifyApproval
    <3> QED BY <1>5, <3>1, <3>2
  <2> QED BY <1>0, <2>1, <2>2, <2>3, <2>4, <2>5
<1>6. ASSUME NEW c \in Calls, EstablishNonce(c) \/ Approve(c)
      PROVE  Shapes'
  <2>1. AfterEstablish(request[c]) \in Steps /\ "done" \in Steps
    BY DEF AfterEstablish, Steps
  <2>2. CASE EstablishNonce(c)
    <3>1. audit' \in [Calls -> Seq(Results)]
      BY <1>0, <2>2, RecordTyped DEF EstablishNonce, Allow
    <3> QED BY <1>0, <2>1, <2>2, <3>1 DEF EstablishNonce, Allow, history
  <2>3. CASE Approve(c)
    BY <1>0, <2>1, <2>3 DEF Approve, history
  <2> QED BY <1>6, <2>2, <2>3
<1> QED BY <1>1, <1>2, <1>3, <1>4, <1>5, <1>6 DEF Shift

-----------------------------------------------------------------------------
\* What no step of call d itself touches is as it was.
Untouched(d) ==
    /\ UNCHANGED <<pc[d], audit[d], request[d], proof[d]>>
    /\ d \in sent' \union applied' => d \in sent \union applied

\* The steps that are a call's own.
Own(d) == Walks(d) \/ Begins(d) \/ VerifyNonce(d) \/ VerifyApproval(d) \/ EstablishNonce(d)
          \/ Approve(d)

LEMMA OthersUntouched ==
    ASSUME Inv, NEW c \in Calls, NEW d \in Calls, c # d, Own(c)
    PROVE  Untouched(d)
<1> USE DEF Untouched
<1>0. /\ pc \in [Calls -> Steps] /\ audit \in [Calls -> Seq(Results)]
      /\ request \in [Calls -> Requests \union {None}]
      /\ proof \in [Calls -> Calls \union {None}]
  BY DEF Inv, Shapes
<1>1. CASE Walks(c)
  BY <1>0, <1>1 DEF Walks, Walk, Record
<1>2. CASE Begins(c)
  BY <1>0, <1>2 DEF Begins, Begin
<1>3. CASE VerifyNonce(c)
  BY <1>0, <1>3 DEF VerifyNonce, Finish, Record, history
<1>4. CASE VerifyApproval(c)
  BY <1>0, <1>4 DEF VerifyApproval, Finish, Record, history
<1>5. CASE EstablishNonce(c)
  BY <1>0, <1>5 DEF EstablishNonce, Allow, Record, history
<1>6. CASE Approve(c)
  BY <1>0, <1>6 DEF Approve, history
<1> QED BY <1>1, <1>2, <1>3, <1>4, <1>5, <1>6 DEF Own

\* A step is call d's own, or leaves d as it was, or ends d in a restart.
LEMMA StepOf ==
    ASSUME Inv, Shift, NEW d \in Calls
    PROVE  \/ Own(d)
           \/ Untouched(d)
           \/ /\ pc[d] \notin {"idle", "done"} /\ pc'[d] = "lost"
              /\ UNCHANGED <<audit[d], request[d], proof[d], sent, applied>>
<1>1. CASE Stands
  BY <1>1 DEF Stands, callVars, Untouched
<1>2. CASE Forgets
  BY <1>2 DEF Forgets, Untouched, Inv, Shapes, Ended
<1>3. CASE \E c \in Calls : Own(c)
  <2> PICK c \in Calls : Own(c)
    BY <1>3
  <2> QED BY OthersUntouched
<1> QED BY <1>1, <1>2, <1>3 DEF Shift, Own

LEMMA BegunStep ==
    ASSUME Inv, Shift, NEW d \in Calls
    PROVE  BegunAt(d)'
<1> USE DEF BegunAt
<1>0. /\ BegunAt(d) /\ pc \in [Calls -> Steps]
      /\ request \in [Calls -> Requests \union {None}]
  BY DEF Inv, Shapes, Calling
<1>1. CASE Untouched(d)
  BY <1>0, <1>1 DEF Untouched
<1>2. CASE pc'[d] = "lost" /\ request'[d] = request[d] /\ pc[d] # "idle"
  BY <1>0, <1>2
<1>3. CASE Walks(d)
  BY <1>0, <1>3 DEF Walks, Walk, Unrecorded
<1>4. CASE Begins(d)
  BY <1>0, <1>4 DEF Begins, Begin
<1>5. CASE VerifyNonce(d) \/ VerifyApproval(d) \/ EstablishNonce(d) \/ Approve(d)
  <2>1. pc[d] # "idle" /\ request' = request
    BY <1>5 DEF VerifyNonce, VerifyApproval, EstablishNonce, Approve
  <2>2. pc'[d] # "idle"
    BY <1>0, <1>5 DEF VerifyNonce, VerifyApproval, EstablishNonce, Approve, Finish, Allow,
       AfterProof, AfterEstablish
  <2> QED BY <1>0, <2>1, <2>2
<1> QED BY <1>1, <1>2, <1>3, <1>4, <1>5, StepOf DEF Own

LEMMA PlacedStep ==
    ASSUME Inv, Shift, NEW d \in Calls
    PROVE  PlacedAt(d)'
<1> USE DEF PlacedAt, Unrecorded
<1>0. /\ BegunAt(d) /\ PlacedAt(d) /\ pc \in [Calls -> Steps]
      /\ request \in [Calls -> Requests \union {None}]
      /\ audit \in [Calls -> Seq(Results)]
  BY DEF Inv, Shapes, Calling
<1>1. CASE Untouched(d)
  BY <1>0, <1>1 DEF Untouched, Allowed
<1>2. CASE pc'[d] = "lost"
  BY <1>2
<1>3. CASE Walks(d)
  <2>1. PICK step \in Steps : Walk(d, step)
    BY <1>3 DEF Walks
  <2>2. /\ pc'[d] = step /\ request' = request /\ request[d] \in Requests /\ audit[d] = <<>>
    BY <1>0, <2>1 DEF Walk, BegunAt
  <2>3. CASE audit' = audit /\ step # "present"
    BY <2>1, <2>2, <2>3 DEF Walk
  <2>4. ASSUME NEW result \in Results, Record(d, result), step \notin Unrecorded,
               step = "present" => result = "allowed"
        PROVE  PlacedAt(d)'
    <3>1. audit'[d] = <<result>>
      BY <1>0, <2>2, <2>4 DEF Record
    <3>2. step = "present" => Allowed(d)' /\ request'[d].app
      BY <2>1, <2>2, <2>4, <3>1 DEF Walk, Allowed
    <3> QED BY <2>2, <2>4, <3>2
  <2> QED BY <2>1, <2>3, <2>4 DEF Walk
<1>4. CASE Begins(d)
  BY <1>0, <1>4 DEF Begins, Begin
<1>5. CASE VerifyNonce(d) \/ VerifyApproval(d)
  <2>1. pc'[d] = "done" \/ (pc'[d] \in {"check", "act"} /\ audit'[d] = audit[d])
    BY <1>0, <1>5 DEF VerifyNonce, VerifyApproval, Finish, AfterProof
  <2>2. pc[d] \in Unrecorded
    BY <1>5 DEF VerifyNonce, VerifyApproval
  <2> QED BY <1>0, <2>1, <2>2
<1>6. CASE EstablishNonce(d)
  <2>1. /\ pc[d] = "establish" /\ request' = request /\ Record(d, "allowed")
        /\ pc'[d] = AfterEstablish(request[d])
    BY <1>0, <1>6 DEF EstablishNonce, Allow
  <2>2. request[d] \in Requests /\ request[d].phase = "preview" /\ audit'[d] = <<"allowed">>
    BY <1>0, <2>1 DEF BegunAt, Record
  <2>3. CASE request[d].app
    BY <2>1, <2>2, <2>3 DEF AfterEstablish, Allowed
  <2>4. CASE ~request[d].app
    BY <2>1, <2>2, <2>4 DEF AfterEstablish
  <2> QED BY <2>3, <2>4
<1>7. CASE Approve(d)
  BY <1>0, <1>7 DEF Approve
<1> QED BY <1>1, <1>2, <1>3, <1>4, <1>5, <1>6, <1>7, StepOf DEF Own

LEMMA TokenStep ==
    ASSUME Inv, Shift, NEW d \in Calls
    PROVE  TokenAt(d)'
<1> USE DEF TokenAt
<1>0. /\ TokenAt(d) /\ BegunAt(d) /\ request \in [Calls -> Requests \union {None}]
  BY DEF Inv, Shapes, Calling
<1>1. ASSUME NEW t \in Calls, Shown(t)
      PROVE  Shown(t)'
  BY <1>1, ShownStays
<1>2. CASE request'[d] = request[d] /\ (pc[d] = "idle" => pc'[d] = "idle")
  <2>1. pc[d] # "idle" => request[d].token \in Calls \union {None}
    BY <1>0 DEF BegunAt, Requests
  <2> QED BY <1>0, <1>1, <1>2, <2>1
<1>3. CASE Begins(d)
  <2>1. PICK r \in Requests : request'[d] = r /\ (r.token # None => Shown(r.token))
    BY <1>0, <1>3 DEF Begins, Begin
  <2>2. r.token \in Calls \union {None}
    BY DEF Requests
  <2> QED BY <1>1, <2>1, <2>2
<1>4. Begins(d) \/ (request'[d] = request[d] /\ (pc[d] = "idle" => pc'[d] = "idle"))
  BY StepOf DEF Own, Untouched, Walks, Walk, Unrecorded, VerifyNonce, VerifyApproval,
     EstablishNonce, Approve
<1> QED BY <1>2, <1>3, <1>4

LEMMA CallingStep ==
    ASSUME Inv, Shift
    PROVE  Calling'
BY BegunStep, PlacedStep, TokenStep DEF Calling

-----------------------------------------------------------------------------
\* A cache loses what a key held, or holds the preview that has just ended.
LEMMA NonceChange ==
    ASSUME Inv, Shift, NEW key \in Keys
    PROVE  \/ nonces'[key] \in {nonces[key], None}
           \/ \E c \in Calls : EstablishNonce(c) /\ KeyOf(request[c]) = key /\ nonces'[key] = c
<1>0. nonces \in [Keys -> Calls \union {None}]
  BY DEF Inv, Shapes
<1>1. CASE Stands \/ Forgets
  BY <1>1 DEF Stands, Forgets, caches
<1>2. ASSUME NEW c \in Calls, Walks(c) \/ Begins(c) \/ VerifyApproval(c) \/ Approve(c)
      PROVE  nonces' = nonces
  BY <1>2 DEF Walks, Walk, Begins, Begin, VerifyApproval, Approve, caches
<1>3. ASSUME NEW c \in Calls, VerifyNonce(c)
      PROVE  nonces'[key] \in {nonces[key], None}
  <2>1. nonces' = nonces \/ nonces' = [nonces EXCEPT ![KeyOf(request[c])] = None]
    BY <1>3 DEF VerifyNonce
  <2> QED BY <1>0, <2>1
<1>4. ASSUME NEW c \in Calls, EstablishNonce(c)
      PROVE  nonces'[key] = nonces[key] \/ (KeyOf(request[c]) = key /\ nonces'[key] = c)
  <2>1. nonces' = [nonces EXCEPT ![KeyOf(request[c])] = c]
    BY <1>4 DEF EstablishNonce
  <2> QED BY <1>0, <2>1
<1> QED BY <1>1, <1>2, <1>3, <1>4 DEF Shift

LEMMA ApprovalChange ==
    ASSUME Inv, Shift, NEW key \in Keys
    PROVE  \/ approvals'[key] \in {approvals[key], None}
           \/ \E c \in Calls : Approve(c) /\ KeyOf(request[c]) = key /\ approvals'[key] = c
<1>0. approvals \in [Keys -> Calls \union {None}]
  BY DEF Inv, Shapes
<1>1. CASE Stands \/ Forgets
  BY <1>1 DEF Stands, Forgets, caches
<1>2. ASSUME NEW c \in Calls, Walks(c) \/ Begins(c) \/ VerifyNonce(c) \/ EstablishNonce(c)
      PROVE  approvals' = approvals
  BY <1>2 DEF Walks, Walk, Begins, Begin, VerifyNonce, EstablishNonce, caches
<1>3. ASSUME NEW c \in Calls, VerifyApproval(c)
      PROVE  approvals'[key] \in {approvals[key], None}
  <2>1. approvals' = approvals \/ approvals' = [approvals EXCEPT ![KeyOf(request[c])] = None]
    BY <1>3 DEF VerifyApproval
  <2> QED BY <1>0, <2>1
<1>4. ASSUME NEW c \in Calls, Approve(c)
      PROVE  approvals'[key] = approvals[key] \/ (KeyOf(request[c]) = key /\ approvals'[key] = c)
  <2>1. approvals' = [approvals EXCEPT ![KeyOf(request[c])] = c]
    BY <1>4 DEF Approve
  <2> QED BY <1>0, <2>1
<1> QED BY <1>1, <1>2, <1>3, <1>4 DEF Shift

LEMMA CachedStep ==
    ASSUME Inv, Shift
    PROVE  Cached'
<1> SUFFICES ASSUME NEW key \in Keys PROVE NonceAt(key)' /\ ApprovalAt(key)'
  BY DEF Cached
<1>0. /\ NonceAt(key) /\ ApprovalAt(key)
      /\ nonces[key] \in Calls \union {None} /\ approvals[key] \in Calls \union {None}
      /\ pc \in [Calls -> Steps] /\ audit \in [Calls -> Seq(Results)]
  BY DEF Inv, Cached, Shapes
<1>1. ASSUME NEW p \in Calls, Allowed(p)
      PROVE  Allowed(p)' /\ request'[p] = request[p] /\ (pc[p] = "done" => pc'[p] = "done")
  BY <1>1, AllowedStays
<1>2. ASSUME NEW p \in Calls, Allowed(p)
      PROVE  KeyOf(request[p])' = KeyOf(request[p])
  BY <1>1, <1>2 DEF KeyOf
<1>3. NonceAt(key)'
  <2>1. CASE nonces'[key] \in {nonces[key], None}
    BY <1>0, <1>1, <1>2, <2>1 DEF NonceAt
  <2>2. ASSUME NEW c \in Calls, EstablishNonce(c), KeyOf(request[c]) = key, nonces'[key] = c
        PROVE  NonceAt(key)'
    <3>1. /\ pc[c] = "establish" /\ request' = request /\ Record(c, "allowed")
          /\ pc' = [pc EXCEPT ![c] = AfterEstablish(request[c])]
      BY <2>2 DEF EstablishNonce, Allow
    <3>2. request[c] \in Requests /\ request[c].phase = "preview" /\ audit[c] = <<>>
      BY <3>1 DEF Inv, Calling, BegunAt, PlacedAt, Unrecorded
    <3>3. audit'[c] = <<"allowed">>
      BY <1>0, <3>1, <3>2 DEF Record
    <3>4. pc'[c] \in {"present", "done"}
      BY <1>0, <3>1 DEF AfterEstablish
    <3>5. Allowed(c)'
      BY <3>1, <3>2, <3>3, <3>4 DEF Allowed
    <3>6. KeyOf(request[c])' = key
      BY <2>2, <3>1
    <3> QED BY <2>2, <3>5, <3>6 DEF NonceAt
  <2> QED BY <2>1, <2>2, NonceChange
<1>4. ApprovalAt(key)'
  <2>1. CASE approvals'[key] \in {approvals[key], None}
    BY <1>0, <1>1, <1>2, <2>1 DEF ApprovalAt
  <2>2. ASSUME NEW c \in Calls, Approve(c), KeyOf(request[c]) = key, approvals'[key] = c
        PROVE  ApprovalAt(key)'
    <3>1. pc[c] = "present" /\ request' = request /\ pc' = [pc EXCEPT ![c] = "done"]
      BY <2>2 DEF Approve
    <3>2. Allowed(c) /\ request[c].app
      BY <3>1 DEF Inv, Calling, PlacedAt
    <3>3. Allowed(c)'
      BY <1>1, <3>2
    <3>4. pc'[c] = "done"
      BY <1>0, <3>1
    <3>5. KeyOf(request[c])' = key
      BY <2>2, <3>1
    <3> QED BY <2>2, <3>1, <3>2, <3>3, <3>4, <3>5 DEF ApprovalAt
  <2> QED BY <2>1, <2>2, ApprovalChange
<1> QED BY <1>3, <1>4

-----------------------------------------------------------------------------
\* Nothing is put back into the cache it was taken from.
LEMMA TakenStays ==
    ASSUME Inv, Shift, NEW p \in Calls, Allowed(p), pc[p] = "done", TakenFrom(p)
    PROVE  TakenFrom(p)'
<1>0. request'[p] = request[p] /\ p # None
  BY AllowedStays, NoneAssumption
<1>1. CASE request[p].app
  <2>1. ASSUME NEW key \in Keys
        PROVE  approvals'[key] # p
    <3>1. ASSUME NEW c \in Calls, Approve(c)
          PROVE  c # p
      BY <3>1 DEF Approve
    <3>2. approvals[key] # p
      BY <1>1 DEF TakenFrom
    <3> QED BY <1>0, <3>1, <3>2, ApprovalChange
  <2> QED BY <1>0, <1>1, <2>1 DEF TakenFrom
<1>2. CASE ~request[p].app
  <2>1. ASSUME NEW key \in Keys
        PROVE  nonces'[key] # p
    <3>1. ASSUME NEW c \in Calls, EstablishNonce(c)
          PROVE  c # p
      BY <3>1 DEF EstablishNonce
    <3>2. nonces[key] # p
      BY <1>2 DEF TakenFrom
    <3> QED BY <1>0, <3>1, <3>2, NonceChange
  <2> QED BY <1>0, <1>2, <2>1 DEF TakenFrom
<1> QED BY <1>1, <1>2

\* What a confirm takes was in a cache, where no confirm that has taken it leaves it.
Takes(c, p) ==
    /\ Allowed(p) /\ pc[p] = "done"
    /\ KeyOf(request[p]) = KeyOf(request[c])
    /\ ~TakenFrom(p) /\ TakenFrom(p)'
    /\ request' = request /\ proof' = [proof EXCEPT ![c] = p]

LEMMA NonceTaken ==
    ASSUME Inv, Shift, NEW c \in Calls, VerifyNonce(c), proof' # proof
    PROVE  \E p \in Calls : Takes(c, p)
<1> DEFINE key == KeyOf(request[c])
<1>0. nonces \in [Keys -> Calls \union {None}]
  BY DEF Inv, Shapes
<1>1. /\ pc[c] = "nonce" /\ nonces[key] # None /\ nonces[key] = request[c].token
      /\ nonces' = [nonces EXCEPT ![key] = None]
      /\ proof' = [proof EXCEPT ![c] = nonces[key]] /\ request' = request
  BY DEF VerifyNonce
<1>2. request[c] \in Requests /\ key \in Keys
  <2>1. request[c] \in Requests
    BY <1>1 DEF Inv, Calling, BegunAt
  <2> QED BY <2>1, KeyTyped
<1>3. PICK p \in Calls : p = nonces[key]
  BY <1>0, <1>1, <1>2
<1>4. Shown(p)
  <2>1. TokenAt(c)
    BY DEF Inv, Calling
  <2> QED BY <1>1, <1>2, <1>3, <2>1 DEF TokenAt
<1>5. Allowed(p) /\ pc[p] = "done" /\ ~request[p].app
  BY <1>3, <1>4, ShownStays DEF Shown
<1>6. KeyOf(request[p]) = key
  BY <1>1, <1>2, <1>3 DEF Inv, Cached, NonceAt
<1>7. ~TakenFrom(p)
  BY <1>2, <1>3, <1>5 DEF TakenFrom
<1>8. TakenFrom(p)'
  <2>1. ASSUME NEW other \in Keys
        PROVE  nonces'[other] # p
    <3>1. CASE other = key
      BY <1>0, <1>1, <1>2, <1>3, <3>1, NoneAssumption
    <3>2. CASE other # key
      <4>1. nonces'[other] = nonces[other]
        BY <1>0, <1>1, <3>2
      <4>2. nonces[other] # p
        BY <1>3, <1>6, <3>2, NoneAssumption DEF Inv, Cached, NonceAt
      <4> QED BY <4>1, <4>2
    <3> QED BY <3>1, <3>2
  <2>2. ~request'[p].app
    BY <1>1, <1>5
  <2> QED BY <2>1, <2>2 DEF TakenFrom
<1>9. Takes(c, p)
  BY <1>1, <1>3, <1>5, <1>6, <1>7, <1>8 DEF Takes
<1> QED BY <1>3, <1>9

LEMMA ApprovalTaken ==
    ASSUME Inv, Shift, NEW c \in Calls, VerifyApproval(c), proof' # proof
    PROVE  \E p \in Calls : Takes(c, p)
<1> DEFINE key == KeyOf(request[c])
<1>0. approvals \in [Keys -> Calls \union {None}]
  BY DEF Inv, Shapes
<1>1. /\ pc[c] = "approval" /\ approvals[key] # None
      /\ approvals' = [approvals EXCEPT ![key] = None]
      /\ proof' = [proof EXCEPT ![c] = approvals[key]] /\ request' = request
  BY DEF VerifyApproval
<1>2. key \in Keys
  <2>1. request[c] \in Requests
    BY <1>1 DEF Inv, Calling, BegunAt
  <2> QED BY <2>1, KeyTyped
<1>3. PICK p \in Calls : p = approvals[key]
  BY <1>0, <1>1, <1>2
<1>4. Allowed(p) /\ pc[p] = "done" /\ request[p].app /\ KeyOf(request[p]) = key
  BY <1>1, <1>2, <1>3 DEF Inv, Cached, ApprovalAt
<1>5. ~TakenFrom(p)
  BY <1>2, <1>3, <1>4 DEF TakenFrom
<1>6. TakenFrom(p)'
  <2>1. ASSUME NEW other \in Keys
        PROVE  approvals'[other] # p
    <3>1. CASE other = key
      BY <1>0, <1>1, <1>2, <1>3, <3>1, NoneAssumption
    <3>2. CASE other # key
      <4>1. approvals'[other] = approvals[other]
        BY <1>0, <1>1, <3>2
      <4>2. approvals[other] # p
        BY <1>3, <1>4, <3>2, NoneAssumption DEF Inv, Cached, ApprovalAt
      <4> QED BY <4>1, <4>2
    <3> QED BY <3>1, <3>2
  <2>2. request'[p].app
    BY <1>1, <1>4
  <2> QED BY <2>1, <2>2 DEF TakenFrom
<1>7. Takes(c, p)
  BY <1>1, <1>3, <1>4, <1>5, <1>6 DEF Takes
<1> QED BY <1>3, <1>7

\* A confirm takes a proof by one of two steps, or keeps what it has.
LEMMA ProofChange ==
    ASSUME Inv, Shift, proof' # proof
    PROVE  \E c, p \in Calls : Takes(c, p)
<1>1. PICK c \in Calls : VerifyNonce(c) \/ VerifyApproval(c)
  BY DEF Shift, Stands, Forgets, callVars, Walks, Walk, Begins, Begin, EstablishNonce, Approve
<1> QED BY <1>1, NonceTaken, ApprovalTaken

\* A call that has a proof keeps its arguments.
LEMMA ProofHolder ==
    ASSUME Inv, Shift, NEW c \in Calls, proof[c] # None
    PROVE  request'[c] = request[c]
<1>1. pc[c] # "idle"
  BY DEF Inv, Calling, BegunAt
<1> QED BY <1>1, StepOf DEF Own, Untouched, Walks, Walk, Begins, Begin, VerifyNonce,
     VerifyApproval, EstablishNonce, Approve

LEMMA TakenStep ==
    ASSUME Inv, Shift
    PROVE  Taken'
<1>0. /\ proof \in [Calls -> Calls \union {None}]
      /\ \A c \in Calls : ProofAt(c)
      /\ ProofSpentOnce
  BY DEF Inv, Shapes, Taken
<1>1. ASSUME NEW c \in Calls, NEW p \in Calls, Allowed(p), pc[p] = "done",
             KeyOf(request[p]) = KeyOf(request[c]), request'[c] = request[c],
             proof'[c] = p, TakenFrom(p)'
      PROVE  ProofAt(c)'
  <2>1. Allowed(p)' /\ request'[p] = request[p] /\ pc'[p] = "done"
    BY <1>1, AllowedStays
  <2>2. KeyOf(request[p])' = KeyOf(request[c])'
    BY <1>1, <2>1 DEF KeyOf
  <2> QED BY <1>1, <2>1, <2>2 DEF ProofAt
<1>2. ASSUME NEW c \in Calls, proof'[c] = proof[c]
      PROVE  ProofAt(c)'
  <2>1. CASE proof[c] = None
    BY <1>2, <2>1 DEF ProofAt
  <2>2. CASE proof[c] # None
    <3>1. PICK p \in Calls : p = proof[c]
      BY <1>0, <2>2
    <3>2. /\ Allowed(p) /\ pc[p] = "done" /\ TakenFrom(p)
          /\ KeyOf(request[p]) = KeyOf(request[c])
      BY <1>0, <2>2, <3>1 DEF ProofAt
    <3>3. request'[c] = request[c] /\ TakenFrom(p)'
      BY <2>2, <3>2, ProofHolder, TakenStays
    <3> QED BY <1>1, <1>2, <3>1, <3>2, <3>3
  <2> QED BY <2>1, <2>2
<1>3. CASE proof' = proof
  BY <1>0, <1>2, <1>3 DEF Taken, ProofSpentOnce
<1>4. CASE proof' # proof
  <2>1. PICK c, p \in Calls : Takes(c, p)
    BY <1>4, ProofChange
  <2>2. proof'[c] = p /\ \A d \in Calls \ {c} : proof'[d] = proof[d]
    BY <1>0, <2>1 DEF Takes
  <2>3. ASSUME NEW d \in Calls
        PROVE  ProofAt(d)'
    <3>1. CASE d = c
      BY <1>1, <2>1, <2>2, <3>1 DEF Takes
    <3>2. CASE d # c
      BY <1>2, <2>2, <3>2
    <3> QED BY <3>1, <3>2
  <2>4. ASSUME NEW d \in Calls \ {c}
        PROVE  proof[d] # p
    BY <1>0, <2>1, NoneAssumption DEF Takes, ProofAt
  <2>5. ProofSpentOnce'
    BY <1>0, <2>2, <2>4 DEF ProofSpentOnce
  <2> QED BY <2>3, <2>5 DEF Taken
<1> QED BY <1>3, <1>4

-----------------------------------------------------------------------------
LEMMA ClearedStep ==
    ASSUME Inv, Shift
    PROVE  Cleared'
<1> SUFFICES ASSUME NEW d \in Calls, ClearedAt(d)', NeedsProof(d)'
             PROVE  proof'[d] # None
  BY DEF Cleared
<1>0. /\ pc \in [Calls -> Steps] /\ proof \in [Calls -> Calls \union {None}]
      /\ BegunAt(d) /\ PlacedAt(d)
      /\ ClearedAt(d) /\ NeedsProof(d) => proof[d] # None
  BY DEF Inv, Shapes, Calling, Cleared
<1> USE DEF ClearedAt, NeedsProof, Mutates, Removes, UsesNonce, UsesApproval, IsPanelTool, OnContent
<1>1. CASE Untouched(d)
  BY <1>0, <1>1 DEF Untouched
<1>2. CASE pc'[d] = "lost" /\ UNCHANGED <<request[d], proof[d], sent, applied>>
  BY <1>0, <1>2
<1>3. CASE Walks(d)
  BY <1>0, <1>3 DEF Walks, Walk
<1>4. CASE Begins(d)
  BY <1>0, <1>4 DEF Begins, Begin, BegunAt
<1>5. CASE VerifyNonce(d) \/ VerifyApproval(d)
  <2>1. \/ proof'[d] # None
        \/ pc'[d] = "done" /\ UNCHANGED <<request, proof, sent, applied>>
    BY <1>0, <1>5 DEF VerifyNonce, VerifyApproval, Finish, history
  <2> QED BY <1>0, <2>1
<1>6. CASE EstablishNonce(d) \/ Approve(d)
  <2>1. pc'[d] \in {"present", "done"} /\ UNCHANGED <<request, proof, sent, applied>>
    BY <1>0, <1>6 DEF EstablishNonce, Approve, Allow, AfterEstablish, history
  <2> QED BY <1>0, <2>1
<1> QED BY <1>1, <1>2, <1>3, <1>4, <1>5, <1>6, StepOf DEF Own

-----------------------------------------------------------------------------
LEMMA InvInit ==
    ASSUME Init
    PROVE  Inv
<1> USE DEF Init
<1>1. Shapes
  BY DEF Shapes, Steps
<1>2. Calling
  BY DEF Calling, BegunAt, PlacedAt, TokenAt, Unrecorded
<1>3. Cached
  BY DEF Cached, NonceAt, ApprovalAt
<1>4. Taken
  BY DEF Taken, ProofAt, ProofSpentOnce
<1>5. Cleared
  BY DEF Cleared, ClearedAt
<1> QED BY <1>1, <1>2, <1>3, <1>4, <1>5 DEF Inv

LEMMA InvStep ==
    ASSUME Inv, day \in Days, [Next]_vars
    PROVE  Inv' /\ (day \in Days)'
<1>1. Shift
  BY NextShift
<1>2. Inv'
  BY <1>1, ShapesStep, CallingStep, CachedStep, TakenStep, ClearedStep DEF Inv
<1>3. day' \in Days
  <2>1. CASE UNCHANGED vars
    BY <2>1 DEF vars, tableau
  <2>2. CASE Environment
    BY <2>2, DaysAssumption DEF Environment, NextDay, Demote, ShowUse, Expire, Restart, tableau,
       Days, FirstDay
  <2>3. ASSUME NEW c \in Calls, Call(c)
        PROVE  day' = day
    <3> USE DEF tableau
    <3>1. CASE \/ DeleteContent(c) \/ DeleteTask(c) \/ UpdateTask(c) \/ ConfirmDeleteContent(c)
               \/ ConfirmUpdateTask(c) \/ RemovePendingTags(c)
      <4>1. Begins(c)
        BY <3>1, BeginShift
      <4> QED BY <4>1 DEF Begins, Begin
    <3>2. CASE Refuse(c) \/ ReadMarkers(c) \/ Lookup(c) \/ AssertAdmin(c) \/ VerifyTag(c)
      BY <3>2 DEF Refuse, ReadMarkers, Lookup, AssertAdmin, VerifyTag
    <3>3. CASE VerifyNonce(c) \/ VerifyApproval(c) \/ Precondition(c) \/ EstablishTag(c)
      BY <3>3 DEF VerifyNonce, VerifyApproval, Precondition, EstablishTag
    <3>4. CASE EstablishNonce(c) \/ Throw(c) \/ Approve(c) \/ Send(c) \/ Execute(c)
      BY <3>4 DEF EstablishNonce, Throw, Approve, Send, Execute
    <3>5. CASE \/ Complete(c) \/ Fail(c) \/ RemoveTag(c) \/ RemoveTagFails(c)
               \/ TagsRemoved(c)
      BY <3>5 DEF Complete, Fail, RemoveTag, RemoveTagFails, TagsRemoved
    <3> QED BY <2>3, <3>1, <3>2, <3>3, <3>4, <3>5 DEF Call
  <2> QED BY <2>1, <2>2, <2>3 DEF Next
<1> QED BY <1>2, <1>3

LEMMA Invariance == Spec => [](Inv /\ day \in Days)
<1>1. Init => Inv /\ day \in Days
  BY InvInit, DaysAssumption DEF Init, Days, FirstDay
<1>2. Inv /\ day \in Days /\ [Next]_vars => (Inv /\ day \in Days)'
  BY InvStep
<1> QED BY <1>1, <1>2, PTL DEF Spec

\* A nonce or an approval lets one mutation through, however many confirms race for it.
THEOREM SpentOnce == Spec => []ProofSpentOnce
<1>1. Inv => ProofSpentOnce
  BY DEF Inv, Taken
<1> QED BY <1>1, Invariance, PTL

\* A mutation that needs a nonce or an approval is what its user previewed.
THEOREM AsPreviewed == Spec => []ConfirmedAsPreviewed
<1>1. Inv => ConfirmedAsPreviewed
  <2> SUFFICES ASSUME Inv, NEW c \in Calls, Asked(c),
                      UsesNonce(request[c]) \/ UsesApproval(request[c])
               PROVE  /\ proof[c] # None
                      /\ LET p == request[proof[c]] IN
                          /\ p.phase = "preview"
                          /\ p.user = request[c].user
                          /\ p.target = request[c].target
                          /\ p.schedule = request[c].schedule
                          /\ audit[proof[c]] = <<"allowed">>
    BY DEF ConfirmedAsPreviewed
  <2>1. proof[c] # None
    BY DEF Inv, Cleared, ClearedAt, NeedsProof, Asked
  <2>2. Allowed(proof[c]) /\ KeyOf(request[proof[c]]) = KeyOf(request[c])
    BY <2>1 DEF Inv, Taken, ProofAt
  <2> QED BY <2>1, <2>2 DEF Allowed, KeyOf
<1> QED BY <1>1, Invariance, PTL
-----------------------------------------------------------------------------
\* What a call asks for: a preview opens the batch of its day, a deletion of content names a
\* batch that has begun and not expired, and markers are removed from content.
AsksAt(c) ==
    pc[c] # "idle" =>
        /\ request[c].phase = "preview" /\ OnContent(request[c]) =>
             request[c].batch = request[c].begun
        /\ Mutates(request[c]) /\ OnContent(request[c]) =>
             /\ request[c].batch \in Days
             /\ request[c].begun - request[c].batch <= MaxAgeDays
        /\ Removes(request[c]) => request[c].phase = "confirm" /\ OnContent(request[c])

\* The steps before Tableau is asked to change anything.
Before == {"idle", "reading", "lookup", "admin", "tag", "nonce", "approval", "check",
           "establish", "act", "untag"}

\* Which calls take which steps, and which of them may have asked Tableau for something.
StepAt(c) ==
    /\ pc[c] \in {"tag", "nonce", "approval", "act", "waiting"} => Mutates(request[c])
    /\ pc[c] = "nonce" => ~OnContent(request[c])
    /\ pc[c] = "check" => OnContent(request[c]) /\ ~Removes(request[c])
    /\ pc[c] \in {"reading", "untag"} => Removes(request[c])
    /\ pc[c] = "lookup" => ~Removes(request[c])
    /\ pc[c] \in Before => c \notin sent \union applied

\* What a call has recorded, and what it has done.
AuditAt(c) ==
    /\ audit[c] = <<>> \/ \E result \in Results : audit[c] = <<result>>
    /\ audit[c] = <<"completed">> /\ Mutates(request[c]) => c \in applied
    /\ audit[c] = <<"denied">> => pc[c] = "done" /\ c \notin sent \union applied
    /\ audit[c] = <<"failed">> =>
         pc[c] = "done" /\ (c \notin sent \union applied \/ c \in unanswered)
    /\ c \in sent => c \notin applied
    /\ Asked(c) =>
         /\ pc[c] \in {"waiting", "done", "lost"}
         /\ pc[c] = "done" => audit[c] \in {<<"completed">>, <<"failed">>}

\* A preview has put the marker of batch b on content i, on the day the batch is named after.
Opened(i, b) ==
    \E p \in applied :
        /\ request[p].phase = "preview" /\ request[p].target = i
        /\ request[p].batch = b /\ request[p].begun = b

\* A deletion that is past its evidence rests on such a preview.
OpenedAt(c) ==
    /\ pc[c] \in {"approval", "check", "act", "waiting"} \/ c \in sent \union applied
    /\ Mutates(request[c]) /\ OnContent(request[c])
    => Opened(request[c].target, request[c].batch)

\* What Admin Insights shows only grows, and the precondition has read it since.
UnusedAt(c) ==
    pc[c] # "idle" /\ OnContent(request[c]) =>
        /\ shown[c] <= lastAccess[request[c].target]
        /\ Mutates(request[c]) /\ (pc[c] \in {"act", "waiting"} \/ c \in sent \union applied) =>
             shown[c] < request[c].batch

\* The markers a removal is to clear are those it has still to remove, but for those put on
\* the content since it read them.
UntagAt(c) ==
    pc[c] \in {"admin", "untag"} /\ Removes(request[c]) =>
        tags[request[c].target] \intersect Named(request[c]) \subseteq toRemove[c] \union retagged[c]

MarksAt(i) ==
    /\ \A b \in tags[i] \ {NoBatch} : Opened(i, b)
    /\ kept[i] \intersect tags[i] = {}

\* The types of what the second invariant is about.
Marked ==
    /\ admins \subseteq Users
    /\ exists \subseteq Targets
    /\ tags \in [Contents -> SUBSET Batches]
    /\ lastAccess \in [Contents -> 0..MaxDay]
    /\ toRemove \in [Calls -> SUBSET Batches]
    /\ kept \in [Contents -> SUBSET Batches]
    /\ retagged \in [Calls -> SUBSET Batches]
    /\ shown \in [Calls -> 0..MaxDay]
    /\ unanswered \subseteq Calls

Local(c) == AsksAt(c) /\ StepAt(c) /\ AuditAt(c)

MInv ==
    /\ Marked
    /\ \A c \in Calls : Local(c) /\ OpenedAt(c) /\ UnusedAt(c) /\ UntagAt(c)
    /\ \A i \in Contents : MarksAt(i)

\* What call d knows and has asked for is as it was; but for retagged, which other calls write.
Same(d) ==
    /\ UNCHANGED <<pc[d], audit[d], request[d], toRemove[d], shown[d]>>
    /\ d \in sent' <=> d \in sent
    /\ d \in applied' <=> d \in applied
    /\ d \in unanswered' <=> d \in unanswered

\* A restart ends the call.
Lost(d) ==
    /\ pc[d] \notin {"idle", "done"} /\ pc'[d] = "lost"
    /\ UNCHANGED <<audit[d], request[d], toRemove[d], shown[d], sent, applied, unanswered>>

LEMMA BeginsSome ==
    ASSUME NEW c \in Calls,
           DeleteContent(c) \/ DeleteTask(c) \/ UpdateTask(c) \/ ConfirmDeleteContent(c)
             \/ ConfirmUpdateTask(c) \/ RemovePendingTags(c)
    PROVE  \E step, r : Begin(c, step, r)
BY DEF DeleteContent, DeleteTask, UpdateTask, ConfirmDeleteContent, ConfirmUpdateTask,
   RemovePendingTags

LEMMA OtherCallsSame ==
    ASSUME Inv, Marked, NEW c \in Calls, NEW d \in Calls, c # d, Call(c)
    PROVE  Same(d)
<1> USE DEF Same
<1>0. /\ pc \in [Calls -> Steps] /\ audit \in [Calls -> Seq(Results)]
      /\ request \in [Calls -> Requests \union {None}]
      /\ toRemove \in [Calls -> SUBSET Batches] /\ shown \in [Calls -> 0..MaxDay]
  BY DEF Inv, Shapes, Marked
<1>1. CASE \/ DeleteContent(c) \/ DeleteTask(c) \/ UpdateTask(c) \/ ConfirmDeleteContent(c)
           \/ ConfirmUpdateTask(c) \/ RemovePendingTags(c)
  BY <1>0, <1>1, BeginsSome DEF Begin
<1>2. CASE Refuse(c) \/ ReadMarkers(c) \/ Lookup(c) \/ Throw(c)
  BY <1>0, <1>2 DEF Refuse, ReadMarkers, Lookup, Throw, history
<1>3. CASE AssertAdmin(c) \/ VerifyTag(c) \/ Precondition(c)
  BY <1>0, <1>3 DEF AssertAdmin, VerifyTag, Precondition, Finish, Record, history
<1>4. CASE VerifyNonce(c) \/ VerifyApproval(c)
  BY <1>0, <1>4 DEF VerifyNonce, VerifyApproval, Finish, Record, history
<1>5. CASE EstablishTag(c) \/ EstablishNonce(c)
  BY <1>0, <1>5 DEF EstablishTag, EstablishNonce, Allow, Record, history
<1>6. CASE Approve(c) \/ Send(c) \/ Execute(c)
  BY <1>0, <1>6 DEF Approve, Send, Execute, callVars, history
<1>7. CASE Complete(c) \/ Fail(c) \/ TagsRemoved(c)
  BY <1>0, <1>7 DEF Complete, Fail, TagsRemoved, Finish, Record, history
<1>8. CASE RemoveTag(c) \/ RemoveTagFails(c)
  BY <1>0, <1>8 DEF RemoveTag, RemoveTagFails, Finish, Record, history
<1> QED BY <1>1, <1>2, <1>3, <1>4, <1>5, <1>6, <1>7, <1>8 DEF Call

LEMMA AroundSame ==
    ASSUME Inv, Environment \/ UNCHANGED vars, NEW d \in Calls
    PROVE  Same(d) \/ Lost(d)
<1>1. CASE Restart
  BY <1>1 DEF Restart, history, Same, Lost, Ended, Inv, Shapes
<1>2. CASE ~Restart
  BY <1>2 DEF Environment, NextDay, Demote, ShowUse, Expire, vars, callVars, history, Same
<1> QED BY <1>1, <1>2

\* For call d a step is its own, or none, or its end.
LEMMA StepsAre ==
    ASSUME Inv, Marked, [Next]_vars, NEW d \in Calls
    PROVE  Call(d) \/ Same(d) \/ Lost(d)
BY OtherCallsSame, AroundSame DEF Next

-----------------------------------------------------------------------------
LEMMA BegunWith ==
    ASSUME Inv, NEW c \in Calls, NEW step, NEW r, Begin(c, step, r)
    PROVE  /\ pc[c] = "idle" /\ pc'[c] = step /\ request'[c] = r
           /\ audit'[c] = <<>> /\ c \notin sent' \union applied'
<1>1. pc[c] = "idle" /\ audit[c] = <<>> /\ c \notin sent \union applied
  BY DEF Begin, Inv, Calling, BegunAt, PlacedAt, Unrecorded
<1> QED BY <1>1 DEF Begin, Inv, Shapes

\* How a call begins.
LEMMA BeginAsks ==
    ASSUME Inv, day \in Days, NEW c \in Calls,
           DeleteContent(c) \/ DeleteTask(c) \/ UpdateTask(c) \/ ConfirmDeleteContent(c)
             \/ ConfirmUpdateTask(c) \/ RemovePendingTags(c)
    PROVE  /\ AsksAt(c)' /\ pc[c] = "idle" /\ pc'[c] \in {"reading", "lookup", "admin"}
           /\ Removes(request'[c]) <=> pc'[c] = "reading"
           /\ audit'[c] = <<>> /\ c \notin sent' \union applied'
<1> DEFINE R == request'[c]
           Goal(step) == /\ AsksAt(c)' /\ pc[c] = "idle" /\ pc'[c] = step
                         /\ Removes(R) <=> step = "reading"
                         /\ audit'[c] = <<>> /\ c \notin sent' \union applied'
<1> USE DEF AsksAt, Arguments, OnContent, Removes, Mutates
<1>0. Tasks \intersect Contents = {} /\ \A b \in RecentBatches : b \in Days /\ day - b <= MaxAgeDays
  BY DistinctAssumption DEF RecentBatches
<1>1. CASE DeleteContent(c)
  <2>1. PICK user \in Users, phase \in Phases, target \in Contents, batch \in RecentBatches,
             app \in BOOLEAN :
          /\ phase = "preview" => batch = day
          /\ Begin(c, "admin",
                   Arguments("delete-content", phase, user, target, batch, None, None, app))
    BY <1>1 DEF DeleteContent
  <2>2. Goal("admin")
    BY <1>0, <2>1, BegunWith
  <2> QED BY <2>2
<1>2. CASE DeleteTask(c)
  <2>1. PICK user \in Users, phase \in Phases, target \in Tasks, token \in Tokens,
             app \in BOOLEAN :
          Begin(c, "lookup",
                Arguments("delete-content", phase, user, target, NoBatch, None, token, app))
    BY <1>2 DEF DeleteTask
  <2>2. Goal("lookup")
    BY <1>0, <2>1, BegunWith
  <2> QED BY <2>2
<1>3. CASE UpdateTask(c)
  <2>1. PICK user \in Users, phase \in Phases, target \in Tasks, new \in Schedules,
             token \in Tokens, app \in BOOLEAN :
          Begin(c, "admin",
                Arguments("update-task", phase, user, target, NoBatch, new, token, app))
    BY <1>3 DEF UpdateTask
  <2>2. Goal("admin")
    BY <1>0, <2>1, BegunWith
  <2> QED BY <2>2
<1>4. CASE ConfirmDeleteContent(c)
  <2>1. CASE \E user \in Users, target \in Contents, batch \in RecentBatches :
               Begin(c, "admin", Arguments("confirm-delete-content", "confirm", user, target,
                                           batch, None, None, TRUE))
    <3>1. Goal("admin")
      BY <1>0, <2>1, BegunWith
    <3> QED BY <3>1
  <2>2. CASE \E user \in Users, target \in Tasks :
               Begin(c, "admin", Arguments("confirm-delete-content", "confirm", user, target,
                                           NoBatch, None, None, TRUE))
    <3>1. Goal("admin")
      BY <1>0, <2>2, BegunWith
    <3> QED BY <3>1
  <2> QED BY <1>4, <2>1, <2>2 DEF ConfirmDeleteContent
<1>5. CASE ConfirmUpdateTask(c)
  <2>1. PICK user \in Users, target \in Tasks, new \in Schedules :
          Begin(c, "admin", Arguments("confirm-update-task", "confirm", user, target,
                                      NoBatch, new, None, TRUE))
    BY <1>5 DEF ConfirmUpdateTask
  <2>2. Goal("admin")
    BY <1>0, <2>1, BegunWith
  <2> QED BY <2>2
<1>6. CASE RemovePendingTags(c)
  <2>1. PICK user \in Users, target \in Contents, batch \in Batches :
          Begin(c, "reading", Arguments("remove-pending-tags", "confirm", user, target,
                                        batch, None, None, FALSE))
    BY <1>6 DEF RemovePendingTags
  <2>2. Goal("reading")
    BY <1>0, <2>1, BegunWith
  <2> QED BY <2>2
<1> QED BY <1>1, <1>2, <1>3, <1>4, <1>5, <1>6

-----------------------------------------------------------------------------
\* What is the call's own: its arguments, its place and its record.
LEMMA LocalStep ==
    ASSUME Inv, day \in Days, Marked, NEW c \in Calls, Local(c), Call(c)
    PROVE  Local(c)'
<1> USE DEF Local, Before
<1>0. /\ pc \in [Calls -> Steps] /\ audit \in [Calls -> Seq(Results)]
      /\ AsksAt(c) /\ StepAt(c) /\ AuditAt(c)
      /\ pc[c] # "idle" => request[c] \in Requests
      /\ pc[c] \in Unrecorded => audit[c] = <<>>
      /\ pc[c] = "establish" => request[c].phase = "preview"
      /\ pc[c] = "tag" => OnContent(request[c])
      /\ {"allowed", "denied", "completed", "failed"} \subseteq Results
  BY DEF Inv, Shapes, Calling, BegunAt, PlacedAt, Results
<1>1. ASSUME NEW result, Record(c, result), pc[c] \in Unrecorded
      PROVE  audit'[c] = <<result>>
  BY <1>0, <1>1 DEF Record
<1>2. ASSUME request' = request, pc[c] # "idle"
      PROVE  AsksAt(c)'
  BY <1>0, <1>2 DEF AsksAt
<1>3. ASSUME pc[c] \in Before \ {"idle"}, Finish(c, "denied"), UNCHANGED <<request, sent, applied>>
      PROVE  Local(c)'
  <2>1. audit'[c] = <<"denied">> /\ pc'[c] = "done"
    BY <1>0, <1>1, <1>3 DEF Finish, Unrecorded
  <2> QED BY <1>0, <1>2, <1>3, <2>1 DEF StepAt, AuditAt, Asked
<1>4. ASSUME pc[c] \in Before \ {"idle"}, UNCHANGED <<audit, request, sent, applied>>, StepAt(c)'
      PROVE  Local(c)'
  BY <1>0, <1>2, <1>4 DEF StepAt, AuditAt, Asked, Unrecorded
<1>5. CASE \/ DeleteContent(c) \/ DeleteTask(c) \/ UpdateTask(c) \/ ConfirmDeleteContent(c)
           \/ ConfirmUpdateTask(c) \/ RemovePendingTags(c)
  BY <1>5, BeginAsks DEF StepAt, AuditAt, Asked
<1>6. CASE Refuse(c) \/ ReadMarkers(c) \/ Lookup(c) \/ Throw(c)
  <2>1. /\ UNCHANGED <<request, audit, sent, applied>>
        /\ pc[c] \in Before \ {"idle"} /\ pc'[c] \in {"refused", "admin", "threw"}
    BY <1>0, <1>6 DEF Refuse, ReadMarkers, Lookup, Throw, history
  <2> QED BY <1>0, <1>4, <2>1 DEF StepAt
<1>7. CASE AssertAdmin(c)
  <2>1. pc[c] = "admin" /\ UNCHANGED <<request, sent, applied>>
    BY <1>7 DEF AssertAdmin, history
  <2>2. CASE pc'[c] = AfterAdmin(request[c]) /\ audit' = audit
    <3>1. request[c].phase \in Phases
      BY <1>0, <2>1 DEF Requests
    <3>2. StepAt(c)'
      BY <1>0, <2>1, <2>2, <3>1 DEF AfterAdmin, AsksAt, StepAt, Phases, Mutates, UsesNonce
    <3> QED BY <1>4, <2>1, <2>2, <3>2
  <2>3. (pc'[c] = AfterAdmin(request[c]) /\ audit' = audit) \/ Finish(c, "denied")
    BY <1>0, <1>7 DEF AssertAdmin
  <2> QED BY <1>3, <2>1, <2>2, <2>3
<1>8. CASE VerifyTag(c) \/ VerifyNonce(c) \/ VerifyApproval(c) \/ Precondition(c)
  <2>1. pc[c] \in {"tag", "nonce", "approval", "check"} /\ UNCHANGED <<request, sent, applied>>
    BY <1>8 DEF VerifyTag, VerifyNonce, VerifyApproval, Precondition, history
  <2>2. CASE ~Finish(c, "denied")
    <3>1. audit' = audit
      BY <1>8, <2>2 DEF VerifyTag, VerifyNonce, VerifyApproval, Precondition
    <3>2. request[c].phase \in Phases
      BY <1>0, <2>1 DEF Requests
    <3>3. CASE VerifyTag(c)
      <4>1. pc'[c] \in {"approval", "check"} /\ pc[c] = "tag"
        BY <1>0, <2>2, <3>3 DEF VerifyTag
      <4>2. StepAt(c)'
        BY <1>0, <2>1, <4>1 DEF StepAt, Mutates
      <4> QED BY <1>4, <2>1, <3>1, <4>2
    <3>4. CASE VerifyNonce(c) \/ VerifyApproval(c)
      <4>1. pc'[c] = AfterProof(request[c]) /\ pc[c] \in {"nonce", "approval"}
        BY <1>0, <2>2, <3>4 DEF VerifyNonce, VerifyApproval
      <4>2. StepAt(c)'
        BY <1>0, <2>1, <4>1 DEF StepAt, Mutates, AfterProof
      <4> QED BY <1>4, <2>1, <3>1, <4>2
    <3>5. CASE Precondition(c)
      <4>1. pc[c] = "check" /\ pc'[c] = IF request[c].phase = "preview" THEN "establish" ELSE "act"
        BY <1>0, <2>2, <3>5 DEF Precondition
      <4>2. StepAt(c)'
        BY <1>0, <2>1, <3>2, <4>1 DEF StepAt, Mutates, Phases
      <4> QED BY <1>4, <2>1, <3>1, <4>2
    <3> QED BY <1>8, <3>3, <3>4, <3>5
  <2> QED BY <1>3, <2>1, <2>2
<1>9. CASE EstablishTag(c) \/ EstablishNonce(c)
  <2>1. /\ pc[c] = "establish" /\ request' = request /\ sent' = sent
        /\ ~Mutates(request[c]) /\ c \notin sent
    BY <1>0, <1>9 DEF EstablishTag, EstablishNonce, history, Mutates, StepAt
  <2>2. \/ audit'[c] = <<"allowed">> /\ pc'[c] \in {"present", "done"}
        \/ audit'[c] = <<>> /\ pc'[c] = "threw"
    <3>1. Allow(c) \/ (pc'[c] = "threw" /\ audit' = audit)
      BY <1>0, <1>9 DEF EstablishTag, EstablishNonce
    <3> QED BY <1>0, <1>1, <2>1, <3>1 DEF Allow, AfterEstablish, Unrecorded
  <2> QED BY <1>0, <1>2, <2>1, <2>2 DEF StepAt, AuditAt, Asked
<1>10. CASE Approve(c)
  <2>1. pc[c] = "present" /\ pc'[c] = "done" /\ UNCHANGED <<request, audit, sent, applied>>
    BY <1>0, <1>10 DEF Approve, history
  <2>2. audit[c] = <<"allowed">> /\ ~Asked(c)
    BY <1>0, <2>1 DEF Inv, Calling, PlacedAt, Allowed, Asked, Mutates
  <2> QED BY <1>0, <1>2, <2>1, <2>2 DEF StepAt, AuditAt, Asked
<1>11. CASE Send(c)
  <2>1. /\ pc[c] = "act" /\ pc'[c] = "waiting" /\ UNCHANGED <<request, audit, applied>>
        /\ audit[c] = <<>>
    BY <1>0, <1>11 DEF Send, history, Unrecorded
  <2> QED BY <1>0, <1>2, <2>1 DEF StepAt, AuditAt, Asked
<1>12. CASE Execute(c)
  <2>1. /\ UNCHANGED <<pc, request, audit, unanswered>> /\ c \in sent /\ c \in applied'
        /\ c \notin sent'
    BY <1>12 DEF Execute, callVars
  <2> QED BY <1>0, <2>1 DEF AsksAt, StepAt, AuditAt, Asked
<1>13. CASE Complete(c) \/ Fail(c)
  <2>1. /\ pc[c] = "waiting" /\ pc'[c] = "done" /\ request' = request
        /\ applied' = applied /\ (Complete(c) => c \in applied) /\ sent' \subseteq sent
        /\ Fail(c) => c \notin sent' \union applied' \/ c \in unanswered'
    BY <1>0, <1>13 DEF Complete, Fail, Finish, history, AuditAt
  <2>2. \/ Complete(c) /\ audit'[c] = <<"completed">>
        \/ Fail(c) /\ audit'[c] = <<"failed">>
    BY <1>1, <1>13, <2>1 DEF Complete, Fail, Finish, Unrecorded
  <2>3. AsksAt(c)' /\ StepAt(c)'
    BY <1>0, <1>2, <2>1 DEF StepAt
  <2>4. CASE Complete(c) /\ audit'[c] = <<"completed">>
    BY <1>0, <2>1, <2>3, <2>4 DEF AuditAt, Asked
  <2>5. CASE Fail(c) /\ audit'[c] = <<"failed">>
    BY <1>0, <2>1, <2>3, <2>5 DEF AuditAt, Asked
  <2> QED BY <2>2, <2>4, <2>5
<1>14. CASE RemoveTag(c)
  <2>1. UNCHANGED <<pc, request, audit, sent, applied, unanswered>>
    BY <1>14 DEF RemoveTag, history
  <2> QED BY <1>0, <2>1 DEF AsksAt, StepAt, AuditAt, Asked
<1>15. CASE RemoveTagFails(c) \/ TagsRemoved(c)
  <2>1. /\ pc[c] = "untag" /\ pc'[c] = "done" /\ UNCHANGED <<request, sent, applied>>
        /\ Finish(c, "failed") \/ Finish(c, "completed")
    BY <1>0, <1>15 DEF RemoveTagFails, TagsRemoved, Finish, history
  <2>2. audit'[c] \in {<<"failed">>, <<"completed">>}
    BY <1>1, <2>1 DEF Finish, Unrecorded
  <2> QED BY <1>0, <1>2, <2>1, <2>2 DEF StepAt, AuditAt, Asked, Mutates
<1> QED BY <1>5, <1>6, <1>7, <1>8, <1>9, <1>10, <1>11, <1>12, <1>13, <1>14, <1>15 DEF Call

LEMMA LocalStays ==
    ASSUME Inv, day \in Days, Marked, [Next]_vars, NEW c \in Calls, Local(c)
    PROVE  Local(c)'
<1> USE DEF Local, AsksAt, StepAt, AuditAt, Asked
<1>1. CASE Same(c)
  BY <1>1 DEF Same
<1>2. CASE Lost(c)
  BY <1>2 DEF Lost, Before
<1> QED BY <1>1, <1>2, LocalStep, StepsAre

-----------------------------------------------------------------------------
\* What is on the content: only five steps write it or what is known of it.
LEMMA MarksChange ==
    ASSUME [Next]_vars
    PROVE  \/ UNCHANGED <<tags, toRemove, kept, retagged>>
           \/ \E c \in Calls : \/ EstablishTag(c) \/ ReadMarkers(c) \/ RemoveTag(c)
                               \/ RemoveTagFails(c) \/ TagsRemoved(c)
<1> USE DEF tableau, history, callVars
<1>1. CASE UNCHANGED vars \/ Environment
  BY <1>1 DEF vars, Environment, NextDay, Demote, ShowUse, Expire, Restart
<1>2. ASSUME NEW c \in Calls, Call(c)
      PROVE  \/ UNCHANGED <<tags, toRemove, kept, retagged>>
             \/ \/ EstablishTag(c) \/ ReadMarkers(c) \/ RemoveTag(c)
                \/ RemoveTagFails(c) \/ TagsRemoved(c)
  <2>1. CASE \/ DeleteContent(c) \/ DeleteTask(c) \/ UpdateTask(c) \/ ConfirmDeleteContent(c)
             \/ ConfirmUpdateTask(c) \/ RemovePendingTags(c)
    BY <2>1, BeginsSome DEF Begin, tableau, history
  <2>2. CASE Refuse(c) \/ Lookup(c) \/ Throw(c) \/ AssertAdmin(c) \/ VerifyTag(c) \/ Precondition(c)
    BY <2>2 DEF Refuse, Lookup, Throw, AssertAdmin, VerifyTag, Precondition
  <2>3. CASE VerifyNonce(c) \/ VerifyApproval(c) \/ EstablishNonce(c) \/ Approve(c) \/ Send(c)
    BY <2>3 DEF VerifyNonce, VerifyApproval, EstablishNonce, Approve, Send
  <2>4. CASE Execute(c) \/ Complete(c) \/ Fail(c)
    BY <2>4 DEF Execute, Complete, Fail
  <2> QED BY <1>2, <2>1, <2>2, <2>3, <2>4 DEF Call
<1> QED BY <1>1, <1>2 DEF Next

\* The arguments of a call stay, and so does what it has done.
LEMMA DoneStays ==
    ASSUME Inv, Marked, day \in Days, [Next]_vars
    PROVE  /\ applied \subseteq applied'
           /\ \A d \in Calls : pc[d] # "idle" => request'[d] = request[d] /\ pc'[d] # "idle"
           /\ \A d \in applied : request'[d] = request[d]
<1>1. Shift
  BY NextShift
<1>2. ASSUME NEW d \in Calls, pc[d] # "idle"
      PROVE  request'[d] = request[d] /\ pc'[d] # "idle"
  <2>1. CASE Own(d)
    BY <1>2, <2>1 DEF Inv, Shapes, Own, Walks, Walk, Begins, Begin, VerifyNonce, VerifyApproval,
       EstablishNonce, Approve, Finish, Allow, AfterProof, AfterEstablish
  <2>2. CASE ~Own(d)
    BY <1>1, <1>2, <2>2, StepOf DEF Untouched
  <2> QED BY <2>1, <2>2
<1>3. \A d \in applied : d \in Calls /\ pc[d] # "idle"
  BY DEF Inv, Shapes, Calling, BegunAt
<1>4. ASSUME NEW c \in Calls, Call(c)
      PROVE  applied \subseteq applied'
  <2>1. CASE \/ DeleteContent(c) \/ DeleteTask(c) \/ UpdateTask(c) \/ ConfirmDeleteContent(c)
             \/ ConfirmUpdateTask(c) \/ RemovePendingTags(c)
    BY <2>1, BeginsSome DEF Begin, tableau, history
  <2>2. CASE \/ Refuse(c) \/ ReadMarkers(c) \/ Lookup(c) \/ Throw(c) \/ AssertAdmin(c)
             \/ VerifyTag(c) \/ Precondition(c)
    BY <2>2 DEF Refuse, ReadMarkers, Lookup, Throw, AssertAdmin, VerifyTag, Precondition, history
  <2>3. CASE \/ VerifyNonce(c) \/ VerifyApproval(c) \/ EstablishTag(c) \/ EstablishNonce(c)
             \/ Approve(c) \/ Send(c)
    BY <2>3 DEF VerifyNonce, VerifyApproval, EstablishTag, EstablishNonce, Approve, Send, history
  <2>4. CASE \/ Execute(c) \/ Complete(c) \/ Fail(c) \/ RemoveTag(c) \/ RemoveTagFails(c)
             \/ TagsRemoved(c)
    BY <2>4 DEF Execute, Complete, Fail, RemoveTag, RemoveTagFails, TagsRemoved, history
  <2> QED BY <1>4, <2>1, <2>2, <2>3, <2>4 DEF Call
<1>5. CASE UNCHANGED vars \/ Environment
  <2>1. \A d \in Calls : Same(d) \/ Lost(d)
    BY <1>5, AroundSame
  <2> QED BY <1>3, <2>1 DEF Same, Lost
<1>6. applied \subseteq applied'
  BY <1>4, <1>5 DEF Next
<1> QED BY <1>2, <1>3, <1>6

\* Markers stay opened.
LEMMA OpenedStays ==
    ASSUME Inv, Marked, day \in Days, [Next]_vars, NEW i, NEW b, Opened(i, b)
    PROVE  Opened(i, b)'
BY DoneStays DEF Opened

\* A preview that marks content opens its batch.
LEMMA EstablishOpens ==
    ASSUME Inv, Marked, NEW c \in Calls, Local(c), EstablishTag(c)
    PROVE  \E i \in Contents, b \in Batches :
             /\ i = request[c].target /\ b = request[c].batch /\ Opened(i, b)'
             /\ tags' = [tags EXCEPT ![i] = @ \union {b}]
             /\ kept' = [kept EXCEPT ![i] = @ \ {b}]
             /\ retagged' \in [Calls -> SUBSET Batches]
             /\ \A d \in Calls :
                  retagged'[d] = IF pc[d] # "idle" /\ request[d].target = i
                                 THEN retagged[d] \union {b} ELSE retagged[d]
             /\ toRemove' = toRemove /\ request' = request
             /\ pc'[c] \notin {"idle", "admin", "untag"}
<1>1. /\ pc[c] = "establish" /\ request[c].target \in Contents /\ request' = request
      /\ applied' = applied \union {c}
  BY DEF EstablishTag
<1>2. request[c] \in Requests /\ request[c].phase = "preview" /\ pc \in [Calls -> Steps]
  BY <1>1 DEF Inv, Calling, BegunAt, PlacedAt, Shapes
<1>3. request[c].batch = request[c].begun /\ request[c].batch \in Batches
  BY <1>1, <1>2 DEF Local, AsksAt, OnContent, Requests
<1>4. PICK i \in Contents, b \in Batches : i = request[c].target /\ b = request[c].batch
  BY <1>1, <1>3
<1>5. Opened(i, b)'
  BY <1>1, <1>2, <1>3, <1>4 DEF Opened
<1>6. pc'[c] \in {"present", "done", "threw"}
  BY <1>2 DEF EstablishTag, Allow, AfterEstablish
<1>7. retagged' = [d \in Calls |-> IF pc[d] # "idle" /\ request[d].target = i
                                   THEN retagged[d] \union {b} ELSE retagged[d]]
  BY <1>4 DEF EstablishTag
<1>8. retagged' \in [Calls -> SUBSET Batches]
  BY <1>4, <1>7 DEF Marked
<1>9. /\ tags' = [tags EXCEPT ![i] = @ \union {b}] /\ kept' = [kept EXCEPT ![i] = @ \ {b}]
      /\ toRemove' = toRemove
  BY <1>4 DEF EstablishTag
<1>10. pc'[c] \notin {"idle", "admin", "untag"}
  BY <1>6
<1> QED BY <1>1, <1>4, <1>5, <1>7, <1>8, <1>9, <1>10

\* A removal reads or clears the markers of its content, and of no other.
LEMMA RemovalSteps ==
    ASSUME Inv, Marked, NEW c \in Calls, Local(c),
           ReadMarkers(c) \/ RemoveTag(c) \/ RemoveTagFails(c) \/ TagsRemoved(c)
    PROVE  /\ request[c] \in Requests /\ request[c].target \in Contents /\ Removes(request[c])
           /\ request' = request
           /\ \A i \in Contents : tags'[i] \subseteq tags[i]
<1>1. pc[c] \in {"reading", "untag"}
  BY DEF ReadMarkers, RemoveTag, RemoveTagFails, TagsRemoved
<1>2. Removes(request[c]) /\ request[c] \in Requests
  BY <1>1 DEF Local, StepAt, Inv, Calling, BegunAt
<1>3. request[c].target \in Contents
  BY <1>1, <1>2 DEF Local, AsksAt, OnContent
<1>4. request' = request /\ \A i \in Contents : tags'[i] \subseteq tags[i]
  BY DEF ReadMarkers, RemoveTag, RemoveTagFails, TagsRemoved, tableau, Marked
<1> QED BY <1>2, <1>3, <1>4

\* Another call, or nothing: what d knows of the content is as it was, but for the markers
\* others put on it.
LEMMA MarkedStep ==
    ASSUME Inv, Marked, day \in Days, (day \in Days)', [Next]_vars, \A c \in Calls : Local(c)
    PROVE  Marked'
<1> USE DEF Marked
<1> DEFINE Markers == /\ tags' \in [Contents -> SUBSET Batches]
                      /\ kept' \in [Contents -> SUBSET Batches]
                      /\ toRemove' \in [Calls -> SUBSET Batches]
                      /\ retagged' \in [Calls -> SUBSET Batches]
           Others == /\ admins' \subseteq Users /\ exists' \subseteq Targets
                     /\ lastAccess' \in [Contents -> 0..MaxDay]
                     /\ shown' \in [Calls -> 0..MaxDay] /\ unanswered' \subseteq Calls
<1>1. Markers
  <2>1. CASE UNCHANGED <<tags, toRemove, kept, retagged>>
    BY <2>1
  <2>2. ASSUME NEW c \in Calls, EstablishTag(c)
        PROVE  Markers
    <3>1. PICK i \in Contents, b \in Batches :
            /\ tags' = [tags EXCEPT ![i] = @ \union {b}]
            /\ kept' = [kept EXCEPT ![i] = @ \ {b}]
            /\ retagged' \in [Calls -> SUBSET Batches]
            /\ toRemove' = toRemove
      BY <2>2, EstablishOpens
    <3> QED BY <3>1
  <2>3. ASSUME NEW c \in Calls,
               ReadMarkers(c) \/ RemoveTag(c) \/ RemoveTagFails(c) \/ TagsRemoved(c)
        PROVE  Markers
    <3>1. request[c] \in Requests /\ request[c].target \in Contents
      BY <2>3, RemovalSteps
    <3>2. Named(request[c]) \subseteq Batches
      BY <3>1 DEF Named, Requests
    <3>3. CASE ReadMarkers(c)
      BY <3>2, <3>3 DEF ReadMarkers, tableau
    <3>4. CASE RemoveTag(c)
      <4>1. PICK batch \in toRemove[c] :
              /\ tags' = [tags EXCEPT ![request[c].target] = @ \ {batch}]
              /\ toRemove' = [toRemove EXCEPT ![c] = @ \ {batch}]
        BY <3>4 DEF RemoveTag
      <4>2. kept' = kept /\ retagged' = retagged
        BY <3>4 DEF RemoveTag, history
      <4> QED BY <3>1, <4>1, <4>2
    <3>5. CASE RemoveTagFails(c)
      BY <3>5 DEF RemoveTagFails, history
    <3>6. CASE TagsRemoved(c)
      BY <3>1, <3>2, <3>6 DEF TagsRemoved, tableau
    <3> QED BY <2>3, <3>3, <3>4, <3>5, <3>6
  <2> QED BY <2>1, <2>2, <2>3, MarksChange
<1>2. Others
  <2> USE DEF tableau, history
  <2>1. CASE UNCHANGED vars \/ Environment
    <3>1. CASE UNCHANGED vars
      BY <3>1 DEF vars
    <3>2. CASE \E user \in Users : Demote(user)
      BY <3>2 DEF Demote
    <3>3. CASE \E i \in Contents : ShowUse(i)
      <4>1. FirstDay \in Nat /\ \A d \in FirstDay..day : d \in 0..MaxDay
        BY DaysAssumption DEF Days, FirstDay
      <4> QED BY <3>3, <4>1 DEF ShowUse
    <3>4. CASE NextDay \/ (\E key \in Keys : Expire(key)) \/ Restart
      BY <3>4 DEF NextDay, Expire, Restart
    <3> QED BY <2>1, <3>1, <3>2, <3>3, <3>4 DEF Environment
  <2>2. ASSUME NEW c \in Calls, Call(c)
        PROVE  Others
    <3>1. CASE \/ DeleteContent(c) \/ DeleteTask(c) \/ UpdateTask(c) \/ ConfirmDeleteContent(c)
               \/ ConfirmUpdateTask(c) \/ RemovePendingTags(c)
      <4>1. PICK step, r : Begin(c, step, r)
        BY <3>1, BeginsSome
      <4>2. 0 \in 0..MaxDay
        BY DaysAssumption
      <4>3. shown' \in [Calls -> 0..MaxDay]
        <5>1. OnContent(r) => lastAccess[r.target] \in 0..MaxDay
          BY DEF OnContent
        <5> QED BY <4>1, <4>2, <5>1 DEF Begin
      <4> QED BY <4>1, <4>3 DEF Begin
    <3>2. CASE \/ Refuse(c) \/ ReadMarkers(c) \/ Lookup(c) \/ Throw(c) \/ AssertAdmin(c)
               \/ VerifyTag(c) \/ Precondition(c)
      BY <3>2 DEF Refuse, ReadMarkers, Lookup, Throw, AssertAdmin, VerifyTag, Precondition
    <3>3. CASE \/ VerifyNonce(c) \/ VerifyApproval(c) \/ EstablishTag(c) \/ EstablishNonce(c)
               \/ Approve(c) \/ Send(c)
      BY <3>3 DEF VerifyNonce, VerifyApproval, EstablishTag, EstablishNonce, Approve, Send
    <3>4. CASE \/ Execute(c) \/ Complete(c) \/ Fail(c) \/ RemoveTag(c) \/ RemoveTagFails(c)
               \/ TagsRemoved(c)
      BY <3>4 DEF Execute, Complete, Fail, RemoveTag, RemoveTagFails, TagsRemoved
    <3> QED BY <2>2, <3>1, <3>2, <3>3, <3>4 DEF Call
  <2> QED BY <2>1, <2>2 DEF Next
<1> QED BY <1>1, <1>2

\* The markers on content have been opened, and those cleared from it are not on it.
LEMMA MarksStep ==
    ASSUME Inv, MInv, day \in Days, [Next]_vars, NEW i \in Contents
    PROVE  MarksAt(i)'
<1> USE DEF MarksAt
<1>0. Marked /\ MarksAt(i) /\ \A c \in Calls : Local(c) /\ UntagAt(c)
  BY DEF MInv
<1>1. \A b \in tags[i] \ {NoBatch} : Opened(i, b)'
  BY <1>0, OpenedStays
<1>2. CASE UNCHANGED <<tags, toRemove, kept, retagged>>
  BY <1>0, <1>1, <1>2
<1>3. ASSUME NEW c \in Calls, EstablishTag(c)
      PROVE  MarksAt(i)'
  <2>1. PICK j \in Contents, b \in Batches :
          /\ Opened(j, b)'
          /\ tags' = [tags EXCEPT ![j] = @ \union {b}]
          /\ kept' = [kept EXCEPT ![j] = @ \ {b}]
    BY <1>0, <1>3, EstablishOpens
  <2> QED BY <1>0, <1>1, <2>1 DEF Marked
<1>4. ASSUME NEW c \in Calls, ReadMarkers(c) \/ RemoveTag(c) \/ RemoveTagFails(c) \/ TagsRemoved(c)
      PROVE  MarksAt(i)'
  <2>1. tags'[i] \subseteq tags[i] /\ Removes(request[c]) /\ request[c].target \in Contents
    BY <1>0, <1>4, RemovalSteps
  <2>2. kept'[i] \intersect tags'[i] = {}
    <3>1. CASE kept' = kept
      BY <1>0, <2>1, <3>1
    <3>2. CASE TagsRemoved(c)
      <4>1. /\ pc[c] = "untag" /\ toRemove[c] = {} /\ tags' = tags
            /\ kept' = [kept EXCEPT ![request[c].target] = @ \union (Named(request[c]) \ retagged[c])]
        BY <3>2 DEF TagsRemoved, tableau
      <4>2. tags[request[c].target] \intersect Named(request[c]) \subseteq retagged[c]
        BY <1>0, <2>1, <4>1 DEF UntagAt
      <4> QED BY <1>0, <4>1, <4>2 DEF Marked
    <3> QED BY <1>4, <3>1, <3>2 DEF ReadMarkers, RemoveTag, RemoveTagFails, history
  <2> QED BY <1>1, <2>1, <2>2
<1> QED BY <1>2, <1>3, <1>4, MarksChange

\* A removal comes to its second half by reading the markers.
LEMMA ToUntag ==
    ASSUME Inv, day \in Days, Marked, NEW d \in Calls, Local(d), Call(d),
           pc'[d] \in {"admin", "untag"}, Removes(request'[d])
    PROVE  \/ ReadMarkers(d)
           \/ pc[d] \in {"admin", "untag"} /\ request'[d] = request[d]
<1>0. pc \in [Calls -> Steps] /\ StepAt(d)
  BY DEF Inv, Shapes, Local
<1>1. CASE \/ DeleteContent(d) \/ DeleteTask(d) \/ UpdateTask(d) \/ ConfirmDeleteContent(d)
           \/ ConfirmUpdateTask(d) \/ RemovePendingTags(d)
  BY <1>1, BeginAsks
<1>2. CASE Refuse(d) \/ Lookup(d) \/ Throw(d)
  BY <1>0, <1>2 DEF Refuse, Lookup, Throw, StepAt
<1>3. CASE AssertAdmin(d) \/ RemoveTag(d) \/ RemoveTagFails(d) \/ TagsRemoved(d)
  BY <1>3 DEF AssertAdmin, RemoveTag, RemoveTagFails, TagsRemoved
<1>4. CASE VerifyTag(d) \/ Precondition(d) \/ VerifyNonce(d) \/ VerifyApproval(d)
  BY <1>0, <1>4 DEF VerifyTag, Precondition, VerifyNonce, VerifyApproval, Finish, AfterProof
<1>5. CASE EstablishTag(d) \/ EstablishNonce(d) \/ Approve(d) \/ Send(d) \/ Complete(d) \/ Fail(d)
  BY <1>0, <1>5 DEF EstablishTag, EstablishNonce, Allow, AfterEstablish, Approve, Send, Complete,
     Fail, Finish
<1>6. CASE Execute(d)
  BY <1>6 DEF Execute, callVars
<1> QED BY <1>1, <1>2, <1>3, <1>4, <1>5, <1>6 DEF Call

\* A removal does not lose sight of a marker it is to clear.
LEMMA UntagStep ==
    ASSUME Inv, MInv, day \in Days, [Next]_vars, NEW d \in Calls
    PROVE  UntagAt(d)'
<1> SUFFICES ASSUME pc'[d] \in {"admin", "untag"}, Removes(request'[d])
             PROVE  tags'[request'[d].target] \intersect Named(request'[d])
                      \subseteq toRemove'[d] \union retagged'[d]
  BY DEF UntagAt
<1>0. Marked /\ Local(d) /\ Local(d)' /\ UntagAt(d)
  BY LocalStays DEF MInv
<1>1. request'[d].target \in Contents /\ request'[d] \in Requests
  <2>1. Inv'
    BY InvStep
  <2> QED BY <1>0, <2>1 DEF Local, AsksAt, OnContent, Inv, Calling, BegunAt
<1>2. \/ Same(d) /\ pc[d] \in {"admin", "untag"} /\ Removes(request[d])
      \/ Call(d)
  BY <1>0, StepsAre DEF Same, Lost
<1>3. \/ ReadMarkers(d)
      \/ pc[d] \in {"admin", "untag"} /\ request'[d] = request[d]
  BY <1>0, <1>2, ToUntag DEF Same
<1>4. CASE ReadMarkers(d)
  <2>1. /\ toRemove'[d] = tags[request[d].target] \intersect Named(request[d])
        /\ tags' = tags /\ request' = request
    BY <1>0, <1>4 DEF ReadMarkers, tableau, Marked
  <2> QED BY <2>1
<1>5. CASE ~ReadMarkers(d)
  <2>1. /\ pc[d] \in {"admin", "untag"} /\ request'[d] = request[d]
        /\ tags[request[d].target] \intersect Named(request[d]) \subseteq toRemove[d] \union retagged[d]
    BY <1>0, <1>3, <1>5 DEF UntagAt
  <2>2. CASE UNCHANGED <<tags, toRemove, kept, retagged>>
    BY <2>1, <2>2
  <2>3. ASSUME NEW c \in Calls, EstablishTag(c)
        PROVE  tags'[request'[d].target] \intersect Named(request'[d])
                 \subseteq toRemove'[d] \union retagged'[d]
    <3>1. PICK i \in Contents, b \in Batches :
            /\ tags' = [tags EXCEPT ![i] = @ \union {b}]
            /\ \A e \in Calls :
                 retagged'[e] = IF pc[e] # "idle" /\ request[e].target = i
                                THEN retagged[e] \union {b} ELSE retagged[e]
            /\ toRemove' = toRemove
      BY <1>0, <2>3, EstablishOpens DEF MInv
    <3>2. \A j \in Contents : tags'[j] = IF j = i THEN tags[j] \union {b} ELSE tags[j]
      BY <1>0, <3>1 DEF Marked
    <3>3. CASE request[d].target = i
      <4>1. tags'[i] = tags[i] \union {b} /\ retagged'[d] = retagged[d] \union {b}
        BY <2>1, <3>1, <3>2, <3>3
      <4>2. toRemove'[d] = toRemove[d] /\ request'[d].target = i
        BY <2>1, <3>1, <3>3
      <4>3. tags[i] \intersect Named(request'[d]) \subseteq toRemove[d] \union retagged[d]
        BY <2>1, <3>3
      <4> QED BY <4>1, <4>2, <4>3
    <3>4. CASE request[d].target # i
      BY <1>1, <2>1, <3>1, <3>2, <3>4
    <3> QED BY <3>3, <3>4
  <2>4. ASSUME NEW c \in Calls,
               ReadMarkers(c) \/ RemoveTag(c) \/ RemoveTagFails(c) \/ TagsRemoved(c)
        PROVE  tags'[request'[d].target] \intersect Named(request'[d])
                 \subseteq toRemove'[d] \union retagged'[d]
    <3>1. tags'[request[d].target] \subseteq tags[request[d].target]
      BY <1>1, <2>1, <2>4, RemovalSteps DEF MInv
    <3>2. CASE toRemove'[d] = toRemove[d] /\ retagged'[d] = retagged[d]
      BY <2>1, <3>1, <3>2
    <3>3. CASE RemoveTag(c) /\ c = d
      <4>1. PICK batch \in toRemove[d] :
              /\ tags' = [tags EXCEPT ![request[d].target] = @ \ {batch}]
              /\ toRemove' = [toRemove EXCEPT ![d] = @ \ {batch}]
        BY <3>3 DEF RemoveTag
      <4>2. retagged' = retagged
        BY <3>3 DEF RemoveTag, history
      <4>3. /\ tags'[request[d].target] = tags[request[d].target] \ {batch}
            /\ toRemove'[d] = toRemove[d] \ {batch}
        BY <1>0, <1>1, <2>1, <4>1 DEF Marked
      <4> QED BY <2>1, <4>2, <4>3
    <3>4. (toRemove'[d] = toRemove[d] /\ retagged'[d] = retagged[d]) \/ (RemoveTag(c) /\ c = d)
      BY <1>0, <1>5, <2>4 DEF ReadMarkers, RemoveTag, RemoveTagFails, TagsRemoved, history, Marked
    <3> QED BY <3>2, <3>3, <3>4
  <2> QED BY <2>2, <2>3, <2>4, MarksChange
<1> QED BY <1>4, <1>5

\* A deletion of content that gets past its marker found one that is on the content, and every
\* marker with a date has been put there by a preview on that date.
LEMMA OpenedAtStep ==
    ASSUME Inv, MInv, day \in Days, [Next]_vars, NEW d \in Calls
    PROVE  OpenedAt(d)'
<1>0. Marked /\ Local(d) /\ OpenedAt(d) /\ \A i \in Contents : MarksAt(i)
  BY DEF MInv
<1> DEFINE Past == pc[d] \in {"approval", "check", "act", "waiting"} \/ d \in sent \union applied
<1> SUFFICES ASSUME Past', Mutates(request[d])', OnContent(request[d])'
             PROVE  Opened(request[d].target, request[d].batch)'
  BY DEF OpenedAt
<1>1. Same(d) \/ Lost(d) \/ Call(d)
  BY <1>0, StepsAre
<1>2. ASSUME Call(d), ~VerifyTag(d), ~Past
      PROVE  FALSE
  <2> USE <1>2
  <2>0. pc \in [Calls -> Steps] /\ StepAt(d)
    BY <1>0 DEF Inv, Shapes, Local
  <2>1. CASE \/ DeleteContent(d) \/ DeleteTask(d) \/ UpdateTask(d) \/ ConfirmDeleteContent(d)
             \/ ConfirmUpdateTask(d) \/ RemovePendingTags(d)
    BY <2>1, BeginAsks
  <2>2. CASE Refuse(d) \/ ReadMarkers(d) \/ Lookup(d) \/ Throw(d)
    BY <2>0, <2>2 DEF Refuse, ReadMarkers, Lookup, Throw, history
  <2>3. CASE AssertAdmin(d)
    <3>1. request' = request /\ sent' = sent /\ applied' = applied
      BY <2>3 DEF AssertAdmin, history
    <3>2. pc'[d] \in {AfterAdmin(request[d]), "done"}
      BY <2>0, <2>3 DEF AssertAdmin, Finish
    <3> QED BY <3>1, <3>2 DEF AfterAdmin, Mutates
  <2>4. CASE EstablishTag(d) \/ EstablishNonce(d)
    <3>1. request' = request /\ request[d].phase = "preview"
      BY <2>4 DEF EstablishTag, EstablishNonce, Inv, Calling, PlacedAt
    <3> QED BY <3>1 DEF Mutates
  <2>5. CASE VerifyNonce(d)
    <3>1. request' = request /\ pc[d] = "nonce"
      BY <2>5 DEF VerifyNonce
    <3> QED BY <2>0, <3>1 DEF StepAt
  <2>6. CASE RemoveTag(d) \/ RemoveTagFails(d) \/ TagsRemoved(d)
    <3>1. request' = request /\ pc[d] = "untag"
      BY <2>6 DEF RemoveTag, RemoveTagFails, TagsRemoved
    <3> QED BY <2>0, <3>1 DEF StepAt, Mutates
  <2>7. CASE Approve(d)
    BY <2>0, <2>7 DEF Approve, history
  <2>8. CASE VerifyApproval(d) \/ Precondition(d) \/ Send(d) \/ Execute(d) \/ Complete(d) \/ Fail(d)
    BY <2>8 DEF VerifyApproval, Precondition, Send, Execute, Complete, Fail
  <2> QED BY <1>2, <2>1, <2>2, <2>3, <2>4, <2>5, <2>6, <2>7, <2>8 DEF Call
<1>3. CASE Past
  <2>1. pc[d] # "idle"
    BY <1>3 DEF Inv, Calling, BegunAt
  <2>2. request'[d] = request[d]
    BY <1>0, <2>1, DoneStays
  <2>3. Opened(request[d].target, request[d].batch)
    BY <1>0, <1>3, <2>2 DEF OpenedAt
  <2>4. PICK p \in applied :
          /\ request[p].phase = "preview" /\ request[p].target = request[d].target
          /\ request[p].batch = request[d].batch /\ request[p].begun = request[d].batch
    BY <2>3 DEF Opened
  <2>5. p \in applied' /\ request'[p] = request[p]
    BY <1>0, DoneStays
  <2> QED BY <2>2, <2>4, <2>5 DEF Opened
<1>4. CASE ~Past
  <2>1. VerifyTag(d)
    BY <1>1, <1>2, <1>4 DEF Same, Lost
  <2>2. request' = request /\ pc[d] = "tag" /\ sent' = sent /\ applied' = applied
    BY <2>1 DEF VerifyTag, history
  <2>3. request[d].batch \in tags[request[d].target]
    BY <1>4, <2>1, <2>2 DEF VerifyTag, Finish, Inv, Shapes
  <2>4. request[d].batch # NoBatch
    <3>1. request[d].batch \in Days
      BY <1>0, <2>2 DEF Local, AsksAt
    <3> QED BY <3>1, DaysAssumption DEF Days, FirstDay, NoBatch
  <2>5. Opened(request[d].target, request[d].batch)
    BY <1>0, <2>2, <2>3, <2>4 DEF MarksAt, OnContent
  <2>6. PICK p \in applied :
          /\ request[p].phase = "preview" /\ request[p].target = request[d].target
          /\ request[p].batch = request[d].batch /\ request[p].begun = request[d].batch
    BY <2>5 DEF Opened
  <2> QED BY <2>2, <2>6 DEF Opened
<1> QED BY <1>3, <1>4

\* Uses are only ever added.
LEMMA AccessGrows ==
    ASSUME Marked, day \in Days, [Next]_vars, NEW i \in Contents
    PROVE  lastAccess[i] <= lastAccess'[i] /\ lastAccess[i] \in Nat /\ lastAccess'[i] \in Nat
<1>0. lastAccess \in [Contents -> 0..MaxDay] /\ MaxDay \in Nat
  BY DaysAssumption DEF Marked
<1>1. CASE lastAccess' = lastAccess
  BY <1>0, <1>1
<1>2. ASSUME NEW j \in Contents, ShowUse(j)
      PROVE  lastAccess[i] <= lastAccess'[i] /\ lastAccess'[i] \in Nat
  <2>1. PICK n \in FirstDay..day : n > lastAccess[j] /\ lastAccess' = [lastAccess EXCEPT ![j] = n]
    BY <1>2 DEF ShowUse
  <2>2. n \in Nat
    BY <2>1, DaysAssumption DEF FirstDay, Days
  <2>3. lastAccess'[i] = IF i = j THEN n ELSE lastAccess[i]
    BY <1>0, <2>1
  <2> QED BY <1>0, <2>1, <2>2, <2>3
<1>3. lastAccess' = lastAccess \/ \E j \in Contents : ShowUse(j)
  <2> USE DEF tableau
  <2>1. ASSUME NEW c \in Calls, Call(c)
        PROVE  lastAccess' = lastAccess
    <3>1. CASE \/ DeleteContent(c) \/ DeleteTask(c) \/ UpdateTask(c) \/ ConfirmDeleteContent(c)
               \/ ConfirmUpdateTask(c) \/ RemovePendingTags(c)
      BY <3>1, BeginsSome DEF Begin
    <3>2. CASE \/ Refuse(c) \/ ReadMarkers(c) \/ Lookup(c) \/ Throw(c) \/ AssertAdmin(c)
               \/ VerifyTag(c) \/ Precondition(c)
      BY <3>2 DEF Refuse, ReadMarkers, Lookup, Throw, AssertAdmin, VerifyTag, Precondition
    <3>3. CASE \/ VerifyNonce(c) \/ VerifyApproval(c) \/ EstablishTag(c) \/ EstablishNonce(c)
               \/ Approve(c) \/ Send(c)
      BY <3>3 DEF VerifyNonce, VerifyApproval, EstablishTag, EstablishNonce, Approve, Send
    <3>4. CASE \/ Execute(c) \/ Complete(c) \/ Fail(c) \/ RemoveTag(c) \/ RemoveTagFails(c)
               \/ TagsRemoved(c)
      BY <3>4 DEF Execute, Complete, Fail, RemoveTag, RemoveTagFails, TagsRemoved
    <3> QED BY <2>1, <3>1, <3>2, <3>3, <3>4 DEF Call
  <2>2. CASE UNCHANGED vars
    BY <2>2 DEF vars
  <2>3. CASE Environment
    BY <2>3 DEF Environment, NextDay, Demote, Expire, Restart
  <2> QED BY <2>1, <2>2, <2>3 DEF Next
<1> QED BY <1>0, <1>1, <1>2, <1>3

\* An idle call begins; a call that is on its way keeps what it was shown.
LEMMA IdleBegins ==
    ASSUME Inv, NEW d \in Calls, Call(d), pc[d] = "idle"
    PROVE  \/ DeleteContent(d) \/ DeleteTask(d) \/ UpdateTask(d) \/ ConfirmDeleteContent(d)
           \/ ConfirmUpdateTask(d) \/ RemovePendingTags(d)
<1>1. d \notin sent
  BY DEF Inv, Calling, BegunAt
<1> QED BY <1>1 DEF Call, Refuse, ReadMarkers, Lookup, AssertAdmin, VerifyTag, VerifyNonce,
       VerifyApproval, Precondition, EstablishTag, EstablishNonce, Throw, Approve, Send, Execute,
       Complete, Fail, RemoveTag, RemoveTagFails, TagsRemoved

LEMMA ShownSame ==
    ASSUME Inv, Marked, [Next]_vars, NEW d \in Calls, pc[d] # "idle"
    PROVE  shown'[d] = shown[d]
<1>1. CASE Call(d)
  <2>1. ASSUME \/ DeleteContent(d) \/ DeleteTask(d) \/ UpdateTask(d) \/ ConfirmDeleteContent(d)
               \/ ConfirmUpdateTask(d) \/ RemovePendingTags(d)
        PROVE  FALSE
    BY <2>1, BeginsSome DEF Begin
  <2> QED BY <1>1, <2>1 DEF Call, Refuse, ReadMarkers, Lookup, AssertAdmin, VerifyTag, VerifyNonce,
       VerifyApproval, Precondition, EstablishTag, EstablishNonce, Throw, Approve, Send, Execute,
       Complete, Fail, RemoveTag, RemoveTagFails, TagsRemoved, history
<1> QED BY <1>1, StepsAre DEF Same, Lost

\* The steps after which a deletion of content is past its precondition.
LEMMA ToAct ==
    ASSUME Inv, Marked, NEW d \in Calls, Local(d), Call(d), pc[d] # "idle",
           OnContent(request[d]), Mutates(request[d]),
           ~(pc[d] \in {"act", "waiting"} \/ d \in sent \union applied),
           pc'[d] \in {"act", "waiting"} \/ d \in sent' \union applied'
    PROVE  Precondition(d) /\ pc'[d] = "act"
<1>0. pc \in [Calls -> Steps] /\ StepAt(d)
  BY DEF Inv, Shapes, Local
<1>1. ASSUME \/ DeleteContent(d) \/ DeleteTask(d) \/ UpdateTask(d) \/ ConfirmDeleteContent(d)
             \/ ConfirmUpdateTask(d) \/ RemovePendingTags(d)
      PROVE  FALSE
  BY <1>1, BeginsSome DEF Begin
<1>2. ASSUME Refuse(d) \/ ReadMarkers(d) \/ Lookup(d) \/ Throw(d)
      PROVE  FALSE
  BY <1>0, <1>2 DEF Refuse, ReadMarkers, Lookup, Throw, history
<1>3. ASSUME AssertAdmin(d) \/ VerifyTag(d)
      PROVE  FALSE
  BY <1>0, <1>3 DEF AssertAdmin, VerifyTag, AfterAdmin, Finish, history
<1>4. ASSUME VerifyNonce(d) \/ VerifyApproval(d)
      PROVE  FALSE
  BY <1>0, <1>4 DEF VerifyNonce, VerifyApproval, AfterProof, Finish, history
<1>5. ASSUME EstablishTag(d) \/ EstablishNonce(d) \/ Approve(d)
      PROVE  FALSE
  <2>1. request[d].phase = "preview"
    BY <1>5 DEF EstablishTag, EstablishNonce, Approve, Inv, Calling, PlacedAt, Allowed
  <2> QED BY <2>1 DEF Mutates
<1>6. ASSUME Send(d) \/ Execute(d) \/ Complete(d) \/ Fail(d)
      PROVE  FALSE
  BY <1>6 DEF Send, Execute, Complete, Fail
<1>7. ASSUME RemoveTag(d) \/ RemoveTagFails(d) \/ TagsRemoved(d)
      PROVE  FALSE
  BY <1>0, <1>7 DEF RemoveTag, RemoveTagFails, TagsRemoved, StepAt, Mutates
<1>8. Precondition(d)
  BY <1>1, <1>2, <1>3, <1>4, <1>5, <1>6, <1>7 DEF Call
<1> QED BY <1>0, <1>8 DEF Precondition, Finish, history

\* A deletion that gets past the precondition is of content not used since its batch.
LEMMA UnusedStep ==
    ASSUME Inv, MInv, day \in Days, [Next]_vars, NEW d \in Calls
    PROVE  UnusedAt(d)'
<1>0. Marked /\ Local(d) /\ UnusedAt(d)
  BY DEF MInv
<1> DEFINE Past == pc[d] \in {"act", "waiting"} \/ d \in sent \union applied
<1> SUFFICES ASSUME pc'[d] # "idle", OnContent(request'[d])
             PROVE  /\ shown'[d] <= lastAccess'[request'[d].target]
                    /\ Mutates(request'[d]) /\ Past' => shown'[d] < request'[d].batch
  BY DEF UnusedAt
<1>1. Same(d) \/ Lost(d) \/ Call(d)
  BY <1>0, StepsAre
<1>2. ASSUME \/ DeleteContent(d) \/ DeleteTask(d) \/ UpdateTask(d) \/ ConfirmDeleteContent(d)
             \/ ConfirmUpdateTask(d) \/ RemovePendingTags(d)
      PROVE  /\ shown'[d] <= lastAccess'[request'[d].target]
             /\ Mutates(request'[d]) /\ Past' => shown'[d] < request'[d].batch
  <2>1. PICK step, r : Begin(d, step, r)
    BY <1>2, BeginsSome
  <2>2. request'[d] = r /\ r.target \in Contents
    BY <2>1 DEF Begin, Inv, Shapes, OnContent
  <2>3. shown'[d] = lastAccess[r.target] /\ lastAccess' = lastAccess
    BY <1>0, <2>1, <2>2 DEF Begin, Marked, OnContent, tableau
  <2>4. lastAccess[r.target] \in Nat
    BY <1>0, <2>2, AccessGrows
  <2>5. ~Past'
    BY <1>2, BeginAsks
  <2> QED BY <2>2, <2>3, <2>4, <2>5
<1>3. CASE pc[d] # "idle"
  <2>1. request'[d] = request[d] /\ request[d].target \in Contents
    BY <1>0, <1>3, DoneStays DEF OnContent
  <2>2. /\ lastAccess[request[d].target] \in Nat /\ lastAccess'[request[d].target] \in Nat
        /\ lastAccess[request[d].target] <= lastAccess'[request[d].target]
    BY <1>0, <2>1, AccessGrows
  <2>3. shown[d] <= lastAccess[request[d].target] /\ shown[d] \in Nat
    BY <1>0, <1>3, <2>1, DaysAssumption DEF UnusedAt, OnContent, Marked
  <2>4. shown'[d] = shown[d]
    BY <1>0, <1>3, ShownSame
  <2>5. ASSUME Mutates(request'[d]), Past'
        PROVE  shown[d] < request[d].batch
    <3>1. CASE Past
      BY <1>0, <1>3, <2>1, <2>5, <3>1 DEF UnusedAt, OnContent
    <3>2. CASE ~Past
      <4>1. Precondition(d) /\ pc'[d] = "act"
        BY <1>0, <1>1, <1>3, <2>1, <2>5, <3>2, ToAct DEF Same, Lost, OnContent
      <4>2. StillStale(request[d])
        BY <4>1 DEF Precondition, Finish, Inv, Shapes
      <4>3. request[d].batch \in Nat
        <5>1. request[d].batch \in Days
          BY <1>0, <1>3, <2>1, <2>5 DEF Local, AsksAt, OnContent
        <5> QED BY <5>1, DaysAssumption DEF Days, FirstDay
      <4> QED BY <2>2, <2>3, <4>2, <4>3 DEF StillStale
    <3> QED BY <3>1, <3>2
  <2> QED BY <2>1, <2>2, <2>3, <2>4, <2>5
<1>4. CASE pc[d] = "idle"
  <2>1. Call(d)
    BY <1>1, <1>4 DEF Same, Lost
  <2> QED BY <1>2, <1>4, <2>1, IdleBegins
<1> QED BY <1>3, <1>4

-----------------------------------------------------------------------------
LEMMA MInvInit ==
    ASSUME Init
    PROVE  MInv
<1> USE DEF Init
<1>1. Marked
  <2>1. 0 \in 0..MaxDay
    BY DaysAssumption
  <2>2. tags \in [Contents -> SUBSET Batches]
    <3>1. {} \in SUBSET Batches /\ {NoBatch} \in SUBSET Batches
      BY DEF Batches
    <3> QED BY <3>1
  <2> QED BY <2>1, <2>2 DEF Marked
<1>2. ASSUME NEW c \in Calls
      PROVE  Local(c) /\ OpenedAt(c) /\ UnusedAt(c) /\ UntagAt(c)
  BY DEF Local, AsksAt, StepAt, AuditAt, Asked, OpenedAt, UnusedAt, UntagAt
<1>3. ASSUME NEW i \in Contents
      PROVE  MarksAt(i)
  BY DEF MarksAt
<1> QED BY <1>1, <1>2, <1>3 DEF MInv

LEMMA MInvStep ==
    ASSUME Inv, MInv, day \in Days, [Next]_vars
    PROVE  MInv'
<1>1. Marked /\ (\A c \in Calls : Local(c)) /\ (day \in Days)'
  BY InvStep DEF MInv
<1>2. Marked'
  BY <1>1, MarkedStep
<1>3. \A c \in Calls : Local(c)'
  BY <1>1, LocalStays
<1>4. \A c \in Calls : OpenedAt(c)' /\ UnusedAt(c)' /\ UntagAt(c)'
  BY OpenedAtStep, UnusedStep, UntagStep
<1>5. \A i \in Contents : MarksAt(i)'
  BY MarksStep
<1> QED BY <1>2, <1>3, <1>4, <1>5 DEF MInv

LEMMA MarksInvariance == Spec => [](Inv /\ MInv /\ day \in Days)
<1>1. Init => Inv /\ MInv /\ day \in Days
  BY InvInit, MInvInit, DaysAssumption DEF Init, Days, FirstDay
<1>2. Inv /\ MInv /\ day \in Days /\ [Next]_vars => (Inv /\ MInv /\ day \in Days)'
  BY InvStep, MInvStep
<1> QED BY <1>1, <1>2, PTL DEF Spec

\* Every variable has its type, and a nonce or an approval is under the key of the preview
\* that gave it.
THEOREM TypeCorrect == Spec => []TypeOK
<1>1. Inv /\ MInv /\ day \in Days => TypeOK
  <2> SUFFICES ASSUME Inv, MInv, day \in Days
               PROVE  TypeOK
    OBVIOUS
  <2>1. \A key \in Keys : \A p \in {approvals[key], nonces[key]} \ {None} :
          request[p] \in Requests /\ KeyOf(request[p]) = key
    BY DEF Inv, Cached, NonceAt, ApprovalAt, Allowed
  <2> QED BY <2>1 DEF Inv, Shapes, MInv, Marked, TypeOK
<1> QED BY <1>1, MarksInvariance, PTL

\* Content is deleted only in the batch of a preview that marked it, on the day the batch is
\* named after and no longer ago than a batch lives: whoever else previews, confirms or removes
\* markers meanwhile, and whether or not the server is restarted (TagEvidence,
\* checkCleanupBatchAge).
THEOREM DeletedAsAssessed == Spec => []AssessedInItsBatch
<1>1. Inv /\ MInv => AssessedInItsBatch
  <2> SUFFICES ASSUME Inv, MInv, NEW c \in Calls, Asked(c), OnContent(request[c])
               PROVE  \E p \in applied :
                        /\ request[p].phase = "preview"
                        /\ request[p].target = request[c].target
                        /\ request[p].batch = request[c].batch
                        /\ request[p].begun = request[c].batch
                        /\ request[c].begun - request[p].begun <= MaxAgeDays
    BY DEF AssessedInItsBatch
  <2>1. pc[c] # "idle"
    BY DEF Inv, Calling, BegunAt, Asked
  <2>2. Opened(request[c].target, request[c].batch)
    BY DEF MInv, OpenedAt, Asked
  <2>3. request[c].begun - request[c].batch <= MaxAgeDays
    BY <2>1 DEF MInv, Local, AsksAt, Asked
  <2> QED BY <2>2, <2>3 DEF Opened
<1> QED BY <1>1, MarksInvariance, PTL

\* A use that Admin Insights shows when the confirm begins, on the day of the batch or later,
\* keeps the content, whatever it shows by the time the precondition is checked
\* (checkContentStillStale).
THEOREM UsedIsKept == Spec => []UnusedSinceBatch
<1>1. Inv /\ MInv => UnusedSinceBatch
  BY DEF Inv, Calling, BegunAt, MInv, UnusedAt, Asked, UnusedSinceBatch
<1> QED BY <1>1, MarksInvariance, PTL

\* Markers that have been removed are gone until a preview puts them back: a removal overlooks
\* no marker, however many previews and removals work on the content at once
\* (removeMarkersFromItem).
THEOREM RemovedAreGone == Spec => []KeptUnmarked
<1>1. MInv => KeptUnmarked
  BY DEF MInv, MarksAt, KeptUnmarked
<1> QED BY <1>1, MarksInvariance, PTL

\* The audit agrees with what was done (recordOutcome, guardMutation).
THEOREM AuditIsTrue == Spec => []AuditAgrees
<1>1. MInv => AuditAgrees
  <2> SUFFICES ASSUME MInv, NEW c \in Calls
               PROVE  /\ Len(audit[c]) <= 1
                      /\ audit[c] = <<"completed">> /\ Mutates(request[c]) => c \in applied
                      /\ audit[c] = <<"denied">> => c \notin sent \union applied
                      /\ audit[c] = <<"failed">> =>
                           c \notin sent \union applied \/ c \in unanswered
                      /\ Asked(c) /\ c \in applied /\ pc[c] \in {"done", "threw"} =>
                           audit[c] \in {<<"completed">>, <<"failed">>}
    BY DEF AuditAgrees
  <2>1. AuditAt(c)
    BY DEF MInv, Local
  <2>2. Len(audit[c]) <= 1
    <3>1. CASE audit[c] = <<>>
      BY <3>1
    <3>2. ASSUME NEW result \in Results, audit[c] = <<result>>
          PROVE  Len(audit[c]) <= 1
      BY <3>2
    <3> QED BY <2>1, <3>1, <3>2 DEF AuditAt
  <2> QED BY <2>1, <2>2 DEF AuditAt
<1> QED BY <1>1, MarksInvariance, PTL
=============================================================================
