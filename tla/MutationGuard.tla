--------------------------- MODULE MutationGuard ---------------------------
(***************************************************************************)
(* Mutations of Tableau content that are previewed first and confirmed     *)
(* later: delete-content and update-cloud-extract-refresh-task, the two    *)
(* confirm tools of the rendered panel, and the removal of pending-        *)
(* deletion markers.  Every call runs through guardMutation one await at a *)
(* time, between the calls of other clients; the proof of a preview is a   *)
(* marker on the content, a nonce or an approval in the memory of the      *)
(* server, or a marker and an approval together.                           *)
(*                                                                         *)
(* A call runs once.  The nonce or approval it mints is named after it, so *)
(* that a confirm knows which preview it rests on; nothing in the code     *)
(* does, and no guard of the model reads it.  One site is modelled.        *)
(***************************************************************************)
EXTENDS Naturals, Sequences

CONSTANTS
    Calls,        \* the tool calls
    Users,
    Contents,     \* workbooks and data sources
    Tasks,        \* extract refresh tasks
    Schedules,    \* the schedules a task can be given
    None,         \* undefined
    MinAgeDays,   \* the stale-content threshold of every call
    MaxAgeDays,   \* PENDING_DELETION_MAX_AGE_DAYS
    MaxDay        \* bound: the last day of the model

ASSUME NoneAssumption == None \notin Calls \union Schedules
ASSUME DistinctAssumption == Contents \intersect Tasks = {}
ASSUME DaysAssumption ==
    MinAgeDays \in Nat \ {0} /\ MaxAgeDays \in Nat \ {0} /\ MaxDay \in Nat /\ MaxDay > MinAgeDays

VARIABLES
    day,          \* today, UTC
    admins,       \* the users whose site role Tableau reports as administrator
    exists,       \* the contents and tasks on the site
    tags,         \* tags[i]: the batches of the markers on content i
    lastAccess,   \* lastAccess[i]: the last day of use Admin Insights shows
    approvals,    \* approvalCache: key -> the preview that approved it, or None
    nonces,       \* nonceCache: key -> the preview whose nonce it holds, or None
    request,      \* request[c]: the arguments of call c
    pc,           \* pc[c]: where call c is
    proof,        \* proof[c]: the preview whose nonce or approval c consumed
    toRemove,     \* toRemove[c]: the markers c still has to remove
    audit,        \* audit[c]: the results of the records c has written
    sent,         \* the calls whose mutation Tableau may still carry out
    applied,      \* the calls whose write Tableau has carried out
    unanswered,   \* the calls that stopped waiting for Tableau's answer
    kept,         \* kept[i]: markers cleared from i and not put back since
    retagged,     \* retagged[c]: markers put on the target since c read it
    shown         \* shown[c]: lastAccess of the target when c began

tableau == <<day, admins, exists, tags, lastAccess>>
caches == <<approvals, nonces>>
callVars == <<request, pc, proof, toRemove, audit>>
history == <<applied, unanswered, kept, retagged, shown>>
vars == <<tableau, caches, callVars, sent, history>>

\* A marker without a date, and a request without cleanupDate.
NoBatch == 0

FirstDay == MinAgeDays + 1
Days == FirstDay..MaxDay
Batches == Days \union {NoBatch}
Targets == Contents \union Tasks
Phases == {"preview", "confirm"}
Tools == {"delete-content", "confirm-delete-content", "update-task", "confirm-update-task",
          "remove-pending-tags"}
Steps == {"idle", "reading", "lookup", "admin", "tag", "nonce", "approval",
          "check", "establish", "present", "act", "waiting", "untag",
          "done", "refused", "threw", "lost"}
Ended == {"done", "refused", "threw", "lost"}

\* The arguments of one call; app says whether the client renders the panel.
Requests == [tool : Tools, phase : Phases, user : Users, target : Targets, batch : Batches,
             schedule : Schedules \union {None}, token : Calls \union {None},
             app : BOOLEAN, begun : Days]

PreviewTool(tool) ==
    CASE tool = "confirm-delete-content" -> "delete-content"
      [] tool = "confirm-update-task"    -> "update-task"
      [] OTHER -> tool

\* nonceKey and approvalKey: a confirm tool looks under the name of its preview tool.
Keys == Users \X Tools \X Targets \X (Schedules \union {None})

\* Mutant: the schedule is not bound into the key.
KeyUnbound(r) == <<r.user, PreviewTool(r.tool), r.target, None>>

KeyOf(r) == <<r.user, PreviewTool(r.tool), r.target, r.schedule>>

IsPanelTool(r) == r.tool \in {"confirm-delete-content", "confirm-update-task"}
Removes(r) == r.tool = "remove-pending-tags"
Mutates(r) == r.phase = "confirm" /\ ~Removes(r)
OnContent(r) == r.target \in Contents

\* The proof a preview leaves and a confirm consumes.
UsesNonce(r) == ~Removes(r) /\ ~IsPanelTool(r) /\ ~OnContent(r)
UsesApproval(r) == IsPanelTool(r)

Init ==
    /\ day = FirstDay
    /\ admins = Users
    /\ exists = Targets
    /\ tags \in [Contents -> {{}, {NoBatch}}]
    /\ lastAccess = [i \in Contents |-> 0]
    /\ approvals = [k \in Keys |-> None]
    /\ nonces = [k \in Keys |-> None]
    /\ request = [c \in Calls |-> None]
    /\ pc = [c \in Calls |-> "idle"]
    /\ proof = [c \in Calls |-> None]
    /\ toRemove = [c \in Calls |-> {}]
    /\ audit = [c \in Calls |-> <<>>]
    /\ sent = {}
    /\ applied = {}
    /\ unanswered = {}
    /\ kept = [i \in Contents |-> {}]
    /\ retagged = [c \in Calls |-> {}]
    /\ shown = [c \in Calls |-> 0]

-----------------------------------------------------------------------------
Goto(c, step) == pc' = [pc EXCEPT ![c] = step]

Record(c, result) == audit' = [audit EXCEPT ![c] = Append(@, result)]

\* The end of a call: one audit record and an answer.
Finish(c, result) == Record(c, result) /\ Goto(c, "done")

At(c, step) == pc[c] = step

\* The tokens a client can have: those a preview has shown it.
Shown(p) ==
    /\ At(p, "done") /\ audit[p] = <<"allowed">>
    /\ request[p].phase = "preview" /\ ~request[p].app
Tokens == {None} \union {p \in Calls : Shown(p)}

\* checkCleanupBatchAge and cleanupDateSchema: a batch that has begun and not expired.
\* Mutant: a batch never expires.
EveryBatch == {b \in Days : b <= day}

RecentBatches == {b \in Days : b <= day /\ day - b <= MaxAgeDays}

\* A call gets past the schema and the checks before its first REST call.
Begin(c, step, r) ==
    /\ At(c, "idle")
    /\ request' = [request EXCEPT ![c] = r]
    /\ shown' = [shown EXCEPT ![c] = IF OnContent(r) THEN lastAccess[r.target] ELSE 0]
    /\ Goto(c, step)
    /\ UNCHANGED <<tableau, caches, proof, toRemove, audit, sent, applied, unanswered, kept, retagged>>

Arguments(tool, phase, user, target, batch, new, token, app) ==
    [tool |-> tool, phase |-> phase, user |-> user, target |-> target, batch |-> batch,
     schedule |-> new, token |-> token, app |-> app, begun |-> day]

\* delete-content: a preview opens the batch of today; the panel's client cannot confirm here.
DeleteContent(c) ==
    \E user \in Users, phase \in Phases, target \in Contents, batch \in RecentBatches,
       app \in BOOLEAN :
        /\ phase = "preview" => batch = day
        /\ phase = "confirm" => ~app
        /\ Begin(c, "admin",
                 Arguments("delete-content", phase, user, target, batch, None, None, app))

DeleteTask(c) ==
    \E user \in Users, phase \in Phases, target \in Tasks, token \in Tokens, app \in BOOLEAN :
        /\ phase = "preview" => token = None
        /\ phase = "confirm" => ~app
        /\ Begin(c, "lookup",
                 Arguments("delete-content", phase, user, target, NoBatch, None, token, app))

UpdateTask(c) ==
    \E user \in Users, phase \in Phases, target \in Tasks, new \in Schedules, token \in Tokens,
       app \in BOOLEAN :
        /\ phase = "preview" => token = None
        /\ phase = "confirm" => ~app
        /\ Begin(c, "admin",
                 Arguments("update-task", phase, user, target, NoBatch, new, token, app))

\* The buttons of the panels.
ConfirmDeleteContent(c) ==
    \E user \in Users :
        \/ \E target \in Contents, batch \in RecentBatches :
            Begin(c, "admin", Arguments("confirm-delete-content", "confirm", user, target,
                                        batch, None, None, TRUE))
        \/ \E target \in Tasks :
            Begin(c, "admin", Arguments("confirm-delete-content", "confirm", user, target,
                                        NoBatch, None, None, TRUE))

ConfirmUpdateTask(c) ==
    \E user \in Users, target \in Tasks, new \in Schedules :
        Begin(c, "admin", Arguments("confirm-update-task", "confirm", user, target,
                                    NoBatch, new, None, TRUE))

\* Removes the markers of one batch, or of all; items of one call do not depend on each other.
RemovePendingTags(c) ==
    \E user \in Users, target \in Contents, batch \in Batches :
        /\ batch <= day
        /\ Begin(c, "reading", Arguments("remove-pending-tags", "confirm", user, target,
                                         batch, None, None, FALSE))

-----------------------------------------------------------------------------
\* Before the guard.  An error here leaves no audit record.

Refuse(c) ==
    /\ pc[c] \in {"reading", "lookup"}
    /\ Goto(c, "refused")
    /\ UNCHANGED <<tableau, caches, request, proof, toRemove, audit, sent, history>>

\* The markers the call names: those of its batch, or all of them.
Named(r) == IF r.batch = NoBatch THEN Batches ELSE {r.batch}

\* Mutant: the markers are those of the access checker's cached content.
ReadCachedMarkers(c) ==
    /\ At(c, "reading") /\ request[c].user \in admins /\ request[c].target \in exists
    /\ \E cached \in SUBSET tags[request[c].target] :
        toRemove' = [toRemove EXCEPT ![c] = cached \intersect Named(request[c])]
    /\ retagged' = [retagged EXCEPT ![c] = {}]
    /\ Goto(c, "admin")
    /\ UNCHANGED <<tableau, caches, request, proof, audit, sent, applied, unanswered, kept, shown>>

\* The caller is asked to be an administrator before anything is read, and again by the guard.
ReadMarkers(c) ==
    /\ At(c, "reading") /\ request[c].user \in admins /\ request[c].target \in exists
    /\ toRemove' = [toRemove EXCEPT ![c] = tags[request[c].target] \intersect Named(request[c])]
    /\ retagged' = [retagged EXCEPT ![c] = {}]
    /\ Goto(c, "admin")
    /\ UNCHANGED <<tableau, caches, request, proof, audit, sent, applied, unanswered, kept, shown>>

\* The task must be listed.  (The access checker, which reads the content, changes nothing.)
Lookup(c) ==
    /\ At(c, "lookup") /\ request[c].target \in exists
    /\ Goto(c, "admin")
    /\ UNCHANGED <<tableau, caches, request, proof, toRemove, audit, sent, history>>

-----------------------------------------------------------------------------
\* guardMutation

AfterAdmin(r) ==
    CASE Removes(r) -> "untag"
      [] r.phase = "preview" -> IF OnContent(r) THEN "check" ELSE "establish"
      [] OTHER -> IF OnContent(r) THEN "tag" ELSE IF UsesNonce(r) THEN "nonce" ELSE "approval"

\* The target is then resolved, which reads what the record says of it and changes nothing.
AssertAdmin(c) ==
    /\ At(c, "admin")
    /\ \/ request[c].user \in admins /\ Goto(c, AfterAdmin(request[c])) /\ UNCHANGED audit
       \/ request[c].user \notin admins /\ Finish(c, "denied")
    /\ UNCHANGED <<tableau, caches, request, proof, toRemove, sent, history>>

\* Mutant: any marker is a proof, whatever its batch.
VerifyAnyTag(c) ==
    /\ At(c, "tag") /\ request[c].target \in exists
    /\ \/ /\ tags[request[c].target] # {}
          /\ Goto(c, IF IsPanelTool(request[c]) THEN "approval" ELSE "check")
          /\ UNCHANGED audit
       \/ tags[request[c].target] = {} /\ Finish(c, "denied")
    /\ UNCHANGED <<tableau, caches, request, proof, toRemove, sent, history>>

\* TagEvidence.verify: the marker of this batch is on the content now.
VerifyTag(c) ==
    /\ At(c, "tag") /\ request[c].target \in exists
    /\ \/ /\ request[c].batch \in tags[request[c].target]
          /\ Goto(c, IF IsPanelTool(request[c]) THEN "approval" ELSE "check")
          /\ UNCHANGED audit
       \/ request[c].batch \notin tags[request[c].target] /\ Finish(c, "denied")
    /\ UNCHANGED <<tableau, caches, request, proof, toRemove, sent, history>>

AfterProof(r) == IF OnContent(r) THEN "check" ELSE "act"

\* Mutant: the nonce is not consumed.
VerifyNonceOnly(c) ==
    LET stored == nonces[KeyOf(request[c])] IN
    /\ At(c, "nonce")
    /\ \/ /\ stored # None /\ stored = request[c].token
          /\ proof' = [proof EXCEPT ![c] = stored]
          /\ Goto(c, AfterProof(request[c]))
          /\ UNCHANGED <<nonces, audit>>
       \/ /\ stored = None \/ stored # request[c].token
          /\ Finish(c, "denied")
          /\ UNCHANGED <<nonces, proof>>
    /\ UNCHANGED <<tableau, approvals, request, toRemove, sent, history>>

\* RegistryEvidence.verify
VerifyNonce(c) ==
    LET stored == nonces[KeyOf(request[c])] IN
    /\ At(c, "nonce")
    /\ \/ /\ stored # None /\ stored = request[c].token
          /\ nonces' = [nonces EXCEPT ![KeyOf(request[c])] = None]
          /\ proof' = [proof EXCEPT ![c] = stored]
          /\ Goto(c, AfterProof(request[c]))
          /\ UNCHANGED audit
       \/ /\ stored = None \/ stored # request[c].token
          /\ Finish(c, "denied")
          /\ UNCHANGED <<nonces, proof>>
    /\ UNCHANGED <<tableau, approvals, request, toRemove, sent, history>>

\* Mutant: the approval is not consumed.
VerifyApprovalOnly(c) ==
    LET approved == approvals[KeyOf(request[c])] IN
    /\ At(c, "approval")
    /\ \/ /\ approved # None
          /\ proof' = [proof EXCEPT ![c] = approved]
          /\ Goto(c, AfterProof(request[c]))
          /\ UNCHANGED <<approvals, audit>>
       \/ approved = None /\ Finish(c, "denied") /\ UNCHANGED <<approvals, proof>>
    /\ UNCHANGED <<tableau, nonces, request, toRemove, sent, history>>

\* AppApprovalEvidence.verify
VerifyApproval(c) ==
    LET approved == approvals[KeyOf(request[c])] IN
    /\ At(c, "approval")
    /\ \/ /\ approved # None
          /\ approvals' = [approvals EXCEPT ![KeyOf(request[c])] = None]
          /\ proof' = [proof EXCEPT ![c] = approved]
          /\ Goto(c, AfterProof(request[c]))
          /\ UNCHANGED audit
       \/ approved = None /\ Finish(c, "denied") /\ UNCHANGED <<approvals, proof>>
    /\ UNCHANGED <<tableau, nonces, request, toRemove, sent, history>>

\* Mutant: use since the batch was opened is not looked for.
StillStaleByAge(r) == day - lastAccess[r.target] > MinAgeDays

\* checkContentStillStale
StillStale(r) ==
    /\ day - lastAccess[r.target] > MinAgeDays
    /\ lastAccess[r.target] < r.batch

\* Admin Insights may also be unable to tell, which blocks the call.
Precondition(c) ==
    /\ At(c, "check")
    /\ \/ /\ StillStale(request[c])
          /\ Goto(c, IF request[c].phase = "preview" THEN "establish" ELSE "act")
          /\ UNCHANGED audit
       \/ Finish(c, "denied")
    /\ UNCHANGED <<tableau, caches, request, proof, toRemove, sent, history>>

AfterEstablish(r) == IF r.app THEN "present" ELSE "done"

Allow(c) == Record(c, "allowed") /\ Goto(c, AfterEstablish(request[c]))

\* The target gets the marker of the batch; the answer may be lost.
EstablishTag(c) ==
    LET target == request[c].target
        batch == request[c].batch
    IN
    /\ At(c, "establish") /\ target \in Contents \intersect exists
    /\ tags' = [tags EXCEPT ![target] = @ \union {batch}]
    /\ kept' = [kept EXCEPT ![target] = @ \ {batch}]
    /\ retagged' = [d \in Calls |->
         IF ~At(d, "idle") /\ request[d].target = target
         THEN retagged[d] \union {batch} ELSE retagged[d]]
    /\ applied' = applied \union {c}
    /\ \/ Allow(c)
       \/ Goto(c, "threw") /\ UNCHANGED audit
    /\ UNCHANGED <<day, admins, exists, lastAccess, caches, request, proof, toRemove, sent,
                   unanswered, shown>>

\* A later preview of the same key replaces the nonce.
EstablishNonce(c) ==
    /\ At(c, "establish") /\ ~OnContent(request[c])
    /\ nonces' = [nonces EXCEPT ![KeyOf(request[c])] = c]
    /\ Allow(c)
    /\ UNCHANGED <<tableau, approvals, request, proof, toRemove, sent, history>>

\* A call to Tableau that fails inside the guard ends the call.
Throw(c) ==
    /\ \/ pc[c] \in {"admin", "tag", "check"}
       \/ At(c, "establish") /\ OnContent(request[c])
    /\ Goto(c, "threw")
    /\ UNCHANGED <<tableau, caches, request, proof, toRemove, audit, sent, history>>

-----------------------------------------------------------------------------
\* After the guard.

\* Mutant: the key does not say whose preview it was.
ApproveForAnyone(c) ==
    /\ At(c, "present")
    /\ approvals' = [key \in Keys |->
         IF <<key[2], key[3], key[4]>> = Tail(KeyOf(request[c])) THEN c ELSE approvals[key]]
    /\ Goto(c, "done")
    /\ UNCHANGED <<tableau, nonces, request, proof, toRemove, audit, sent, history>>

\* The preview of a client that renders the panel.
Approve(c) ==
    /\ At(c, "present")
    /\ approvals' = [approvals EXCEPT ![KeyOf(request[c])] = c]
    /\ Goto(c, "done")
    /\ UNCHANGED <<tableau, nonces, request, proof, toRemove, audit, sent, history>>

\* Mutant: the guard also records that a confirm is allowed.
SendRecorded(c) ==
    /\ At(c, "act")
    /\ sent' = sent \union {c}
    /\ Record(c, "allowed")
    /\ Goto(c, "waiting")
    /\ UNCHANGED <<tableau, caches, request, proof, toRemove, history>>

Send(c) ==
    /\ At(c, "act")
    /\ sent' = sent \union {c}
    /\ Goto(c, "waiting")
    /\ UNCHANGED <<tableau, caches, request, proof, toRemove, audit, history>>

\* Tableau carries out the mutation, whether or not the call still waits for it.
Execute(c) ==
    LET target == request[c].target IN
    /\ c \in sent /\ target \in exists
    /\ sent' = sent \ {c}
    /\ applied' = applied \union {c}
    /\ exists' = IF PreviewTool(request[c].tool) = "delete-content" THEN exists \ {target} ELSE exists
    /\ UNCHANGED <<day, admins, tags, lastAccess, caches, callVars, unanswered, kept, retagged, shown>>

Complete(c) ==
    /\ At(c, "waiting") /\ c \in applied
    /\ Finish(c, "completed")
    /\ UNCHANGED <<tableau, caches, request, proof, toRemove, sent, history>>

\* Tableau refuses the mutation, or the call stops waiting for its answer: the catch around
\* the request cannot tell which.
Fail(c) ==
    /\ At(c, "waiting")
    /\ \/ c \in sent /\ sent' = sent \ {c} /\ UNCHANGED unanswered
       \/ unanswered' = unanswered \union {c} /\ UNCHANGED sent
    /\ Finish(c, "failed")
    /\ UNCHANGED <<tableau, caches, request, proof, toRemove, applied, kept, retagged, shown>>

RemoveTag(c) ==
    LET target == request[c].target IN
    /\ At(c, "untag") /\ target \in exists
    /\ \E batch \in toRemove[c] :
        /\ tags' = [tags EXCEPT ![target] = @ \ {batch}]
        /\ toRemove' = [toRemove EXCEPT ![c] = @ \ {batch}]
    /\ UNCHANGED <<day, admins, exists, lastAccess, caches, request, pc, proof, audit, sent, history>>

\* The request fails, before or after it took effect.
RemoveTagFails(c) ==
    LET target == request[c].target IN
    /\ At(c, "untag")
    /\ \E batch \in toRemove[c] :
        tags' \in {tags, [tags EXCEPT ![target] = @ \ {batch}]}
    /\ Finish(c, "failed")
    /\ UNCHANGED <<day, admins, exists, lastAccess, caches, request, proof, toRemove, sent, history>>

TagsRemoved(c) ==
    LET target == request[c].target IN
    /\ At(c, "untag") /\ toRemove[c] = {}
    /\ Finish(c, "completed")
    /\ kept' = [kept EXCEPT ![target] = @ \union (Named(request[c]) \ retagged[c])]
    /\ UNCHANGED <<tableau, caches, request, proof, toRemove, sent, applied, unanswered, retagged, shown>>

-----------------------------------------------------------------------------
\* Around the server.

NextDay ==
    /\ day < MaxDay
    /\ day' = day + 1
    /\ UNCHANGED <<admins, exists, tags, lastAccess, caches, callVars, sent, history>>

Demote(user) ==
    /\ user \in admins
    /\ admins' = admins \ {user}
    /\ UNCHANGED <<day, exists, tags, lastAccess, caches, callVars, sent, history>>

\* Admin Insights shows a use of the content, now or some time later.
ShowUse(i) ==
    /\ \E d \in FirstDay..day : d > lastAccess[i] /\ lastAccess' = [lastAccess EXCEPT ![i] = d]
    /\ UNCHANGED <<day, admins, exists, tags, caches, callVars, sent, history>>

\* MUTATION_PREVIEW_TTL_MINUTES after the preview.
Expire(key) ==
    /\ \/ /\ approvals[key] # None
          /\ approvals' = [approvals EXCEPT ![key] = None]
          /\ UNCHANGED nonces
       \/ /\ nonces[key] # None
          /\ nonces' = [nonces EXCEPT ![key] = None]
          /\ UNCHANGED approvals
    /\ UNCHANGED <<tableau, callVars, sent, history>>

\* The caches are in memory; the calls under way are gone, their requests are not.
Restart ==
    /\ approvals' = [k \in Keys |-> None]
    /\ nonces' = [k \in Keys |-> None]
    /\ pc' = [c \in Calls |-> IF pc[c] \in Ended \union {"idle"} THEN pc[c] ELSE "lost"]
    /\ UNCHANGED <<tableau, request, proof, toRemove, audit, sent, history>>

Call(c) ==
    \/ DeleteContent(c) \/ DeleteTask(c) \/ UpdateTask(c)
    \/ ConfirmDeleteContent(c) \/ ConfirmUpdateTask(c) \/ RemovePendingTags(c)
    \/ Refuse(c) \/ ReadMarkers(c) \/ Lookup(c)
    \/ AssertAdmin(c) \/ VerifyTag(c) \/ VerifyNonce(c) \/ VerifyApproval(c)
    \/ Precondition(c) \/ EstablishTag(c) \/ EstablishNonce(c) \/ Throw(c)
    \/ Approve(c) \/ Send(c) \/ Execute(c) \/ Complete(c) \/ Fail(c)
    \/ RemoveTag(c) \/ RemoveTagFails(c) \/ TagsRemoved(c)

Environment ==
    \/ NextDay
    \/ \E user \in Users : Demote(user)
    \/ \E i \in Contents : ShowUse(i)
    \/ \E key \in Keys : Expire(key)
    \/ Restart

Next == (\E c \in Calls : Call(c)) \/ Environment

Spec == Init /\ [][Next]_vars

-----------------------------------------------------------------------------
Results == {"allowed", "denied", "completed", "failed"}

\* Types; and an approval or a nonce is kept under the key of the preview that gave it.
TypeOK ==
    /\ day \in Days
    /\ admins \subseteq Users
    /\ exists \subseteq Targets
    /\ tags \in [Contents -> SUBSET Batches]
    /\ lastAccess \in [Contents -> 0..MaxDay]
    /\ approvals \in [Keys -> Calls \union {None}]
    /\ nonces \in [Keys -> Calls \union {None}]
    /\ request \in [Calls -> Requests \union {None}]
    /\ pc \in [Calls -> Steps]
    /\ proof \in [Calls -> Calls \union {None}]
    /\ toRemove \in [Calls -> SUBSET Batches]
    /\ audit \in [Calls -> Seq(Results)]
    /\ sent \subseteq Calls
    /\ applied \subseteq Calls
    /\ unanswered \subseteq Calls
    /\ kept \in [Contents -> SUBSET Batches]
    /\ retagged \in [Calls -> SUBSET Batches]
    /\ shown \in [Calls -> 0..MaxDay]
    /\ \A key \in Keys : \A p \in {approvals[key], nonces[key]} \ {None} :
        request[p] \in Requests /\ KeyOf(request[p]) = key

\* The mutations Tableau has been asked for.
Asked(c) == c \in sent \union applied /\ Mutates(request[c])

\* One preview lets at most one mutation through, however many calls race for its nonce or
\* approval and whatever is previewed again meanwhile.  (RegistryEvidence.verify,
\* AppApprovalEvidence.verify: get and delete.)
ProofSpentOnce ==
    \A c, d \in Calls : proof[c] # None /\ proof[c] = proof[d] => c = d

\* A mutation that needs a nonce or an approval is one that its user previewed: the same target
\* and the same schedule, in a preview the guard allowed.  (EvidenceContext.binding.)
ConfirmedAsPreviewed ==
    \A c \in Calls :
        Asked(c) /\ (UsesNonce(request[c]) \/ UsesApproval(request[c])) =>
            /\ proof[c] # None
            /\ LET p == request[proof[c]] IN
                /\ p.phase = "preview"
                /\ p.user = request[c].user
                /\ p.target = request[c].target
                /\ p.schedule = request[c].schedule
                /\ audit[proof[c]] = <<"allowed">>

\* Content is deleted only in the batch of a preview that marked it on the day the batch is
\* named after, no longer ago than a batch lives.  (TagEvidence, checkCleanupBatchAge.)
AssessedInItsBatch ==
    \A c \in Calls : Asked(c) /\ OnContent(request[c]) =>
        \E p \in applied :
            /\ request[p].phase = "preview"
            /\ request[p].target = request[c].target
            /\ request[p].batch = request[c].batch
            /\ request[p].begun = request[c].batch
            /\ request[c].begun - request[p].begun <= MaxAgeDays

\* A use that Admin Insights showed when the confirm began, on the day of the batch or later,
\* keeps the content.  (checkContentStillStale on the confirm.)
UnusedSinceBatch ==
    \A c \in Calls : Asked(c) /\ OnContent(request[c]) => shown[c] < request[c].batch

\* Once markers are removed from content, none of them is on it until a preview begun or under
\* way puts it back.  (removeMarkersFromItem reads the live tags.)
KeptUnmarked ==
    \A i \in Contents \intersect exists : kept[i] \intersect tags[i] = {}

\* No call is audited twice, what is recorded as completed was done and what is recorded as
\* denied was not asked for; a record of failure means that the target is unchanged and stays
\* so, unless the call stopped waiting for Tableau's answer; a mutation that was done and whose
\* call ran to its end is recorded as completed or failed.  (recordOutcome as the only record of
\* a confirm.)
AuditAgrees ==
    \A c \in Calls :
        /\ Len(audit[c]) <= 1
        /\ audit[c] = <<"completed">> /\ Mutates(request[c]) => c \in applied
        /\ audit[c] = <<"denied">> => c \notin sent \union applied
        /\ audit[c] = <<"failed">> => c \notin sent \union applied \/ c \in unanswered
        /\ Asked(c) /\ c \in applied /\ pc[c] \in {"done", "threw"} =>
            audit[c] \in {<<"completed">>, <<"failed">>}

\* A mutation recorded as failed was not carried out, as auditRecord.ts:69-70 has it: "the
\* confirmed mutation was authorized but its REST call failed; the target is unchanged".
\* (The catch around the request records a timeout like a refusal.)
FailedIsUnchanged ==
    \A c \in Calls : audit[c] = <<"failed">> => c \notin applied
=============================================================================
