# tableau-mcp: TLA+ models, model checking and proofs

`tableau-mcp` is one repository with two MCP servers that share a base:

* the **desktop server** drives a running Tableau Desktop through its External
  Client API, for an agent that reads and edits the open workbook;
* the **web server** serves Tableau Server and Tableau Cloud tools over stdio or
  HTTP, with an embedded OAuth authorization server.

Paths below are relative to `src/src/` of the repository unless they start with
`src/`.  This directory models the parts whose correctness depends on the order
of steps of several actors; `PROJECT.json` maps every definition to the lines it
stands for, and lists components, runs, mutants, hazards, findings and theorems.

## 1. Inventory

### Desktop server

| Component | State it keeps | Operations | What makes it correct |
|---|---|---|---|
| External API executor and HTTP client (`desktop/externalApi/`) | the cached `ExternalApiHttp` of a session, per call a rescan count and a poll deadline | start, apply a document, read, rescan discovery after a 401, poll a 202 to its end | a mutating command runs at most once; a pinned command runs in its instance or nowhere; the outcome says no more than Desktop did; every call returns |
| Document applies and the apply lock (`desktop/wrappers/`) | the module-level promise chain `tail` | read, splice, compare with the source hash, post, read back | applies do not overwrite each other's changes unseen; the outcome is what happened; the chain never stops |
| Session manager and instance resolution (`desktop/session/`) | executors by session id | get or build an executor, resolve the session of a call | one executor per session; a call reaches the instance it named |
| Tool call deadline (`desktop/callDeadline.ts`, `tools/desktop/tool.ts`) | per call a timer and an abort controller | race the tool body with a deadline | an answer is given once; work after the deadline is reported as unknown |
| Edit buffers, cached worksheets, fingerprints (`tools/desktop/authoring/fields/`, `desktop/wrappers/cacheFingerprint.ts`) | on disk: files, their sidecars, pointers from a sheet to its open file | add and remove a field, read, apply, check a sidecar | edits made one after the other accumulate; a document is accepted only for the instance and hash it was read from |
| Workbook read gateway (`desktop/wrappers/workbookReadGateway.ts`) | none | read a list, then one sheet's or dashboard's document; fall back to the whole workbook document when the route is missing | the name and the document handed out belong to one sheet |
| Dashboard batch, staged worksheets (`tools/desktop/authoring/sheets/`, `desktop/templates/templateArtifactStore.ts`) | artifacts, their leases and tombstones; per batch what became of the dashboard it replaces | build an artifact, run a batch, apply one artifact | a receipt says what was done and may still be; an artifact is sent once; nothing known to the last check is undone |
| Chart binding and its recovery (`tools/desktop/authoring/binder/bindTemplate.ts`, `desktop/route/route-state.ts`) | per session and ask a record of what was tried; the sheets that were applied | admit, read, bind, apply, verify, record | what an answer asks for is let through, one correction and no more; an outcome is filed under its call; a chart is not built twice |
| Data source authoring, episode events | none that a later call decides by | a sequence of applies; a log | an apply goes through the lock and the drift checks above |
| Document guards, templates, binder, refinement | memo tables | pure functions of XML text | out of scope: their subject is text |

### Web server

| Component | State it keeps | Operations | What makes it correct |
|---|---|---|---|
| Session store and expiring map (`sessionStore/`, `utils/expiringMap.ts`) | entries, an expiry timer each, a refresh timer for long lives | set, get, delete, consume, evict, expire | an entry is held for its time to live, not shorter, not for ever, and never comes back |
| Embedded authorization server (`server/oauth/`) | pending authorizations, codes, refresh tokens, the index by Tableau session | authorize, callback, token, revoke | a code and a refresh token are used once; a revoked grant is not continued; a live token can be found to be revoked |
| MCP sessions over HTTP (`sessions.ts`, `server/express.ts`) | transports by session id | initialize, serve, close | a session serves only who made it |
| Start and shutdown (`server/webRuntime.ts`, `sessionStore/init.ts`) | process-wide singletons | start in order, fail closed, shut down within a limit | the store is closed last and once |
| Deletion and schedule change with confirmation (`tools/web/_lib/`, `tools/web/extractRefreshTasks/`) | approvals and nonces with a time to live; markers on the content | preview, mark, approve, confirm, remove markers | nothing is changed that was not previewed by its user; a preview is good for one change; used content is kept; the audit trail agrees |
| Admin gate, resource access checker | the checker's remembered decisions (the admin gate keeps none) | ask Tableau; the checker remembers the answer | a decision is not used past what it was made from |
| REST client, retry, pagination | credentials per call | sign in, retry, page | a page is neither lost nor read twice |
| Activity log and file logger | a chain of appends per file | append, prune | lines are whole and in order |
| Access token validation; configuration, features, telemetry; the REST tools; prompts and pages | none, or read once at start | — | out of scope: stateless or constant |

### How they interact

A desktop tool call resolves a session, takes the session's executor from the
session manager, and runs under a deadline.  A mutating tool prepares a document
(perhaps from the cache, whose sidecar says what it was read from), enters the
apply lock, and calls the executor, which may rescan discovery and poll.  All
calls of a session share one executor, and its client can be replaced by any of
them at any await.  Desktop and its user act on their own.  Above these sit tools that
take several calls for one purpose (edit, then apply; build, then batch; bind, then
correct) and keep between the calls what the next one decides by: on disk, in the
artifact store, or in the session's records.  An agent may overlap such calls.

A web request passes the middleware, is bound to an MCP session and runs a tool
that makes REST calls.  The OAuth endpoints share four namespaces of one session
store; each handler awaits the store, Tableau, or cryptography between its steps,
so handlers interleave at every await.  A tool that deletes content or changes a
schedule is called twice, for a preview and a confirm, with other clients, Tableau's
users and perhaps a restart in between; what links the two calls is a marker on the
content, a nonce or an approval in memory.

### What is hard here

Interleaving at awaits over shared state (the cached client, the promise chain,
the OAuth stores), calls that give up while their effect is still possible
(timeouts, aborts, lost polls), documents read before and written after somebody
else's change, memory of earlier calls that is stale when a later one uses it, timers that fire late and in either order, and failures between
two writes that belong together.  `PROJECT.json` lists each such place as a hazard
with the properties that cover it, or the reason why none does.

## 2. Modules

| Module | Models | Builds on |
|---|---|---|
| `DesktopCommand` | the promise of a mutating command: at most one effect, a justified report | — |
| `ExternalApiExecutor` | executor, HTTP client and Desktop's side of the API | implements `DesktopCommand` |
| `ExternalApiExecutorProofs` | theorems about it and about `PerSheetApply` | `PerSheetApply`, `TLAPS` |
| `DesktopApply` | the apply lock, four ways to write, drift checks, read back | the executor abstracted to its promise |
| `DesktopApplyProofs` | theorems about it | `DesktopApply`, `TLAPS` |
| `PerSheetApply` | one per-sheet apply: list, pin, post | composed with `ExternalApiExecutor` |
| `SessionStore` | what `sessionStore.ts` promises | — |
| `InMemorySessionStore` | the expiring map and the chunked timers | implements `SessionStore` |
| `InMemorySessionStoreProofs` | theorems about it | `InMemorySessionStore`, `TLAPS` |
| `OAuthGrants` | authorize, callback, token, revoke over four stores | stores as `SessionStore` promises them |
| `OAuthGrantsProofs` | theorems about it | `OAuthGrants`, `TLAPS` |
| `MutationGuard` | preview, evidence, confirm and audit of deletions and schedule changes; marker removal | — |
| `MutationGuardProofs` | theorems about it | `MutationGuard`, `TLAPS` |
| `EditBuffer` | edits, reads and applies of worksheets through files, sidecars and pointers | the lock of `DesktopApply`, which answers nobody in order |
| `EditBufferProofs` | theorems about it | `EditBuffer`, `TLAPS` |
| `DashboardBatch` | the artifact store, run-dashboard-batch, apply-worksheet with an artifact | the same |
| `DashboardBatchProofs` | theorems about it | `DashboardBatch`, `TLAPS` |
| `BindRecovery` | bind-template and the records that admit, correct and end a bind | — |
| `BindRecoveryProofs` | theorems about it | `BindRecovery`, `TLAPS` |
| `MC...` | constants and constraints for TLC, nothing else | the module in their name |

### ExternalApiExecutor

State: `desktop` is the record (token epoch, instance) Desktop accepts now, `file`
the one discovery reads, `http` the executor's cached client.  `handle[c]` is the
client object call `c` captured: the code passes the object to its callback, so a
rescan by another call does not change it.  `wire[c]` is the one request or reply in
transit, `op[c]` the operation in Desktop, `runs[c]` counts how often Desktop started
it.

Actions follow the awaits.  `Start` and `Resolve` are `ensureHttp` and `resolveHttp`;
`Dispatch` is the pin check of `applyDocument` and the fetch; `HandleReply` is
`request` with `withRescan`'s reaction to a 401; `Poll` is one turn of
`pollOperation`; `RequestTimeout`, `Abort`, `DeadlinePasses` and `PollTimeout` are the
ways to stop waiting.  A request that timed out stays on the wire, so Desktop may
still admit it.  Desktop's actions (`Stop`, `Serve`, `Publish`, `Reject`, `Refuse`,
`Admit`, `Finish`) are external: they allow what the client's error handling
expects.  A GET that finds an operation still running changes nothing, and is a
stutter.

An operation ends `SUCCEEDED` or `FAILED`; the latter stands for `CANCELLED` as well.  An envelope
that carries an `error` is failed whatever its state says (`op[c].error`, `EnvelopeOutcome`), in
the answer to the command and in that to a poll alike.

### DesktopApply

`doc` gives each sheet the version of its last writer.  `tail` is the promise chain,
its head the only call inside the lock.  `Cache` reads the document the caller will
edit (outside the lock); `Submit` appends to the chain; `Read` is the fetch under the
lock with the comparison of `Drifted`; `Post` sends; `Ended`, `GiveUp` and `ReadBack`
end the call, and `Leave` releases the chain.  `Land` replaces the posted scope with
what was posted, whatever the document holds by then, which is what makes a
lost update possible.  The source hash is optional in the code: the applies whose caller
passes one are `Hashed`, and a cached document without one is posted whatever is there by
now (`Blind`), a whole workbook even without a read.  `loose`, `writer` and `clobbered` are history variables: who
left the lock with a POST in flight, who wrote what a sheet holds, and who
overwrote what without having seen it.

`PerSheetApply` puts one apply on top of the full executor, to see which instance
the two requests of an apply reach while a third call makes the executor rescan.

### SessionStore and InMemorySessionStore

`SessionStore` is the interface's documentation as a specification with a clock.
`InMemorySessionStore` has the map with its insertion order, an expiry timer per
entry and a refresh timer for each life longer than one timer can be; timers fire
when due or up to `Lag` later, in either order.  `held` is refined by `map`.

### OAuthGrants

A handler is a process that runs from await to await (`pc`).  What a handler makes
(state, code, refresh token, Tableau session) is named after it, as every handler
makes at most one of each and they are random in the code.  `data[h]` is what is
stored with the key made by `h`; `local` and `fresh` are what the handler holds across
awaits.  A call to a store may fail before or after it took effect (`Fail`,
`Finish`), entries lapse at any time (`Lapse`), and clients send only what they were
given (`Known`).  `revoked` and `dropped` are history variables.

### MutationGuard

A call is a process that runs from await to await (`pc`).  `Begin` and the actions that
use it are the tools' schemas and early returns; `AssertAdmin`, `VerifyTag`,
`VerifyNonce`, `VerifyApproval`, `Precondition`, `EstablishTag` and `EstablishNonce` are
the awaits of `guardMutation` in their order; `Approve`, `Send`, `Complete` and `Fail` are
what the tool does with its outcome.  `AllEvidence` (marker and approval) is `VerifyTag`
followed by `VerifyApproval`, because the array order is the order of the checks.
`nonces` and `approvals` are the two caches, which `Expire` and `Restart` empty.  A nonce is
named after the preview that minted it, and a client can send only a nonce that was
shown to it (`Tokens`); an approval is `true` in the code and here the preview that gave it,
so that a confirm can be related to its preview.  No guard reads that name.

Tableau's side is external: `exists`, `tags` and `lastAccess` are what it and Admin
Insights show, and `sent` holds the mutations it may still carry out (`Execute`),
whether or not the call still waits.  `audit[c]` is the list of records of a call.
`applied`, `unanswered`, `kept`, `retagged` and `shown` are history variables: what was carried
out, which calls stopped waiting for Tableau's answer (`Fail` records them like those Tableau
refused), which markers a removal has reported gone, which were put back meanwhile, and which
use was known when a confirm began.

One site is modelled; workbooks and data sources take the same path.  The lookups
whose answer is only shown (owner, project) are left out, except that a call in which
one fails ends without a record (`Throw`).

### EditBuffer

`text`, `sidecar` and `pointer` are the three kinds of files, keyed by the call that
made a file, or by the sheet; they outlive the server (`ServerDies` ends the calls and
leaves them).  `BeginEdit`, `Resolve`, `Fetch` and `Edit` are `resolveWorksheetEditFile` and the
handler around it, await by await; an edit that was given no `workbookFile` waits in
between (`ReadFirst`, `WriteAfter`), which is where `add-field` holds a text across an await.
`WriteRead` writes the document and then its sidecar, whose write may fail; `Point` sets or
removes a pointer, which may fail silently.  `Read` and `Close` close a buffer.
`Prepare` is the check in the lock: the hash, if the sidecar gave one, and the name.
Desktop's side is external: `Land`, the user's changes and renamings, a new instance
(`Restart`), and a discovery file that is there or not (`Relist`).
A pointer that cannot be read or parsed is none, and a fresh buffer is opened (`Sticky`).

Three history variables say what an answer "done" is worth.  `answered[f]` has the edits answered as
done in file `f`; the answer names the file, and nothing that fails or happens later may take the
edit out of it.  The one exception is an edit whose text another call had read before and
writes back after its await; it is not in `answered` (`AboutToWrite`).  `due[s]` has the edits that the
next call by name must find as well; it is emptied when calls overlap, because the code
promises nothing then (see section 4).  `astray` has the sheets whose buffer may not be found
although nothing overlapped: the pointer was not written or not read, or the file could not be
checked against an instance.

### DashboardBatch

`fate`, `recent`, `lease` and `built` are the artifact store with its tombstones, its order of use
and the state of the target when an artifact was built.  A batch goes `Begin` (lease all
or none), `ReadWorkbook` (first drift check), then, when it replaces a dashboard, `GuardDelete`,
`SendDelete`, `DeleteReported`, `Confirmed` (re-read and rebuild, with the second check `AsRead`),
and `GuardApply`, `SendApply`, `BatchReported`, `Verify`.  Each `...Fails` and `...NotSent` is the early return
at that place, with the receipt it gives (`Refuse`, `Fail`, `Fatal`).  `Answer` releases the leases
that are left, whichever way a call ends.  `CarryOutDelete`, `CarryOutApply` and
`CarryOutNothing` are Desktop's, and may come after the call has answered.  `spent`, `deleted`,
`written`, `raced` and `undone` are history variables.

### BindRecovery

`recovery.of[a]` is the record of ask `a`, `recovery.order` the order of the map; `sheets` is the
memory of applied charts, with the same kind of cap.  `Start` is everything a call does before
its first await: `recoveryGateBlock` and the correction invariant decide between `Violate`,
`Block`, `Admit` and `Mismatch`.  A call that names a data source passes the gate, awaits the
read, and is reserved after it (`ReadPasses`), so the gate is asked twice.  `Bind` is the
binder, whose answer is any it can give; `Propose`, `Escalate`, `NotApplied`, `Apply`, `Reuse` are what
follows from it; `Post`, `Applied`, `NotSent`, `SentFailed`, `SessionLost` the ends of an apply.  Each of
them records what `recordBindRecoveryAttempt` and its neighbours record.  History variables:
`offer` is what the last answer on an ask invites, `raced` the asks on which calls overlapped
since their record was new, `crowded` the calls beside which another ran or the user
changed the workbook, `finished` the charts that were built.

## 3. Runs

| Run | Instance | Shows |
|---|---|---|
| `executor_safety` | an apply and a read, two epochs | types; at most once; pins; truthful and "unsent" outcomes; every step is a step of `DesktopCommand` or a stutter |
| `apply_routes` | an artifact, a workbook and a sheet apply, two sheets, one user edit, `FairSpec` | types; no unseen overwrite under the lock; outcomes hold; every apply that waits for the lock returns |
| `apply_serialized` | two upserts on two sheets | **violated**: `NoApplyClobbered`, see findings |
| `persheet_named` | list, post, and another tool's read; caller names the instance, `ApplyFairSpec` | target and document stay in the named instance; every call that started returns |
| `store` | three keys for two places, two values, a life of two chunks and a rest | timers agree with entries; lapses in time; the promise, eviction included |
| `grants` | one sign-in, its code sent twice, two refreshes, a revocation by refresh token and one by access token | stored data is whole; no fork; no revival; live tokens are indexed |
| `guard_content` | a preview of one workbook, a confirm of it or a removal of its markers, three days, use, demotion, restart | assessed in its batch; unused since; unmarked stays unmarked; audit agrees |
| `guard_failed` | a preview and a confirm of one workbook | **violated**: `FailedIsUnchanged`, see findings |
| `guard_task` | a preview, a confirm and one more call, two users, two schedules, one task | types; one change per preview; confirmed as previewed |
| `bind_recovery` | a bare call, two proposals (the first with a data source) and one more call, two asks, room for one record and one sheet | records well-formed; one correction; an invitation stands; outcomes are filed under their call; no twin chart; an open recovery is not evicted |
| `dashboard_batch` | two batches that replace one dashboard and share an artifact, a single artifact for the same sheet, room for two of three artifacts | leases and tombstones; a safe retry is safe; the old dashboard is told of; an artifact is sent once; only races undo |
| `edit_buffer` | an edit that waits, one that does not, a read, an apply, two sheets, two instances | pointers, files and lock; an answered edit stays in its file and is found by name; only races undo |

### Bounds, and why they are enough

* `MaxEpoch = 2`: a call rescans once, so it meets at most two
  clients before it gives up; two epochs let the first be refused and the second
  be the same instance or another one.
* One apply with one read: calls interact only through `http`, which either kind
  replaces; the theorems cover any number of either.
  `persheet_named` has three calls because the composition needs a list, a post and a
  disturber.  `persheet_named` bounds the disturber with the constraint
  `OtherOnlyDisturbs`: its request is refused or lost, perhaps after a rescan, and
  never runs.  What an answer would add is the same rescan once more, from its poll.  The constraint
  cuts only steps of Desktop, to which fairness owes nothing, so it hides no call that waits
  for ever.
* Three applies with each drift check among them, two sheets and one user edit:
  an unseen overwrite needs one writer and one other change, on the same sheet or
  on another sheet of the same posted workbook.  Artifact applies stand in for
  upserts in `apply_routes` (the same read and write with one check more), and
  upserts are in `apply_serialized`.  Both cached applies have a source hash in the run
  (`Hashing`), which is the case the property is about; the theorems hold for any `Hashed`.
* `Ttl = 8` with `Chunk = 3`: two refreshes and a rest shorter than a chunk; a third key
  evicts another while both of its timers are armed.  Keys and values are alike
  (`Symmetry`; the promise has no liveness part).  `MaxTime` exceeds a whole life with
  all its lateness.
* `grants`: each request kind once, and the ones that race (code, refresh) twice.
  A fork needs two redemptions of one key, a lost entry a rotation and one other call.
* `guard_*`: a mutation rests on one preview, so a preview and a confirm show what a
  confirm accepts, and a preview and a removal what a removal leaves; in `guard_task` a
  third call of any kind (`x1`) is the second confirm or preview that races them.  The
  constraint `InRole` fixes what the first two are for; `Steady` leaves demotion and
  restart to `guard_content`.  Each call has its arguments chosen freely, so the two
  users and two schedules of `guard_task` are swapped in every way; they are otherwise
  alike (`Symmetry`).  Three days let a batch that lives one day begin, be used on its
  last, and expire.
* `bind_recovery`: a recovery is a bare call, a proposal and a correction, and the fourth
  call disturbs it, on the same ask or on another one (`MaxAsks = MaxSheets = 1` makes that one
  compete for room).  `TwoAtOnce`: two calls are under way at a time, which is what it takes
  for a stale read; the third can come while neither of them is done.  `MaxProposals = 8` is
  the code's own number; the proofs need it to be at least 2.  Of the three
  signatures the first two are alike (`Alike`), and the third is what only the fourth call sends.
  The user makes one change, beside the first three calls (`EditOrFourth`), which are enough to
  remember a sheet, to lose it and to build it again.  A call on the other ask comes beside a bare
  call and one proposal, without the one that reads a data source (`OtherAskApart`): it can take the
  place of a record that is terminal, and must not take one that is open, between any two steps of these.
* `dashboard_batch`: two batches and a single are the three ways a sheet or a dashboard can be
  contested: by a leased artifact, by another artifact for the same sheet, and by the
  dashboard itself.  `Capacity = 2` below three artifacts makes a build evict.  One user edit
  falls anywhere between two checks.
* `edit_buffer` (`Bounded`): three of the four calls are made and at most two things happen beside
  them, four in all, two calls overlapping; a lost edit or a wrong hash takes a file, a
  change, and a call that uses the file.  An answered edit is lost, if at all, to an edit of the
  same file and a third call or event.  Names and sheets are alike (`Symmetry`).

The theorems below remove these bounds for the properties they name, except
`MaxEpoch`, `MaxEdits` and `MaxTime`, for which they hold with any value.

`CHECK_DEADLOCK FALSE` is used only for `grants`, `guard_*`, `bind_recovery`, `dashboard_batch` and
`edit_buffer`: handlers serve one request and tool calls run once; when all have answered and
Desktop has carried out what was sent, nothing is left to do.  The
other modules say when they are finished with an explicit stuttering disjunct, or
(the store) can always accept another `set`.

### Fairness

`ApplyFairSpec` of `PerSheetApply`: weak fairness of each call's continuations and timers
(`Progress`) and of the clock reaching the poll deadline.  Node runs a settled
promise's continuation and a due timer; Desktop and the caller owe nothing, so no
reply and no abort is assumed.  `RequestTimeout` is in `Progress` because
`composeWithTimeout` arms a timer for every request.

`FairSpec` of `DesktopApply`: weak fairness of `Progress`, which includes `GiveUp`: the
executor returns in any case, which is `EveryCallSettles`.  Desktop's `Land` and `Fail`
are not fair.

## 4. Findings

* `apply_serialized` — `desktop/wrappers/applyMutex.ts:2-4` says that serialising every
  apply through one chain lets "each read-modify-write" run "to completion".  The
  chain orders calls, not writes.  A call whose poll timed out or was aborted, or whose
  Desktop has not shown the change yet, returns and releases the chain with its POST
  still in flight; the next upsert reads the old workbook, and one of the two undoes
  the other.  `ClobberNeedsLooseApply` shows (and `ClobberOnlyWhenLoose` proves) that this
  is the only way.

* `guard_failed` — `tools/web/_lib/auditRecord.ts:69-70` says that `failed` means "the target is
  unchanged".  `deleteContent.ts:521-523` and `updateCloudExtractRefreshTask.ts:307-310` record
  it for whatever error the request ends with, a timeout or a lost answer included, so that
  what was recorded as failed may be done by then or later; `removePendingDeletionTags.ts:172-176` records
  it also after some of several markers were removed.  `AuditAgrees` says what is left: the target is
  unchanged, and stays so, unless the call stopped waiting for Tableau's answer (`unanswered`).

Other things the code does, met while modelling it, which the models let happen and whose
properties are stated so as to allow them:

* `desktop/wrappers/perSheetDocumentApply.ts:97-99` pins "the instance that resolved the
  target", but reads its id from the shared executor after the list's await, so that after
  a rescan by another call it is the replacement's.  A caller that names an instance is not
  affected (`NamedInstanceServesBoth`); `applyRoundedStackedBar.ts` names none.
* `tools/web/_lib/auditRecord.ts:61` speaks of exactly one record for each preview and confirm.
  `guardMutation` catches nothing around its calls to Tableau, so that one that throws leaves
  no record (`Throw`), of a preview perhaps after the content was marked.  `AuditAgrees` is
  about the records there are.
* `worksheetEditBuffer.ts:2-5` says calls by name accumulate in one buffer.  They do as long as
  the pointer between them is written and read and no calls overlap:
  * A pointer that could not be written is only logged, one that cannot be read counts as none
    (`worksheetEditBuffer.ts:83-99`, `149-158`).  The edit is answered as done and is in the file
    its answer names (`KeptInItsFile`), but the next call by name opens a new file without it
    (`astray` in `FoundByName`).  The same holds when no instance was listed and a later one
    cannot vouch for the file.
  * Two first calls that overlap each mint a file; each keeps its own edit.
  * `add-field` without `workbookFile` writes back a text it read before an await: an edit of the same file
    that is answered meanwhile is lost.  This is the only way an answered edit leaves its file.
  * A sheet renamed while a call is under way, between resolving its name and reading it, can make the
    buffer of one sheet hold another; like everything beside a call it cancels what is due.
* A bind outcome without a reservation id is filed under the last reservation with the same
  signature (`route-state.ts:599-642`), also when that belongs to a call still under way;
  `OutcomeIsOwn` states the exception.  A call on its way when its record became terminal
  opens it again.
  So, when calls on an ask overlap, the outcome of one can set the recovery back to a phase that
  another had used up: a third proposal is then admitted, or an invitation answered by a refusal
  (`raced` in `OneCorrection` and `OfferStands`), and the count of bare calls in a row can pass
  its limit of two.
* `OfferStands` counts the invitations to call again with a proposal or a correction.  The refusal
  `awaiting_proposal`, which repeats an earlier invitation, and the answers of an apply that was never
  sent, which say that the same call may be repeated, are not counted as offers of their own.
* `rememberedSheetStillPresent` (`bindTemplate.ts:3137`) looks in a workbook read before the binder's
  awaits, so overlapping calls may forget a sheet that is there; `NoTwins` is about calls
  that did not overlap, and about no more charts than a session remembers: one that was
  evicted from that memory can be built again.  The correction invariant of a call with a data source is not asked
  again after its read (`bindTemplate.ts:3480-3493`).
* A revocation by access token that read the index before a rotation answers 200 and leaves
  the successor alive without an index entry: `dropped` in `LiveTokenIsIndexed`.

## 5. Proofs

Every theorem holds for any value of the constants that satisfies the module's
assumptions, and is checked by TLAPS from the definitions TLC checks.

| Module | Theorem | Property |
|---|---|---|
| `ExternalApiExecutorProofs` | `TypeCorrect`, `AtMostOnce`, `PinHonoured`, `TruthfulOutcome`, `UnsentStaysUnsent`, `Implementation`, `NamedInstanceHonoured` | `TypeOK`, `RunsAtMostOnce`, `PinnedNeverRetargeted`, `OutcomeTellsTheTruth`, `UnsentNeverRuns`, `PromiseKept`, `NamedInstanceServesBoth` |
| `DesktopApplyProofs` | `LockHeldByHead`, `ClobberOnlyWhenLoose`, `OutcomesHold` | `TypeOK` (with the lock's invariant), `ClobberNeedsLooseApply`, `OutcomeHolds` |
| `InMemorySessionStoreProofs` | `TypeCorrect`, `Implementation`, `GoneInTime` | `TypeOK`, `KeepsThePromise`, `GoesInTime` |
| `OAuthGrantsProofs` | `TypeCorrect`, `NoFork`, `NoRevival`, `LiveTokensAreFound` | `TypeOK`, `GrantNeverForks`, `RevokedStaysRevoked`, `LiveTokenIsIndexed` |
| `MutationGuardProofs` | `TypeCorrect`, `SpentOnce`, `AsPreviewed`, `DeletedAsAssessed`, `UsedIsKept`, `RemovedAreGone`, `AuditIsTrue` | `TypeOK`, `ProofSpentOnce`, `ConfirmedAsPreviewed`, `AssessedInItsBatch`, `UnusedSinceBatch`, `KeptUnmarked`, `AuditAgrees` |
| `DashboardBatchProofs` | `TypeCorrect`, `ReceiptsAreRight`, `TellsOfOldDashboard`, `SentOnce`, `OnlyRacesUndo` | `TypeOK`, `RetrySafeLeavesNothing`, `OldDashboardIsToldOf`, `ArtifactSentOnce`, `UndoesOnlyInARace` |
| `BindRecoveryProofs` | `TypeCorrect`, `OpenRecoveriesStay`, `OutcomesAreFiled`, `CorrectedOnce`, `OffersStand`, `NoChartTwice` | `TypeOK`, `ActiveKeepsItsPlace`, `OutcomeIsOwn`, `OneCorrection`, `OfferStands`, `NoTwins` |
| `EditBufferProofs` | `TypeCorrect`, `NothingIsLost`, `OnlyRacesUndo` | `TypeOK`, `Accumulates`, `UndoesOnlyInARace` |

**Executor.**  None of the four safety properties is inductive: they say nothing of
a request that is on the wire.  `CallInv` adds, per call, which steps may have a
request in transit and that a mutating call that has one has not run yet; that a
reply that carries an outcome agrees with the operation; and that the request on the
wire satisfied the pin, through `handle[c]`, which is the call's own.  That is why the
replacement of `http` by another call cannot hurt it.  For the refinement each step
is shown to have one of a few effects on what `DesktopCommand` sees, each a step of its.

`NamedInstanceHonoured` is a theorem of the composition.  Instances only succeed one another
(`Lineage`): Desktop's is the newest, discovery and the client lag behind it.  So the list ran
in the instance the caller named or in a later one, and the post, which is pinned to the named
one, runs only while that is still the newest: then both ran in it.  `Reruns` and `SettledStays`
say what a step may do to a call that has run or is settled.

**Applies.**  `LockInv` says that only the head of the chain is past its read and that
no call is in the chain twice; `SentInv` that a POST in flight or landed belongs to a
call that sent it.  The clobber theorem needs in addition that, as long as no loose
apply wrote it, what the head has seen is what Desktop holds, up to what the user
edited.  The source-hash comparison re-establishes this when the head reads.

**Session store.**  `TimerInv` says that an entry's expiry timer is not due before the
time to live has passed, or that its refresh timer is due earlier, by more than the
timers can be late, and has the rest.  From it a lapse is a lapse of the promise; a
refresh is a stutter.  `SizeInv` bounds the entries.  The assumption is `Lag < Margin`:
no timer fires later than the code's own margin of a minute.  For the other bound, that an
entry is gone in time, `Timely` follows one life through its chunks: each takes its length off
what is left, and each can be late once, so the lateness allowed is one `Lag` for each chunk
and one for the rest (`Late`).

**Grants.**  `IInv` says of every grant that it has one carrier among its code, its
token and the handlers between two stores, that codes and tokens exist only under keys
of handlers that reached the step that makes them, and that a revoked grant has no
carrier.  Each action has one of five effects on the carriers (`Shrinks`, `Issues`,
`Takes`, `Stores`, `Revokes`), and the chain of carriers is shown to survive each
effect once.  That a live token is found needs whose a session is: `Belongs` gives each
session Tableau handed out one grant for ever, so whoever writes an index entry carries
the grant of every token that relies on the entry, and `OneCarrier` (with `Alone` for a
token that is minted and not yet indexed) says that there is one of them.

**Mutation guard.**  A nonce or approval is in a cache or with one confirm.  `Cached` says
that what a cache holds under a key is a preview the guard has allowed, with that key;
`Taken` that what a confirm holds is such a preview with the confirm's own key, and is no
longer in the cache it came from: the approvals for a client that renders the panel, the
nonces for one that does not, because only the latter is shown its nonce (`Calling`).
`Cleared` says that a mutation that needs a proof has taken one before it is sent.
Every step is first shown to have one of eight shapes (`Shift`), and each part of the
invariant is preserved by each shape.

The properties about markers, use and audit have an invariant of their own (`MInv`), because
they relate a call to Tableau's state and not to the caches.  A marker on the content was put
there by a preview of its batch (`MarksAt`), so a deletion that found its marker rests on such
a preview (`OpenedAt`), however many other calls came between.  What a deletion saw of the
content's use is no more than what is known now, and is older than its batch once the
precondition has passed (`UnusedAt`); what a removal has still to clear are the markers that are
left, except those put on since it read them (`UntagAt`); and a record tells what the call has
sent and what became of it (`AuditAt`).

**Edit buffers.**  Both properties follow one value from file to file.  `Accumulates` has two parts.
That an answered edit stays in its file (`KeptInItsFile`) needs to be known of the one call that
writes a text older than the file, an edit that waits: what it holds has all of `answered`
for that file (`InDrafts`), because an edit answered meanwhile is not added to it.  That it is found by
name (`FoundByName`): a call nothing happened beside is alone (`Alone`), the file it found is vouched
for by its sidecar (`Found`), and what it holds has every edit that is due (`Kept`).  For
`UndoesOnlyInARace`: a text is made from the document its hash is of (`MadeFrom`), in the
cache (`Stamped`), in a call that edits (`Drafted`), in an apply that has compared the hash
(`Checked`), and, until the sheet changes under a POST, in Desktop itself (`Unraced`).

**Dashboard batch.**  `Local` says of each call what its place implies of its last command, its
removal phase and its receipt; every receipt in the code is shown to be a `RightReceipt` at
the place that gives it (`EndingCloses`), so a new way to end a batch would have to be added
there.  The type invariant has the store's order in it: artifacts are taken out of it by the recursive
function `Without`, and since no induction theorem can be cited here (they take an operator),
what it yields is shown from a shortest sequence for which it would yield something else
(`SmallestMember`, `WithoutIs`).  Other parts of it need to know that a batch's document was made
from a workbook the batch had read (`Workbooks`).  `Leases` ties an artifact to the one call that holds or has consumed it.  `Races` says
that, between the check and the write, what the call is about to replace is what it checked,
or the call is in `raced`.

**Bind recovery.**  `ActiveKeepsItsPlace` comes from the shapes of the map: a step leaves the records
of other asks alone, or touches one ask, and `Touch` evicts only what is `Evictable`.  The rest
rests on two invariants.

* `Sound` has the types and who filed what: an attempt is of a call on that ask, at most one for
  each call, and without an outcome as long as its call is under way, unless the outcome of
  a call without a reservation went to it.
* `GateOK` relates the record of each ask to the calls on it.  On every ask the record is
  `Admissible`: one bare call, and a rejection before the second proposal, because a call
  is reserved in the step that passes the gate for the second time.  On an ask that is not
  in `raced` it is also `Straight`, which says what each phase implies about the attempts, and
  `CalmOK`: the call under way finds the record as it left it (`Pending`), and with none
  under way the gate lets through what the last answer invites (`Stands`).

`NoTwins` has an invariant about calls that run alone (`AloneOK`, `FinishedOK`); that finished
charts are still remembered needs room for all of them.

**Assumptions.**  Each module names those on its constants, and TLC evaluates them in every run.
They say that ids of different kinds and the value `None` are distinct, that tables have entries for what they are about,
and that bounds are numbers.  Three say something about the code: `Lag < Margin`
(above), `MaxProposals >= 2` in `BindRecovery` (the code has 8), and that two sheets of
`EditBuffer` can be told apart by name.

**What the attempts showed.**  `OneCorrection`, `OfferStands` and `NoTwins` were first stated for all calls, held in
the instance TLC was given, and could not be proved: no invariant excluded that a call's
outcome sets back a record another call has moved on.  They now name the overlap (`raced`) or the
room they need, the run has a third signature so that a third proposal can differ from the first
two, and section 4 lists what the code does then.  The count of bare calls, thought to be at most two, is any
number for the same reason.

**Only model-checked**: the two liveness properties, that every call that started returns
(`EveryCallSettles`) and that every apply that waits for the lock does (`EveryApplyReturns`), since
fairness and `ENABLED` are out of the prover's reach.  `NoApplyClobbered` and `FailedIsUnchanged` are
false (section 4).
No module uses a recursive operator; what a recursive function computes is proved where a
theorem needs it (`Without`), and nowhere else needed.

## 6. What is left out

* Inside the modelled components: the content of documents and tokens, validation
  (any document may be rejected), headers and client registration, the
  rounded stacked bar's own route, the focus command after a POST, the receipts' texts.
* `EditBuffer`: the artifact and template modes of `apply-worksheet` (the first is in
  `DashboardBatch`), `write-cached-xml`, cached workbooks and dashboards.
* `BindRecovery`: the binder itself, calculated fields, the idempotency key of a trusted caller,
  dashboard sheets.
* `DashboardBatch`: the composed document, actions carried over, artifacts of another session.
* A lookup that changes nothing (`get` of a store) is not an action.
* Remote session stores: only their promise, in `OAuthGrants`.

**Not modelled**, with the reason for each in `PROJECT.json`:

* what is text rather than order: the templates, the document guards, the classification of
  columns and of asks, the refinements of a chart, the verification of rounded bars, the
  authoring of data sources.  Most of the repository's lines are of this kind, and a
  model of states does not tell their documents apart; what they decide is an input
  of the models (accepted or rejected, which binding, which target);
* what keeps nothing between calls: the REST tools, access token validation, prompts, pages;
* what depends on a library for its order: MCP sessions over HTTP (when a session exists is
  decided by the transport), start and shutdown of the web runtime;
* what nothing depends on: logs, telemetry, episode events;
* the session manager (a map filled once), the call deadline (a timer over what is modelled),
  the read gateway (stateless reads with a fall-back route, which change nothing), and the cached decisions of the resource
  access checker, which are inputs of `MutationGuard` (`assertAdmin` caches nothing and is a step of it).

## 7. What could come next

1. Abstract specifications of the tools that take several calls, as `DesktopCommand` and
   `SessionStore` are of their components: of `MutationGuard` (a change is applied at most once for a
   preview shown to its user) and of `DashboardBatch` (a dashboard is replaced as a whole or not at all).
2. The session manager composed with the executor's start: racing first calls, and an
   executor that outlives its Desktop.
3. The call deadline over `DesktopApply`: an answer is given before the work ends.
4. The cached decisions of `resourceAccessChecker.ts` as state of `MutationGuard` rather than inputs.
