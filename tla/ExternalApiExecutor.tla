------------------------ MODULE ExternalApiExecutor ------------------------
(***************************************************************************)
(* ExternalApiToolExecutor and ExternalApiHttp: how a tool call reaches    *)
(* Tableau Desktop over the External Client API.                           *)
(*                                                                         *)
(* One executor is shared by every call of a session.  It keeps one HTTP   *)
(* client bound to the record it last found in the discovery directory.    *)
(* Desktop may stop serving, come back with a new token or as a new        *)
(* instance of the same pid, and the discovery file may lag behind it, so  *)
(* a request can be refused with 401; the executor then rescans discovery  *)
(* once and sends the request again.  A request that was accepted (202) is *)
(* polled until the operation ends, until a person is needed, or until the *)
(* poll deadline.  A request that timed out may still reach Desktop later. *)
(***************************************************************************)
EXTENDS Naturals

CONSTANTS
    Calls,        \* the tool calls that go through this executor
    Mutating,     \* those that POST (applyDocument); the others read
    MaxEpoch      \* bound: how many times Desktop (re)starts serving

ASSUME MutatingAssumption == Mutating \subseteq Calls
ASSUME MaxEpochAssumption == MaxEpoch \in Nat \ {0}

VARIABLES
    desktop,      \* the record Desktop accepts now, NoRecord when it serves nothing
    file,         \* the record discovery finds for the pinned pid
    epoch,        \* how many times Desktop has started serving
    lastInst,     \* the newest instance id
    http,         \* the executor's client, NoRecord for undefined
    pc,           \* pc[c]: where call c is
    handle,       \* handle[c]: the client call c works with
    pin,          \* pin[c]: expectedInstanceId, 0 for undefined
    rescans,      \* rescans[c]: rescanCount
    late,         \* late[c]: the poll deadline has passed
    outcome,      \* outcome[c]: what the executor returned, "" while it has not
    wire,         \* wire[c]: the request or reply of call c in transit
    op,           \* op[c]: the operation Desktop runs for call c
    runs          \* runs[c]: how many times Desktop started call c

desktopVars == <<desktop, file, epoch, lastInst>>
callVars == <<pc, handle, pin, rescans, late, outcome>>
vars == <<desktopVars, http, callVars, wire, op, runs>>

-----------------------------------------------------------------------------
\* A discovery record: a token and base URL (the epoch that issued them) and
\* the instance id it names.
Record == [epoch : 0..MaxEpoch, inst : 0..MaxEpoch]
NoRecord == [epoch |-> 0, inst |-> 0]

\* "FAILED" stands for CANCELLED too; nothing tells them apart.
Terminal == {"SUCCEEDED", "FAILED"}
OpStates == {"none", "running"} \union Terminal

\* "done" and "open" are 200 replies whose envelope is terminal or is not, and
\* "flawed" one whose envelope is not terminal and carries an error; "error" is
\* any other reply: a Problem, a redirect, a body or a Location that cannot be used.
Replies == {"unreachable", "401", "error", "202", "done", "open", "flawed"}

\* Outcomes after which the tool is told that nothing was sent or accepted.
Unsent == {"no-instance", "instance-mismatch", "unauthorized"}

Outcomes == Unsent \union
    {"", "completed", "running", "command-failed", "error", "network",
     "accepted-unauthorized", "awaiting-user", "poll-timeout"}

TypeOK ==
    /\ desktop \in Record
    /\ file \in Record
    /\ epoch \in 1..MaxEpoch
    /\ lastInst \in 1..MaxEpoch
    /\ lastInst <= epoch
    /\ http \in Record
    /\ pc \in [Calls -> {"idle", "resolve", "dispatch", "sent", "poll", "settled"}]
    /\ handle \in [Calls -> Record]
    /\ pin \in [Calls -> 0..MaxEpoch]
    /\ rescans \in [Calls -> 0..1]
    /\ late \in [Calls -> BOOLEAN]
    /\ outcome \in [Calls -> Outcomes]
    /\ wire \in [Calls -> {"empty", "request"} \union Replies]
    /\ op \in [Calls -> [st : OpStates, error : BOOLEAN, inst : 0..MaxEpoch]]
    /\ runs \in [Calls -> Nat]

\* SessionManager hands out an executor only after start() found an instance.
Init ==
    /\ desktop = [epoch |-> 1, inst |-> 1]
    /\ file = desktop
    /\ epoch = 1
    /\ lastInst = 1
    /\ http = file
    /\ pc = [c \in Calls |-> "idle"]
    /\ handle = [c \in Calls |-> NoRecord]
    /\ pin = [c \in Calls |-> 0]
    /\ rescans = [c \in Calls |-> 0]
    /\ late = [c \in Calls |-> FALSE]
    /\ outcome = [c \in Calls |-> ""]
    /\ wire = [c \in Calls |-> "empty"]
    /\ op = [c \in Calls |-> [st |-> "none", error |-> FALSE, inst |-> 0]]
    /\ runs = [c \in Calls |-> 0]

-----------------------------------------------------------------------------
\* Tableau Desktop, known only from how the client uses it.

Stop ==
    /\ desktop # NoRecord
    /\ desktop' = NoRecord
    /\ UNCHANGED <<file, epoch, lastInst, http, callVars, wire, op, runs>>

\* Desktop serves again with a fresh token, as the same instance or a new one.
Serve ==
    /\ epoch < MaxEpoch
    /\ epoch' = epoch + 1
    /\ \E i \in {lastInst, lastInst + 1} :
        /\ lastInst' = i
        /\ desktop' = [epoch |-> epoch + 1, inst |-> i]
    /\ UNCHANGED <<file, http, callVars, wire, op, runs>>

\* The discovery directory catches up with Desktop.
Publish ==
    /\ file # desktop
    /\ file' = desktop
    /\ UNCHANGED <<desktop, epoch, lastInst, http, callVars, wire, op, runs>>

\* A request addressed with another record than the one Desktop accepts.
Reject(c) ==
    /\ wire[c] = "request"
    /\ handle[c] # desktop
    /\ \E r \in {"unreachable", "401"} :
        /\ r = "401" => desktop # NoRecord
        /\ wire' = [wire EXCEPT ![c] = r]
    /\ UNCHANGED <<desktopVars, http, callVars, op, runs>>

\* An authenticated request that Desktop answers without running anything.
Refuse(c) ==
    /\ wire[c] = "request"
    /\ handle[c] = desktop
    /\ wire' = [wire EXCEPT ![c] = "error"]
    /\ UNCHANGED <<desktopVars, http, callVars, op, runs>>

\* An authenticated request that Desktop runs: to its end inside the request
\* window, or as an operation that outlives the reply.  Only a POST is answered with
\* an envelope, which may be open or failed; a failed read is a Problem.  The envelope
\* may carry an error whatever its state (one beside FAILED adds nothing).
Admit(c) ==
    /\ wire[c] = "request"
    /\ handle[c] = desktop
    /\ runs' = [runs EXCEPT ![c] = @ + 1]
    /\ \E st \in OpStates \ {"none"}, error \in BOOLEAN :
        /\ error => st \in {"running", "SUCCEEDED"}
        /\ op' = [op EXCEPT ![c] = [st |-> st, error |-> error, inst |-> desktop.inst]]
        /\ \E r \in {"202", "error", "done", "open", "flawed"} :
            /\ r \in {"open", "flawed"} => st = "running" /\ c \in Mutating
            /\ r = "flawed" => error
            /\ r = "open" => ~error
            /\ r = "done" => (st = "SUCCEEDED" /\ ~error) \/ (c \in Mutating /\ st \in Terminal)
            /\ wire' = [wire EXCEPT ![c] = r]
    /\ UNCHANGED <<desktopVars, http, callVars>>

\* An error that was found stays, or the operation fails.
Finish(c) ==
    /\ op[c].st = "running"
    /\ \E st \in Terminal, found \in BOOLEAN :
        /\ found => st = "SUCCEEDED"
        /\ st = "SUCCEEDED" /\ op[c].error => found
        /\ op' = [op EXCEPT ![c] = [st |-> st, error |-> found, inst |-> @.inst]]
    /\ UNCHANGED <<desktopVars, http, callVars, wire, runs>>

Environment ==
    \/ Stop \/ Serve \/ Publish
    \/ \E c \in Calls : Reject(c) \/ Refuse(c) \/ Admit(c) \/ Finish(c)

-----------------------------------------------------------------------------
\* The executor.

Settle(c, result) ==
    /\ pc' = [pc EXCEPT ![c] = "settled"]
    /\ outcome' = [outcome EXCEPT ![c] = result]

\* withRescan and ensureHttp: use the cached client or resolve one.  A caller
\* that pins an instance got its id from an earlier read.
Start(c) ==
    /\ pc[c] = "idle"
    /\ \E p \in IF c \in Mutating THEN 0..lastInst ELSE {0} :
         pin' = [pin EXCEPT ![c] = p]
    /\ handle' = [handle EXCEPT ![c] = http]
    /\ pc' = [pc EXCEPT ![c] = IF http = NoRecord THEN "resolve" ELSE "dispatch"]
    /\ UNCHANGED <<desktopVars, http, rescans, late, outcome, wire, op, runs>>

\* resolveHttp: the pinned pid must be among the discovered instances.
Resolve(c) ==
    /\ pc[c] = "resolve"
    /\ http' = file
    /\ IF file = NoRecord
         THEN Settle(c, "no-instance") /\ UNCHANGED handle
         ELSE /\ handle' = [handle EXCEPT ![c] = file]
              /\ pc' = [pc EXCEPT ![c] = "dispatch"]
              /\ UNCHANGED outcome
    /\ UNCHANGED <<desktopVars, pin, rescans, late, wire, op, runs>>

\* Mutant: the instance is compared on the first attempt only.
PinHoldsAtFirst(c) == rescans[c] = 1 \/ pin[c] = 0 \/ handle[c].inst = pin[c]

\* The expectedInstanceId check applyDocument makes on every attempt.
PinHolds(c) == pin[c] = 0 \/ handle[c].inst = pin[c]

Dispatch(c) ==
    /\ pc[c] = "dispatch"
    /\ IF PinHolds(c)
         THEN /\ wire' = [wire EXCEPT ![c] = "request"]
              /\ pc' = [pc EXCEPT ![c] = "sent"]
              /\ UNCHANGED outcome
         ELSE Settle(c, "instance-mismatch") /\ UNCHANGED wire
    /\ UNCHANGED <<desktopVars, http, handle, pin, rescans, late, op, runs>>

\* Mutant: a second 401 rescans again.
UnauthorizedAlways(c) ==
    /\ rescans' = [rescans EXCEPT ![c] = @ + 1]
    /\ http' = NoRecord
    /\ pc' = [pc EXCEPT ![c] = "resolve"]
    /\ UNCHANGED outcome

\* withRescan on a 401: forget the client and resolve again, once per call.
Unauthorized(c) ==
    IF rescans[c] = 0
      THEN /\ rescans' = [rescans EXCEPT ![c] = 1]
           /\ http' = NoRecord
           /\ pc' = [pc EXCEPT ![c] = "resolve"]
           /\ UNCHANGED outcome
      ELSE Settle(c, "unauthorized") /\ UNCHANGED <<http, rescans>>

\* buildCommandStatus and terminalReadResult on a terminal envelope: one that carries an
\* error is failed whatever its state.
EnvelopeOutcome(o) ==
    IF o.st = "SUCCEEDED" /\ ~o.error THEN "completed" ELSE "command-failed"

\* Mutant: an envelope that is not terminal counts as completed.
ReplyOutcomeEager(reply, o) ==
    CASE reply = "unreachable" -> "network"
      [] reply = "error"       -> "error"
      [] reply = "done"        -> EnvelopeOutcome(o)
      [] reply = "flawed"      -> "command-failed"
      [] reply = "open"        -> "completed"

\* What parseEnvelope and parseJson make of a reply that ends the call.
ReplyOutcome(reply, o) ==
    CASE reply = "unreachable" -> "network"
      [] reply = "error"       -> "error"
      [] reply = "done"        -> EnvelopeOutcome(o)
      [] reply = "flawed"      -> "command-failed"
      [] reply = "open"        -> "running"

HandleReply(c) ==
    /\ pc[c] = "sent"
    /\ wire[c] \in Replies
    /\ wire' = [wire EXCEPT ![c] = "empty"]
    /\ \/ /\ wire[c] = "401"
          /\ Unauthorized(c)
          /\ UNCHANGED late
       \/ /\ wire[c] = "202"
          /\ pc' = [pc EXCEPT ![c] = "poll"]
          /\ late' = [late EXCEPT ![c] = FALSE]
          /\ UNCHANGED <<http, rescans, outcome>>
       \/ /\ wire[c] \notin {"401", "202"}
          /\ Settle(c, ReplyOutcome(wire[c], op[c]))
          /\ UNCHANGED <<http, rescans, late>>
    /\ UNCHANGED <<desktopVars, handle, pin, op, runs>>

\* Mutant: a 401 on the poll of an accepted command rescans and sends it again.
PollRefusedResends(c) ==
    /\ handle[c] # desktop
    /\ \/ Settle(c, "network") /\ UNCHANGED <<http, rescans>>
       \/ desktop # NoRecord /\ Unauthorized(c)

\* Mutant: a 401 on the poll is reported like a 401 on the request.
PollRefusedAsUnsent(c) ==
    /\ handle[c] # desktop
    /\ \/ Settle(c, "network") /\ UNCHANGED <<http, rescans>>
       \/ /\ desktop # NoRecord
          /\ IF c \in Mutating
               THEN Settle(c, "unauthorized") /\ UNCHANGED <<http, rescans>>
               ELSE Unauthorized(c)

\* One GET of the operation's Location and what pollOperation makes of it.  A
\* GET changes nothing in Desktop; one that finds the operation still running
\* and no blocking dialog leaves the loop where it was.  "error" stands for an
\* expired operation (404), any other Problem and an unreadable body.  The GET
\* that is out when the deadline passes still counts.
PollRefused(c) ==
    /\ handle[c] # desktop
    /\ \/ Settle(c, "network") /\ UNCHANGED <<http, rescans>>
       \/ /\ desktop # NoRecord
          /\ IF c \in Mutating
               THEN Settle(c, "accepted-unauthorized") /\ UNCHANGED <<http, rescans>>
               ELSE Unauthorized(c)

PollAnswered(c) ==
    /\ handle[c] = desktop
    /\ \/ \E r \in {"error", "network"} : Settle(c, r)
       \/ op[c].st \in Terminal /\ Settle(c, EnvelopeOutcome(op[c]))
       \/ op[c].st = "running" /\ Settle(c, "awaiting-user")
    /\ UNCHANGED <<http, rescans>>

Poll(c) ==
    /\ pc[c] = "poll"
    /\ PollRefused(c) \/ PollAnswered(c)
    /\ UNCHANGED <<desktopVars, handle, pin, late, wire, op, runs>>

\* Mutant: the deadline is computed afresh in every turn of the loop.
DeadlineMoves(c) ==
    /\ pc[c] = "poll"
    /\ ~late[c]
    /\ UNCHANGED vars

\* Date.now() reaches the poll deadline.
DeadlinePasses(c) ==
    /\ pc[c] = "poll"
    /\ ~late[c]
    /\ late' = [late EXCEPT ![c] = TRUE]
    /\ UNCHANGED <<desktopVars, http, pc, handle, pin, rescans, outcome, wire, op, runs>>

PollTimeout(c) ==
    /\ pc[c] = "poll"
    /\ late[c]
    /\ Settle(c, "poll-timeout")
    /\ UNCHANGED <<desktopVars, http, handle, pin, rescans, late, wire, op, runs>>

\* The per-request timeout.  The request may still reach Desktop afterwards.
RequestTimeout(c) ==
    /\ pc[c] = "sent"
    /\ Settle(c, "network")
    /\ UNCHANGED <<desktopVars, http, handle, pin, rescans, late, wire, op, runs>>

\* The caller's signal aborts the fetch or the wait between two polls.
Abort(c) ==
    /\ pc[c] \in {"sent", "poll"}
    /\ Settle(c, "network")
    /\ UNCHANGED <<desktopVars, http, handle, pin, rescans, late, wire, op, runs>>

\* The steps the event loop is bound to take: continuations and timers.
Progress(c) ==
    Resolve(c) \/ Dispatch(c) \/ HandleReply(c) \/ RequestTimeout(c) \/ PollTimeout(c)

Executor(c) == Start(c) \/ Progress(c) \/ Poll(c) \/ DeadlinePasses(c) \/ Abort(c)

\* Every call has returned.
Finished == (\A c \in Calls : pc[c] = "settled") /\ UNCHANGED vars

Next == Environment \/ (\E c \in Calls : Executor(c)) \/ Finished

Fairness == \A c \in Calls : WF_vars(Progress(c)) /\ WF_vars(DeadlinePasses(c))

Spec == Init /\ [][Next]_vars

-----------------------------------------------------------------------------
\* Properties.

\* A command that changes the workbook is started in Desktop at most once,
\* whatever is lost, refused or retried: withRescan sends again only after a
\* 401 on the request itself, never after Desktop accepted it
\* (externalApiHttp.ts, "a rescan-and-resend would run it twice").
RunsAtMostOnce == \A c \in Mutating : runs[c] <= 1

\* A pinned command runs in the pinned instance or nowhere, also when the
\* executor's shared client was replaced while the call was under way.
PinnedNeverRetargeted ==
    \A c \in Mutating : runs[c] > 0 /\ pin[c] # 0 => op[c].inst = pin[c]

\* "completed" and "command-failed" are what Desktop says of the operation,
\* never of a reply that left it open (buildCommandStatus, "never as completed"); an
\* operation Desktop found an error with is not completed, also when it has succeeded.
OutcomeTellsTheTruth ==
    \A c \in Calls :
        /\ outcome[c] = "completed" => op[c].st = "SUCCEEDED" /\ ~op[c].error
        /\ outcome[c] = "command-failed" => op[c].st = "FAILED" \/ op[c].error

\* An outcome that says nothing was sent stays true: the command did not run
\* and no copy of the request is still on its way.
UnsentNeverRuns ==
    \A c \in Mutating : outcome[c] \in Unsent => runs[c] = 0 /\ wire[c] # "request"

\* Every call that started returns: no poll goes on for ever, whatever
\* Desktop does.
EveryCallSettles == \A c \in Calls : pc[c] # "idle" ~> pc[c] = "settled"

ReportOf(result) ==
    CASE result = ""                -> "pending"
      [] result = "completed"       -> "completed"
      [] result = "command-failed"  -> "failed"
      [] result \in Unsent          -> "untouched"
      [] OTHER                      -> "unknown"

\* An operation with an error has failed, as the code has it.
EffectOf(o) == IF o.error THEN "FAILED" ELSE o.st

\* The executor implements the at-most-once command.
Promise == INSTANCE DesktopCommand WITH
    Commands <- Mutating,
    effect <- [c \in Mutating |-> EffectOf(op[c])],
    report <- [c \in Mutating |-> ReportOf(outcome[c])]

PromiseKept == Promise!Spec
=============================================================================
