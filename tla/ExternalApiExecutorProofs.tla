---------------------- MODULE ExternalApiExecutorProofs ----------------------
(***************************************************************************)
(* Theorems about ExternalApiExecutor, and about PerSheetApply that is     *)
(* composed with it, for every set of calls, every set of mutating ones    *)
(* and every bound on Desktop's restarts.                                  *)
(***************************************************************************)
EXTENDS PerSheetApply, TLAPS

\* The steps of the environment and of the executor, one disjunct each.
LEMMA NextCases ==
    ASSUME Next, NEW P,
           Stop => P, Serve => P, Publish => P,
           \A c \in Calls :
               /\ Reject(c) => P
               /\ Refuse(c) => P
               /\ Admit(c) => P
               /\ Finish(c) => P
               /\ Start(c) => P
               /\ Resolve(c) => P
               /\ Dispatch(c) => P
               /\ HandleReply(c) => P
               /\ RequestTimeout(c) => P
               /\ PollTimeout(c) => P
               /\ Poll(c) => P
               /\ DeadlinePasses(c) => P
               /\ Abort(c) => P,
           UNCHANGED vars => P
    PROVE  P
  BY DEF Next, Environment, Executor, Progress, Finished

-----------------------------------------------------------------------------
\* Type correctness: rescans never exceeds one and the instance ids stay below
\* the number of times Desktop has started serving.

LEMMA NoRecordType == NoRecord \in Record
  BY MaxEpochAssumption DEF Record, NoRecord

LEMMA InitTypeOK == Init => TypeOK
  <1> SUFFICES ASSUME Init PROVE TypeOK
    OBVIOUS
  <1>1. [epoch |-> 1, inst |-> 1] \in Record
    BY MaxEpochAssumption DEF Record
  <1>2. 1 \in 1..MaxEpoch /\ 0 \in 0..MaxEpoch /\ 0 \in 0..1
    BY MaxEpochAssumption
  <1>3. [st |-> "none", error |-> FALSE, inst |-> 0]
          \in [st : OpStates, error : BOOLEAN, inst : 0..MaxEpoch]
    BY <1>2 DEF OpStates
  <1>4. "" \in Outcomes
    BY DEF Outcomes
  <1>5. /\ pc \in [Calls -> {"idle", "resolve", "dispatch", "sent", "poll", "settled"}]
        /\ handle \in [Calls -> Record]
        /\ pin \in [Calls -> 0..MaxEpoch]
        /\ rescans \in [Calls -> 0..1]
        /\ late \in [Calls -> BOOLEAN]
    BY <1>2, NoRecordType DEF Init
  <1>6. /\ outcome \in [Calls -> Outcomes]
        /\ wire \in [Calls -> {"empty", "request"} \union Replies]
        /\ op \in [Calls -> [st : OpStates, error : BOOLEAN, inst : 0..MaxEpoch]]
        /\ runs \in [Calls -> Nat]
    BY <1>3, <1>4 DEF Init
  <1>7. /\ desktop \in Record /\ file \in Record /\ http \in Record
        /\ epoch \in 1..MaxEpoch /\ lastInst \in 1..MaxEpoch /\ lastInst <= epoch
    <2>1. /\ desktop = [epoch |-> 1, inst |-> 1] /\ file = desktop /\ http = file
          /\ epoch = 1 /\ lastInst = 1
      BY DEF Init
    <2> QED BY <1>1, <1>2, <2>1
  <1> QED
    BY <1>5, <1>6, <1>7 DEF TypeOK

\* A first 401 rescans, a second one settles the call.
LEMMA UnauthorizedTypeOK ==
    ASSUME TypeOK, NEW c \in Calls, Unauthorized(c)
    PROVE  /\ pc' \in [Calls -> {"idle", "resolve", "dispatch", "sent", "poll", "settled"}]
           /\ http' \in Record
           /\ rescans' \in [Calls -> 0..1]
           /\ outcome' \in [Calls -> Outcomes]
  <1>1. CASE rescans[c] = 0
    <2>1. http' \in Record
      BY <1>1, NoRecordType DEF Unauthorized
    <2>2. rescans' \in [Calls -> 0..1]
      BY <1>1 DEF Unauthorized, TypeOK
    <2> QED BY <1>1, <2>1, <2>2 DEF Unauthorized, TypeOK
  <1>2. CASE rescans[c] # 0
    BY <1>2 DEF Unauthorized, TypeOK, Settle, Outcomes, Unsent
  <1> QED BY <1>1, <1>2

LEMMA ReplyOutcomeType ==
    ASSUME NEW r \in Replies \ {"401", "202"}, NEW o
    PROVE  ReplyOutcome(r, o) \in Outcomes \ (Unsent \union {""})
  BY DEF Replies, ReplyOutcome, EnvelopeOutcome, Outcomes, Unsent

\* A call that returns keeps the types, whatever is in transit for it.
LEMMA SettleTypeOK ==
    ASSUME TypeOK, NEW c \in Calls, NEW r \in Outcomes, Settle(c, r),
           UNCHANGED <<desktop, file, epoch, lastInst, http, handle, pin, rescans, late, wire, op, runs>>
    PROVE  TypeOK'
  <1>1. /\ pc' \in [Calls -> {"idle", "resolve", "dispatch", "sent", "poll", "settled"}]
        /\ outcome' \in [Calls -> Outcomes]
    BY DEF Settle, TypeOK
  <1> QED BY <1>1 DEF TypeOK

LEMMA NextTypeOK == TypeOK /\ [Next]_vars => TypeOK'
  <1> SUFFICES ASSUME TypeOK, [Next]_vars PROVE TypeOK'
    OBVIOUS
  <1> USE MaxEpochAssumption DEF TypeOK
  <1>1. Stop => TypeOK'
    BY DEF Stop, Record, NoRecord, callVars
  <1>2. Serve => TypeOK'
    BY DEF Serve, Record, callVars
  <1>3. Publish => TypeOK'
    BY DEF Publish, callVars
  <1>4. ASSUME NEW c \in Calls
        PROVE  /\ Reject(c) => TypeOK'
               /\ Refuse(c) => TypeOK'
               /\ Admit(c) => TypeOK'
               /\ Finish(c) => TypeOK'
    <2>1. Reject(c) => TypeOK'
      BY DEF Reject, Replies, desktopVars, callVars
    <2>2. Refuse(c) => TypeOK'
      BY DEF Refuse, Replies, desktopVars, callVars
    <2>3. Admit(c) => TypeOK'
      BY DEF Admit, Replies, OpStates, Record, desktopVars, callVars
    <2>4. Finish(c) => TypeOK'
      BY DEF Finish, OpStates, Terminal, desktopVars, callVars
    <2> QED BY <2>1, <2>2, <2>3, <2>4
  <1>5. ASSUME NEW c \in Calls
        PROVE  /\ Start(c) => TypeOK'
               /\ Resolve(c) => TypeOK'
               /\ Dispatch(c) => TypeOK'
               /\ HandleReply(c) => TypeOK'
    <2>1. Start(c) => TypeOK'
      BY DEF Start, desktopVars
    <2>2. ASSUME Resolve(c) PROVE TypeOK'
      <3>1. CASE file = NoRecord
        BY <2>2, <3>1 DEF Resolve, Settle, Outcomes, Unsent, desktopVars
      <3>2. CASE file # NoRecord
        <4>1. /\ http' = file /\ handle' = [handle EXCEPT ![c] = file]
              /\ pc' = [pc EXCEPT ![c] = "dispatch"]
              /\ outcome' = outcome
              /\ UNCHANGED <<desktopVars, pin, rescans, late, wire, op, runs>>
          BY <2>2, <3>2 DEF Resolve
        <4>2. /\ handle' \in [Calls -> Record]
              /\ pc' \in [Calls -> {"idle", "resolve", "dispatch", "sent", "poll", "settled"}]
          BY <4>1
        <4> QED BY <4>1, <4>2 DEF desktopVars
      <3> QED BY <3>1, <3>2
    <2>3. Dispatch(c) => TypeOK'
      BY DEF Dispatch, Settle, Outcomes, Unsent, desktopVars
    <2>4. HandleReply(c) => TypeOK'
      <3> SUFFICES ASSUME HandleReply(c) PROVE TypeOK'
        OBVIOUS
      <3>1. UNCHANGED <<desktop, file, epoch, lastInst, handle, pin, op, runs>>
            /\ wire' = [wire EXCEPT ![c] = "empty"]
        BY DEF HandleReply, desktopVars
      <3>2. CASE wire[c] = "401"
        BY <3>1, <3>2, UnauthorizedTypeOK DEF HandleReply
      <3>3. CASE wire[c] = "202"
        <4>1. /\ pc' = [pc EXCEPT ![c] = "poll"] /\ late' = [late EXCEPT ![c] = FALSE]
              /\ UNCHANGED <<http, rescans, outcome>>
          BY <3>3 DEF HandleReply
        <4> QED BY <3>1, <4>1
      <3>4. CASE wire[c] \notin {"401", "202"}
        <4>1. wire[c] \in Replies \ {"401", "202"}
          BY <3>4 DEF HandleReply
        <4>2. ReplyOutcome(wire[c], op[c]) \in Outcomes
          BY <4>1, ReplyOutcomeType
        <4>3. UNCHANGED <<http, rescans, late>> /\ Settle(c, ReplyOutcome(wire[c], op[c]))
          BY <3>4 DEF HandleReply
        <4> QED BY <3>1, <4>2, <4>3 DEF Settle
      <3> QED BY <3>2, <3>3, <3>4
    <2> QED BY <2>1, <2>2, <2>3, <2>4
  <1>6. ASSUME NEW c \in Calls
        PROVE  /\ RequestTimeout(c) => TypeOK'
               /\ PollTimeout(c) => TypeOK'
               /\ Poll(c) => TypeOK'
               /\ DeadlinePasses(c) => TypeOK'
               /\ Abort(c) => TypeOK'
    <2>1. RequestTimeout(c) => TypeOK'
      BY DEF RequestTimeout, Settle, Outcomes, desktopVars
    <2>2. PollTimeout(c) => TypeOK'
      BY DEF PollTimeout, Settle, Outcomes, desktopVars
    <2>3. Poll(c) => TypeOK'
      <3> SUFFICES ASSUME Poll(c) PROVE TypeOK'
        OBVIOUS
      <3>1. UNCHANGED <<desktop, file, epoch, lastInst, handle, pin, late, wire, op, runs>>
        BY DEF Poll, desktopVars
      <3>2. CASE PollRefused(c)
        <4>1. CASE Unauthorized(c)
          BY <3>1, <4>1, UnauthorizedTypeOK
        <4>2. CASE \E r \in {"network", "accepted-unauthorized"} :
                     Settle(c, r) /\ UNCHANGED <<http, rescans>>
          <5>1. {"network", "accepted-unauthorized"} \subseteq Outcomes
            BY DEF Outcomes
          <5> QED BY <3>1, <4>2, <5>1, SettleTypeOK
        <4> QED BY <3>2, <4>1, <4>2 DEF PollRefused
      <3>3. CASE PollAnswered(c)
        <4>1. {"error", "network", "awaiting-user", "completed", "command-failed"} \subseteq Outcomes
          BY DEF Outcomes
        <4>2. EnvelopeOutcome(op[c]) \in {"completed", "command-failed"}
          BY DEF EnvelopeOutcome
        <4>3. PICK r \in Outcomes : Settle(c, r) /\ UNCHANGED <<http, rescans>>
          BY <3>3, <4>1, <4>2 DEF PollAnswered
        <4> QED BY <3>1, <4>3, SettleTypeOK
      <3> QED BY <3>2, <3>3 DEF Poll
    <2>4. DeadlinePasses(c) => TypeOK'
      BY DEF DeadlinePasses, desktopVars
    <2>5. Abort(c) => TypeOK'
      BY DEF Abort, Settle, Outcomes, desktopVars
    <2> QED BY <2>1, <2>2, <2>3, <2>4, <2>5
  <1>7. UNCHANGED vars => TypeOK'
    BY DEF vars, desktopVars, callVars
  <1> QED
    BY <1>1, <1>2, <1>3, <1>4, <1>5, <1>6, <1>7, NextCases

\* The state of the executor keeps its type.
THEOREM TypeCorrect == Spec => []TypeOK
  BY InitTypeOK, NextTypeOK, PTL DEF Spec

-----------------------------------------------------------------------------
(***************************************************************************)
(* The inductive invariant.  None of the safety properties is inductive:   *)
(* that a command is not started twice needs that a 401 is only ever a     *)
(* reply to a request Desktop did not run, and that no request is on its   *)
(* way while the call is about to send one.                                *)
(***************************************************************************)

\* Nothing is in transit before a call sends, between a 202 and the end of the
\* polling, or once the call was told what its operation did.
Quiet(c) ==
    \/ pc[c] \in {"idle", "resolve", "dispatch", "poll"}
    \/ outcome[c] \in Unsent \union {"completed", "command-failed"}

\* What the code takes for a failed operation; Desktop never makes it whole again.
Failed(o) == o.st = "FAILED" \/ o.error

WireInv(c) ==
    /\ Quiet(c) => wire[c] = "empty"
    /\ outcome[c] = "" <=> pc[c] # "settled"
    /\ wire[c] = "done" => op[c].st \in Terminal
    /\ wire[c] = "flawed" => Failed(op[c])

\* A mutating call whose request was not sent, is in transit, or was answered
\* 401 has not run; once it ran it is in the instance it was pinned to.
OnceInv(c) ==
    /\ runs[c] \in {0, 1}
    /\ pc[c] \in {"idle", "resolve", "dispatch"} => runs[c] = 0
    /\ wire[c] \in {"request", "401"} => runs[c] = 0
    /\ outcome[c] \in Unsent => runs[c] = 0
    /\ wire[c] = "request" => PinHolds(c)
    /\ runs[c] = 1 /\ pin[c] # 0 => op[c].inst = pin[c]

TruthInv(c) ==
    /\ outcome[c] = "completed" => op[c].st = "SUCCEEDED" /\ ~op[c].error
    /\ outcome[c] = "command-failed" => Failed(op[c])

CallInv(c) == WireInv(c) /\ TruthInv(c) /\ (c \in Mutating => OnceInv(c))

ExecutorInv == \A c \in Calls : CallInv(c)

\* What a step does not touch about a call leaves CallInv of that call alone.
LEMMA CallInvFrame ==
    ASSUME NEW d \in Calls, CallInv(d),
           pc'[d] = pc[d], handle'[d] = handle[d], pin'[d] = pin[d],
           outcome'[d] = outcome[d], wire'[d] = wire[d], op'[d] = op[d], runs'[d] = runs[d]
    PROVE  CallInv(d)'
  BY DEF CallInv, WireInv, OnceInv, TruthInv, Quiet, PinHolds, Failed

LEMMA InitExecutorInv == Init => ExecutorInv
  BY MutatingAssumption
     DEF Init, ExecutorInv, CallInv, WireInv, OnceInv, TruthInv, Quiet, PinHolds, Unsent

LEMMA NextExecutorInv == TypeOK /\ ExecutorInv /\ [Next]_vars => ExecutorInv'
  <1> SUFFICES ASSUME TypeOK, ExecutorInv, [Next]_vars, NEW d \in Calls
               PROVE  CallInv(d)'
    BY DEF ExecutorInv
  <1>0. CallInv(d)
    BY DEF ExecutorInv
  <1>1. Stop => CallInv(d)'
    BY <1>0, CallInvFrame DEF Stop, callVars
  <1>2. Serve => CallInv(d)'
    BY <1>0, CallInvFrame DEF Serve, callVars
  <1>3. Publish => CallInv(d)'
    BY <1>0, CallInvFrame DEF Publish, callVars
  <1>4. UNCHANGED vars => CallInv(d)'
    BY <1>0, CallInvFrame DEF vars, callVars
  <1> USE DEF CallInv, WireInv, OnceInv, TruthInv, Quiet, PinHolds, Failed
  <1>5. ASSUME NEW c \in Calls
        PROVE  /\ Reject(c) => CallInv(d)'
               /\ Refuse(c) => CallInv(d)'
               /\ Admit(c) => CallInv(d)'
               /\ Finish(c) => CallInv(d)'
    <2>1. Reject(c) => CallInv(d)'
      BY <1>0 DEF Reject, TypeOK, callVars
    <2>2. Refuse(c) => CallInv(d)'
      BY <1>0 DEF Refuse, TypeOK, callVars
    <2>3. ASSUME Admit(c) PROVE CallInv(d)'
      <3>1. CASE d # c
        <4>1. /\ pc' = pc /\ handle' = handle /\ pin' = pin /\ outcome' = outcome
              /\ runs'[d] = runs[d] /\ op'[d] = op[d] /\ wire'[d] = wire[d]
          BY <2>3, <3>1 DEF Admit, TypeOK, callVars
        <4> QED BY <1>0, <4>1, CallInvFrame
      <3>2. CASE d = c
        <4>1. /\ pc' = pc /\ handle' = handle /\ pin' = pin /\ outcome' = outcome
              /\ wire[c] = "request" /\ handle[c] = desktop
              /\ runs'[c] = runs[c] + 1
              /\ op'[c].inst = desktop.inst
              /\ wire'[c] \in {"202", "open", "flawed", "error", "done"}
              /\ wire'[c] = "flawed" => op'[c].error
              /\ wire'[c] = "done" => op'[c].st \in Terminal
          BY <2>3 DEF Admit, TypeOK, callVars, OpStates
        <4>2. /\ ~Quiet(c)
              /\ c \in Mutating => runs[c] = 0 /\ (pin[c] = 0 \/ desktop.inst = pin[c])
          BY <1>0, <3>2, <4>1
        <4>3. WireInv(c)' /\ TruthInv(c)'
          BY <1>0, <3>2, <4>1, <4>2
        <4>4. ASSUME c \in Mutating PROVE OnceInv(c)'
          <5>1. runs'[c] = 1
            BY <4>1, <4>2, <4>4
          <5>2. /\ pc'[c] \notin {"idle", "resolve", "dispatch"}
                /\ outcome'[c] \notin Unsent
            BY <4>1, <4>2
          <5>3. wire'[c] \notin {"request", "401"}
            BY <4>1
          <5>4. pin'[c] # 0 => op'[c].inst = pin'[c]
            BY <4>1, <4>2, <4>4
          <5> QED BY <5>1, <5>2, <5>3, <5>4 DEF Unsent
        <4> QED BY <3>2, <4>3, <4>4
      <3> QED BY <3>1, <3>2
    <2>4. ASSUME Finish(c) PROVE CallInv(d)'
      <3>1. CASE d # c
        BY <1>0, <2>4, <3>1, CallInvFrame, ZenonT(30) DEF Finish, TypeOK, callVars
      <3>2. CASE d = c
        <4>1. /\ pc' = pc /\ handle' = handle /\ pin' = pin /\ outcome' = outcome
              /\ wire' = wire /\ runs' = runs
              /\ op[c].st = "running"
              /\ op'[c].inst = op[c].inst
              /\ op'[c].st \in Terminal
              /\ op[c].error => Failed(op'[c])
          <5>1. PICK st \in Terminal, found \in BOOLEAN :
                  /\ st = "SUCCEEDED" /\ op[c].error => found
                  /\ op' = [op EXCEPT ![c] = [st |-> st, error |-> found, inst |-> @.inst]]
            BY <2>4 DEF Finish
          <5>2. op'[c] = [st |-> st, error |-> found, inst |-> op[c].inst]
            BY <5>1 DEF TypeOK
          <5> QED BY <2>4, <5>1, <5>2 DEF Finish, callVars, Terminal
        <4>2. wire[c] # "done" /\ outcome[c] # "completed"
          BY <1>0, <3>2, <4>1 DEF Terminal
        <4>3. WireInv(c)' /\ TruthInv(c)'
          BY <1>0, <3>2, <4>1, <4>2
        <4>4. c \in Mutating => OnceInv(c)'
          BY <1>0, <3>2, <4>1, <4>2
        <4> QED BY <3>2, <4>3, <4>4
      <3> QED BY <3>1, <3>2
    <2> QED BY <2>1, <2>2, <2>3, <2>4
  <1>6. ASSUME NEW c \in Calls
        PROVE  /\ Start(c) => CallInv(d)'
               /\ Resolve(c) => CallInv(d)'
               /\ Dispatch(c) => CallInv(d)'
               /\ HandleReply(c) => CallInv(d)'
    <2>1. ASSUME Start(c) PROVE CallInv(d)'
      <3>1. CASE d # c
        <4>1. /\ pc'[d] = pc[d] /\ handle'[d] = handle[d] /\ pin'[d] = pin[d]
              /\ outcome' = outcome /\ wire' = wire /\ op' = op /\ runs' = runs
          <5>1. PICK p : pin' = [pin EXCEPT ![c] = p]
            BY <2>1 DEF Start
          <5> QED BY <2>1, <3>1, <5>1 DEF Start, TypeOK
        <4> QED BY <1>0, <4>1, CallInvFrame
      <3>2. CASE d = c
        <4>1. /\ pc[c] = "idle" /\ pc'[c] \in {"resolve", "dispatch"}
              /\ outcome' = outcome /\ wire' = wire /\ op' = op /\ runs' = runs
          BY <2>1 DEF Start, TypeOK
        <4>2. wire[c] = "empty" /\ outcome[c] = "" /\ (c \in Mutating => runs[c] = 0)
          BY <1>0, <3>2, <4>1
        <4>3. WireInv(c)' /\ TruthInv(c)'
          BY <1>0, <3>2, <4>1, <4>2 DEF Unsent
        <4>4. ASSUME c \in Mutating PROVE OnceInv(c)'
          <5>1. runs'[c] = 0
            BY <4>1, <4>2, <4>4
          <5>2. wire'[c] = "empty" /\ outcome'[c] = ""
            BY <4>1, <4>2
          <5>3. outcome'[c] \notin Unsent
            BY <5>2 DEF Unsent
          <5>4. runs'[c] \in {0, 1}
            BY <5>1
          <5>5. runs'[c] # 1
            BY <5>1
          <5> QED BY <5>1, <5>2, <5>3, <5>4, <5>5
        <4> QED BY <3>2, <4>3, <4>4
      <3> QED BY <3>1, <3>2
    <2>2. Resolve(c) => CallInv(d)'
      BY <1>0, ZenonT(30) DEF Resolve, Settle, TypeOK, Unsent
    <2>3. Dispatch(c) => CallInv(d)'
      BY <1>0, ZenonT(30) DEF Dispatch, Settle, TypeOK, Unsent
    <2>4. ASSUME HandleReply(c) PROVE CallInv(d)'
      <3>1. /\ pc[c] = "sent" /\ wire[c] \in Replies
            /\ wire' = [wire EXCEPT ![c] = "empty"]
            /\ handle' = handle /\ pin' = pin /\ op' = op /\ runs' = runs
        BY <2>4 DEF HandleReply
      <3>2. CASE d # c
        <4>1. /\ pc'[d] = pc[d] /\ outcome'[d] = outcome[d]
          <5>1. CASE wire[c] = "401"
            BY <2>4, <3>2, <5>1 DEF HandleReply, Unauthorized, Settle, TypeOK
          <5>2. CASE wire[c] = "202"
            BY <2>4, <3>2, <5>2 DEF HandleReply, TypeOK
          <5>3. CASE wire[c] \notin {"401", "202"}
            BY <2>4, <3>2, <5>3 DEF HandleReply, Settle, TypeOK
          <5> QED BY <5>1, <5>2, <5>3
        <4>2. wire'[d] = wire[d]
          BY <3>1, <3>2 DEF TypeOK
        <4> QED BY <1>0, <3>1, <4>1, <4>2, CallInvFrame
      <3>3. CASE d = c /\ wire[c] = "401"
        <4>1. \/ pc'[c] = "resolve" /\ outcome' = outcome
              \/ pc'[c] = "settled" /\ outcome'[c] = "unauthorized"
          BY <2>4, <3>3 DEF HandleReply, Unauthorized, Settle, TypeOK
        <4>2. wire'[c] = "empty" /\ outcome[c] = ""
          BY <1>0, <3>1, <3>3 DEF TypeOK
        <4>3. c \in Mutating => runs[c] = 0
          BY <1>0, <3>3
        <4>4. WireInv(c)' /\ TruthInv(c)'
          BY <1>0, <3>1, <3>3, <4>1, <4>2 DEF Unsent
        <4>5. c \in Mutating => OnceInv(c)'
          BY <1>0, <3>1, <3>3, <4>1, <4>2, <4>3
        <4> QED BY <3>3, <4>4, <4>5
      <3>4. CASE d = c /\ wire[c] = "202"
        <4>1. pc'[c] = "poll" /\ outcome' = outcome
          BY <2>4, <3>4 DEF HandleReply, TypeOK
        <4> QED BY <1>0, <3>1, <3>4, <4>1 DEF TypeOK, Unsent
      <3>5. CASE d = c /\ wire[c] \notin {"401", "202"}
        <4>1. pc'[c] = "settled" /\ outcome'[c] = ReplyOutcome(wire[c], op[c])
          BY <2>4, <3>5 DEF HandleReply, Settle, TypeOK
        <4>2. /\ outcome'[c] \in Outcomes \ (Unsent \union {""})
              /\ outcome'[c] \in {"completed", "command-failed"} => wire[c] \in {"done", "flawed"}
          <5>1. wire[c] \in Replies \ {"401", "202"}
            BY <3>1, <3>5
          <5>2. outcome'[c] \in Outcomes \ (Unsent \union {""})
            BY <4>1, <5>1, ReplyOutcomeType
          <5>3. wire[c] \in {"done", "flawed"} \/ outcome'[c] \in {"network", "error", "running"}
            BY <4>1, <5>1 DEF ReplyOutcome, Replies
          <5> QED BY <5>2, <5>3
        <4>3. /\ wire[c] = "done" => outcome'[c] = EnvelopeOutcome(op[c])
              /\ wire[c] = "flawed" => outcome'[c] = "command-failed"
          BY <4>1 DEF ReplyOutcome
        <4> QED BY <1>0, <3>1, <3>5, <4>1, <4>2, <4>3 DEF TypeOK, EnvelopeOutcome, Terminal
      <3> QED BY <3>2, <3>3, <3>4, <3>5
    <2> QED BY <2>1, <2>2, <2>3, <2>4
  <1>7. ASSUME NEW c \in Calls
        PROVE  /\ RequestTimeout(c) => CallInv(d)'
               /\ PollTimeout(c) => CallInv(d)'
               /\ Poll(c) => CallInv(d)'
               /\ DeadlinePasses(c) => CallInv(d)'
               /\ Abort(c) => CallInv(d)'
    <2>1. RequestTimeout(c) => CallInv(d)'
      BY <1>0, ZenonT(30) DEF RequestTimeout, Settle, TypeOK, Unsent
    <2>2. PollTimeout(c) => CallInv(d)'
      BY <1>0, ZenonT(30) DEF PollTimeout, Settle, TypeOK, Unsent
    <2>3. ASSUME Poll(c) PROVE CallInv(d)'
      <3>1. /\ handle' = handle /\ pin' = pin /\ wire' = wire /\ op' = op /\ runs' = runs
            /\ pc[c] = "poll"
        BY <2>3 DEF Poll
      <3>2. CASE d # c
        <4>1. pc'[d] = pc[d] /\ outcome'[d] = outcome[d]
          <5>1. CASE PollRefused(c)
            BY <3>2, <5>1 DEF PollRefused, Unauthorized, Settle, TypeOK
          <5>2. CASE PollAnswered(c)
            BY <3>2, <5>2 DEF PollAnswered, Settle, TypeOK
          <5> QED BY <2>3, <5>1, <5>2 DEF Poll
        <4> QED BY <1>0, <3>1, <4>1, CallInvFrame
      <3>3. CASE d = c /\ PollRefused(c)
        <4>1. \/ pc'[c] = "settled" /\ outcome'[c] \in {"network", "accepted-unauthorized"}
              \/ pc'[c] = "resolve" /\ outcome' = outcome /\ c \notin Mutating
              \/ pc'[c] = "settled" /\ outcome'[c] = "unauthorized" /\ c \notin Mutating
          BY <3>3 DEF PollRefused, Unauthorized, Settle, TypeOK
        <4> QED BY <1>0, <3>1, <3>3, <4>1 DEF Unsent
      <3>4. CASE d = c /\ PollAnswered(c)
        <4>1. /\ pc'[c] = "settled"
              /\ \/ outcome'[c] \in {"error", "network", "awaiting-user"}
                 \/ op[c].st \in Terminal /\ outcome'[c] = EnvelopeOutcome(op[c])
          BY <3>4 DEF PollAnswered, Settle, TypeOK
        <4> QED BY <1>0, <3>1, <3>4, <4>1 DEF EnvelopeOutcome, Unsent, Terminal
      <3> QED BY <2>3, <3>2, <3>3, <3>4 DEF Poll
    <2>4. DeadlinePasses(c) => CallInv(d)'
      BY <1>0, ZenonT(30) DEF DeadlinePasses, TypeOK
    <2>5. Abort(c) => CallInv(d)'
      BY <1>0, ZenonT(30) DEF Abort, Settle, TypeOK, Unsent
    <2> QED BY <2>1, <2>2, <2>3, <2>4, <2>5
  <1> QED
    BY <1>1, <1>2, <1>3, <1>4, <1>5, <1>6, <1>7, NextCases

THEOREM ExecutorInvariant == Spec => [](TypeOK /\ ExecutorInv)
  BY InitTypeOK, NextTypeOK, InitExecutorInv, NextExecutorInv, PTL DEF Spec

-----------------------------------------------------------------------------
\* What the inductive invariant implies.

LEMMA InvariantImpliesSafety ==
    ASSUME TypeOK, ExecutorInv
    PROVE  RunsAtMostOnce /\ PinnedNeverRetargeted /\ OutcomeTellsTheTruth /\ UnsentNeverRuns
  <1>1. \A c \in Calls : CallInv(c)
    BY DEF ExecutorInv
  <1>2. ASSUME NEW c \in Mutating
        PROVE  /\ runs[c] \in {0, 1}
               /\ outcome[c] \in Unsent => runs[c] = 0
               /\ outcome[c] \in Unsent => wire[c] = "empty"
               /\ runs[c] = 1 /\ pin[c] # 0 => op[c].inst = pin[c]
    BY <1>1, MutatingAssumption DEF CallInv, OnceInv, WireInv, Quiet
  <1>3. RunsAtMostOnce
    BY <1>2 DEF RunsAtMostOnce
  <1>4. PinnedNeverRetargeted
    BY <1>2 DEF PinnedNeverRetargeted
  <1>5. OutcomeTellsTheTruth
    BY <1>1 DEF OutcomeTellsTheTruth, CallInv, TruthInv, Failed
  <1>6. UnsentNeverRuns
    BY <1>2 DEF UnsentNeverRuns
  <1> QED BY <1>3, <1>4, <1>5, <1>6

\* A mutating command is started in Desktop at most once, whatever is lost,
\* refused, rescanned or retried (withRescan and pollOperation).
THEOREM AtMostOnce == Spec => []RunsAtMostOnce
  BY ExecutorInvariant, InvariantImpliesSafety, PTL

\* A command pinned to an instance runs there or nowhere (applyDocument's check
\* on every attempt of withRescan).
THEOREM PinHonoured == Spec => []PinnedNeverRetargeted
  BY ExecutorInvariant, InvariantImpliesSafety, PTL

\* What the tool is told of an ended command is what Desktop says of it
\* (buildCommandStatus, terminalReadResult).
THEOREM TruthfulOutcome == Spec => []OutcomeTellsTheTruth
  BY ExecutorInvariant, InvariantImpliesSafety, PTL

\* After an error that says nothing was sent, nothing ran and nothing will.
THEOREM UnsentStaysUnsent == Spec => []UnsentNeverRuns
  BY ExecutorInvariant, InvariantImpliesSafety, PTL

-----------------------------------------------------------------------------
(***************************************************************************)
(* The executor implements DesktopCommand.  A step of it starts, ends or   *)
(* reports one command, or leaves every operation and every outcome alone. *)
(***************************************************************************)

\* An operation exists only where Desktop started one.
RanInv == \A c \in Calls : runs[c] = 0 => op[c].st = "none" /\ ~op[c].error

LEMMA NextRanInv == TypeOK /\ RanInv /\ [Next]_vars => RanInv'
  <1> SUFFICES ASSUME TypeOK, RanInv, [Next]_vars, NEW d \in Calls, runs'[d] = 0
               PROVE  op'[d].st = "none" /\ ~op'[d].error
    BY DEF RanInv
  <1>0. runs[d] = 0 => op[d].st = "none" /\ ~op[d].error
    BY DEF RanInv
  <1>1. CASE UNCHANGED <<op, runs>>
    BY <1>0, <1>1
  <1>2. ASSUME NEW c \in Calls, Admit(c) PROVE op'[d].st = "none" /\ ~op'[d].error
    <2>1. runs' = [runs EXCEPT ![c] = @ + 1] /\ runs \in [Calls -> Nat]
      BY <1>2 DEF Admit, TypeOK
    <2>2. d # c
      BY <2>1
    <2>3. op'[d] = op[d] /\ runs'[d] = runs[d]
      BY <1>2, <2>1, <2>2 DEF Admit, TypeOK
    <2> QED BY <1>0, <2>3
  <1>3. ASSUME NEW c \in Calls, Finish(c) PROVE op'[d].st = "none" /\ ~op'[d].error
    <2>1. runs' = runs /\ op[c].st = "running"
      BY <1>3 DEF Finish
    <2>2. d # c
      BY <1>0, <2>1
    <2>3. op'[d] = op[d]
      BY <1>3, <2>2 DEF Finish, TypeOK
    <2> QED BY <1>0, <2>1, <2>3
  <1> QED BY <1>1, <1>2, <1>3, NextCases
        DEF Stop, Serve, Publish, Reject, Refuse, Start, Resolve, Dispatch, HandleReply, RequestTimeout,
            PollTimeout, Poll, DeadlinePasses, Abort, vars

Ends(c) ==
    /\ UNCHANGED op
    /\ outcome[c] = ""
    /\ \E r \in Outcomes : outcome' = [outcome EXCEPT ![c] = r]

LEMMA StepShapes ==
    ASSUME TypeOK, ExecutorInv, [Next]_vars
    PROVE  \/ UNCHANGED <<op, outcome>>
           \/ \E c \in Calls : Admit(c) \/ Finish(c) \/ Ends(c)
  <1>1. ASSUME NEW c \in Calls, NEW r \in Outcomes, Settle(c, r), pc[c] # "settled", UNCHANGED op
        PROVE  Ends(c)
    BY <1>1 DEF ExecutorInv, CallInv, WireInv, Ends, Settle
  <1>2. ASSUME NEW c \in Calls, Unauthorized(c), pc[c] # "settled", UNCHANGED op
        PROVE  UNCHANGED <<op, outcome>> \/ Ends(c)
    BY <1>1, <1>2 DEF Unauthorized, Outcomes, Unsent
  <1>3. ASSUME NEW c \in Calls, HandleReply(c) PROVE UNCHANGED <<op, outcome>> \/ Ends(c)
    <2>1. pc[c] # "settled" /\ UNCHANGED op /\ wire[c] \in Replies
      BY <1>3 DEF HandleReply
    <2>2. CASE wire[c] \notin {"401", "202"}
      BY <2>1, <2>2, <1>1, <1>3, ReplyOutcomeType DEF HandleReply
    <2> QED BY <2>1, <2>2, <1>2, <1>3 DEF HandleReply
  <1>4. ASSUME NEW c \in Calls, Poll(c) PROVE UNCHANGED <<op, outcome>> \/ Ends(c)
    <2>1. pc[c] # "settled" /\ UNCHANGED op
      BY <1>4 DEF Poll
    <2>2. CASE PollRefused(c)
      BY <2>1, <2>2, <1>1, <1>2 DEF PollRefused, Outcomes
    <2>3. CASE PollAnswered(c)
      BY <2>1, <2>3, <1>1 DEF PollAnswered, EnvelopeOutcome, Outcomes
    <2> QED BY <1>4, <2>2, <2>3 DEF Poll
  <1>5. ASSUME NEW c \in Calls, RequestTimeout(c) \/ PollTimeout(c) \/ Abort(c) PROVE Ends(c)
    BY <1>5, <1>1 DEF RequestTimeout, PollTimeout, Abort, Outcomes
  <1>6. ASSUME NEW c \in Calls, Resolve(c) \/ Dispatch(c) PROVE UNCHANGED <<op, outcome>> \/ Ends(c)
    BY <1>6, <1>1 DEF Resolve, Dispatch, Outcomes, Unsent
  <1>7. ASSUME NEW c \in Calls, Start(c) \/ DeadlinePasses(c) \/ Reject(c) \/ Refuse(c)
        PROVE  UNCHANGED <<op, outcome>>
    BY <1>7 DEF Start, DeadlinePasses, Reject, Refuse, callVars
  <1>8. ASSUME Stop \/ Serve \/ Publish \/ UNCHANGED vars PROVE UNCHANGED <<op, outcome>>
    BY <1>8 DEF Stop, Serve, Publish, vars, callVars
  <1> QED BY <1>3, <1>4, <1>5, <1>6, <1>7, <1>8 DEF Next, Environment, Executor, Progress, Finished

LEMMA ReportsOf ==
    ASSUME NEW r \in Outcomes
    PROVE  /\ r = "" => ReportOf(r) = "pending"
           /\ r = "completed" => ReportOf(r) = "completed"
           /\ r = "command-failed" => ReportOf(r) = "failed"
           /\ r \in Unsent => ReportOf(r) = "untouched"
           /\ r \notin Unsent \union {"", "completed", "command-failed"} => ReportOf(r) = "unknown"
  <1>1. "completed" \notin Unsent /\ "command-failed" \notin Unsent /\ "" \notin Unsent
    BY DEF Unsent
  <1> QED BY <1>1 DEF ReportOf

LEMMA StepImplements ==
    ASSUME TypeOK, ExecutorInv, RanInv, TypeOK', ExecutorInv', RanInv', [Next]_vars
    PROVE  [Promise!Next]_(Promise!vars)
  <1> DEFINE effect == [c \in Mutating |-> EffectOf(op[c])]
             report == [c \in Mutating |-> ReportOf(outcome[c])]
  <1>m. Mutating \subseteq Calls
    BY MutatingAssumption
  <1>1. CASE UNCHANGED <<op, outcome>>
    BY <1>1 DEF Promise!vars
  <1>2. ASSUME NEW c \in Calls, Admit(c) PROVE [Promise!Next]_(Promise!vars)
    <2>1. outcome' = outcome /\ wire[c] = "request"
      BY <1>2 DEF Admit, callVars
    <2>2. PICK st \in OpStates \ {"none"}, error \in BOOLEAN :
            op' = [op EXCEPT ![c] = [st |-> st, error |-> error, inst |-> desktop.inst]]
      BY <1>2 DEF Admit
    <2> DEFINE x == IF error THEN "FAILED" ELSE st
    <2>3. report' = report
      BY <2>1
    <2>4. CASE c \notin Mutating
      <3>1. effect' = effect
        BY <2>2, <2>4, <1>m DEF TypeOK
      <3> QED BY <2>3, <3>1 DEF Promise!vars
    <2>5. CASE c \in Mutating
      <3>1. effect[c] = "none"
        <4>1. runs[c] = 0
          BY <2>1, <2>5 DEF ExecutorInv, CallInv, OnceInv
        <4> QED BY <4>1, <2>5, <1>m DEF RanInv, EffectOf
      <3>2. effect' = [effect EXCEPT ![c] = x]
        BY <2>2, <2>5, <1>m DEF TypeOK, EffectOf
      <3>3. outcome[c] \in Outcomes \ (Unsent \union {"completed", "command-failed"})
        BY <2>1 DEF ExecutorInv, CallInv, WireInv, Quiet, TypeOK
      <3>4. report[c] \in {"pending", "unknown"}
        BY <2>5, <3>3, ReportsOf
      <3>5. x \in Promise!Effects \ {"none"}
        BY <2>2 DEF Promise!Effects, Promise!Ended, OpStates, Terminal
      <3> QED BY <2>3, <2>5, <3>1, <3>2, <3>4, <3>5 DEF Promise!Next, Promise!Run
    <2> QED BY <2>4, <2>5
  <1>3. ASSUME NEW c \in Calls, Finish(c) PROVE [Promise!Next]_(Promise!vars)
    <2>1. outcome' = outcome /\ op[c].st = "running"
      BY <1>3 DEF Finish, callVars
    <2>2. PICK st \in Terminal, found \in BOOLEAN :
            /\ st = "SUCCEEDED" /\ op[c].error => found
            /\ op' = [op EXCEPT ![c] = [st |-> st, error |-> found, inst |-> @.inst]]
      BY <1>3 DEF Finish
    <2>3. report' = report
      BY <2>1
    <2> DEFINE x == IF found THEN "FAILED" ELSE st
    <2>4. CASE c \notin Mutating
      <3>1. effect' = effect
        BY <2>2, <2>4, <1>m DEF TypeOK
      <3> QED BY <2>3, <3>1 DEF Promise!vars
    <2>5. CASE c \in Mutating
      <3>1. effect' = [effect EXCEPT ![c] = x]
        <4>1. \A d \in Mutating : EffectOf(op'[d]) = IF d = c THEN x ELSE EffectOf(op[d])
          BY <2>2, <1>m DEF TypeOK, EffectOf
        <4> QED BY <4>1
      <3>2. x \in Promise!Ended
        BY <2>2 DEF Promise!Ended, Terminal
      <3>3. CASE op[c].error
        <4>1. x = "FAILED" /\ effect[c] = "FAILED"
          BY <2>2, <2>5, <3>3 DEF Terminal, EffectOf
        <4>2. effect' = effect
          BY <3>1, <4>1
        <4> QED BY <2>3, <4>2 DEF Promise!vars
      <3>4. CASE ~op[c].error
        <4>1. effect[c] = "running"
          BY <2>1, <2>5, <3>4 DEF EffectOf
        <4> QED BY <2>3, <2>5, <3>1, <3>2, <4>1 DEF Promise!Next, Promise!Finish
      <3> QED BY <3>3, <3>4
    <2> QED BY <2>4, <2>5
  <1>4. ASSUME NEW c \in Calls, Ends(c) PROVE [Promise!Next]_(Promise!vars)
    <2>1. PICK r \in Outcomes : outcome' = [outcome EXCEPT ![c] = r]
      BY <1>4 DEF Ends
    <2>2. outcome[c] = "" /\ op' = op
      BY <1>4 DEF Ends
    <2>3. effect' = effect
      BY <2>2
    <2>4. CASE c \notin Mutating
      <3>1. report' = report
        BY <2>1, <2>4, <1>m DEF TypeOK
      <3> QED BY <2>3, <3>1 DEF Promise!vars
    <2>5. CASE c \in Mutating /\ r # ""
      <3>1. report' = [report EXCEPT ![c] = ReportOf(r)]
        BY <2>1, <2>5, <1>m DEF TypeOK
      <3>2. report[c] = "pending"
        BY <2>2, <2>5, ReportsOf DEF Outcomes
      <3>3. outcome'[c] = r /\ CallInv(c)'
        BY <2>1 DEF TypeOK, ExecutorInv
      <3>4. /\ r = "completed" => effect[c] = "SUCCEEDED"
            /\ r = "command-failed" => effect[c] = "FAILED"
        BY <2>2, <2>5, <3>3 DEF CallInv, TruthInv, Failed, EffectOf
      <3>5. r \in Unsent => effect[c] = "none"
        BY <2>2, <2>5, <3>3 DEF CallInv, OnceInv, RanInv, EffectOf
      <3>6. ReportOf(r) \in Promise!Justified(effect[c])
        BY <2>5, <3>4, <3>5, ReportsOf DEF Promise!Justified
      <3> QED BY <2>3, <2>5, <3>1, <3>2, <3>6 DEF Promise!Next, Promise!Report
    <2>6. CASE r = ""
      BY <2>1, <2>2, <2>6, <1>1 DEF TypeOK
    <2> QED BY <2>4, <2>5, <2>6
  <1> QED BY <1>1, <1>2, <1>3, <1>4, StepShapes

LEMMA InitImplements == Init => Promise!Init
  <1> SUFFICES ASSUME Init PROVE Promise!Init
    OBVIOUS
  <1>1. \A c \in Mutating : EffectOf(op[c]) = "none" /\ outcome[c] = ""
    BY MutatingAssumption DEF Init, EffectOf
  <1>2. ReportOf("") = "pending"
    BY ReportsOf DEF Outcomes
  <1> QED BY <1>1, <1>2 DEF Promise!Init

\* The executor with its HTTP client, Desktop's restarts, lagging discovery, lost replies
\* and timeouts implements a command that takes effect at most once and is reported
\* truthfully (what the tools rely on, DesktopCommand).
THEOREM Implementation == Spec => PromiseKept
  <1>1. Init => RanInv
    <2> SUFFICES ASSUME Init, NEW c \in Calls PROVE op[c].st = "none" /\ ~op[c].error
      BY DEF RanInv
    <2> QED BY DEF Init
  <1>2. Spec => []RanInv
    BY <1>1, NextRanInv, TypeCorrect, PTL DEF Spec
  <1> QED BY <1>2, ExecutorInvariant, InitImplements, StepImplements, PTL DEF Spec, PromiseKept, Promise!Spec

-----------------------------------------------------------------------------
(***************************************************************************)
(* PerSheetApply: an apply that lists the sheets and then posts, through   *)
(* an executor that other calls may retarget in between.  Each of its      *)
(* steps is a step of the executor, so what is proved above holds of it.   *)
(* The list is no command: it may run again after a rescan, in another     *)
(* instance than the first time.  What ties it to the post is that         *)
(* instances only come after one another: the list ran no earlier than in  *)
(* the instance the caller named, and the post is run only while that one  *)
(* is still the newest.                                                    *)
(***************************************************************************)

LEMMA ApplyStepIsStep == [ApplyNext]_allVars => [Next]_vars
  <1>1. Listing \in Calls /\ Posting \in Calls
    BY ListingAssumption, PostingAssumption, MutatingAssumption
  <1>2. Others => Next
    BY <1>1 DEF Others, Next, Executor
  <1>3. Begin => Next
    BY <1>1 DEF Begin, Next, Executor
  <1>4. ApplyPrepared => Next
    BY <1>1 DEF ApplyPrepared, Next, Executor
  <1>5. Prepare \/ GiveUpApply \/ ApplyFinished \/ UNCHANGED allVars => UNCHANGED vars
    BY DEF Prepare, GiveUpApply, ApplyFinished, allVars
  <1> QED BY <1>2, <1>3, <1>4, <1>5 DEF ApplyNext

LEMMA ApplyExecutorInv == ApplySpec => [](TypeOK /\ ExecutorInv /\ RanInv)
  <1>1. Init => RanInv
    <2> SUFFICES ASSUME Init, NEW c \in Calls PROVE op[c].st = "none" /\ ~op[c].error
      BY DEF RanInv
    <2> QED BY DEF Init
  <1>2. ApplyInit => TypeOK /\ ExecutorInv /\ RanInv
    BY <1>1, InitTypeOK, InitExecutorInv DEF ApplyInit
  <1>3. TypeOK /\ ExecutorInv /\ RanInv /\ [ApplyNext]_allVars
          => TypeOK' /\ ExecutorInv' /\ RanInv'
    BY ApplyStepIsStep, NextTypeOK, NextExecutorInv, NextRanInv
  <1> QED BY <1>2, <1>3, PTL DEF ApplySpec

\* Whatever Desktop serves is its newest instance; discovery and the executor's
\* client lag behind.  A request carries a record.
Lineage ==
    /\ desktop = NoRecord \/ desktop.inst = lastInst
    /\ file.inst <= lastInst
    /\ http.inst <= lastInst
    /\ \A c \in Calls :
         pc[c] \in {"dispatch", "sent", "poll"} \/ wire[c] = "request" => handle[c] # NoRecord

LEMMA InitLineage == Init => Lineage
  <1> SUFFICES ASSUME Init PROVE Lineage
    OBVIOUS
  <1>1. desktop.inst = 1 /\ file.inst = 1 /\ http.inst = 1 /\ lastInst = 1
    BY DEF Init
  <1>2. \A c \in Calls : pc[c] = "idle" /\ wire[c] = "empty"
    BY DEF Init
  <1> QED BY <1>1, <1>2 DEF Lineage

\* A call that sends or waits works with a client that was found.
LEMMA HandleStays ==
    ASSUME TypeOK, ExecutorInv, Lineage, [Next]_vars, NEW d \in Calls
    PROVE  pc'[d] \in {"dispatch", "sent", "poll"} \/ wire'[d] = "request" => handle'[d] # NoRecord
  <1> DEFINE Goal == pc'[d] \in {"dispatch", "sent", "poll"} \/ wire'[d] = "request"
                       => handle'[d] # NoRecord
  <1>0. pc[d] \in {"dispatch", "sent", "poll"} \/ wire[d] = "request" => handle[d] # NoRecord
    BY DEF Lineage
  <1>1. ASSUME UNCHANGED callVars, wire'[d] = wire[d] \/ wire'[d] # "request"
        PROVE  Goal
    BY <1>0, <1>1 DEF callVars
  <1>2. ASSUME handle'[d] = handle[d], wire'[d] = wire[d] \/ wire'[d] = "empty",
               pc'[d] = pc[d] \/ pc'[d] \in {"resolve", "settled"} \/ pc[d] = "sent"
        PROVE  Goal
    BY <1>0, <1>2
  <1>3. Stop \/ Serve \/ Publish \/ UNCHANGED vars => Goal
    BY <1>1 DEF Stop, Serve, Publish, vars
  <1>4. ASSUME NEW c \in Calls
        PROVE  /\ Reject(c) => Goal
               /\ Refuse(c) => Goal
               /\ Admit(c) => Goal
               /\ Finish(c) => Goal
    <2>1. Reject(c) => Goal
      BY <1>1 DEF Reject, TypeOK
    <2>2. Refuse(c) => Goal
      BY <1>1 DEF Refuse, TypeOK
    <2>3. Admit(c) => Goal
      BY <1>1 DEF Admit, TypeOK
    <2>4. Finish(c) => Goal
      BY <1>1 DEF Finish
    <2> QED BY <2>1, <2>2, <2>3, <2>4
  <1>5. ASSUME NEW c \in Calls, NEW r, Settle(c, r)
        PROVE  pc'[d] = pc[d] \/ pc'[d] = "settled"
    BY <1>5 DEF Settle, TypeOK
  <1>6. ASSUME NEW c \in Calls, Unauthorized(c)
        PROVE  pc'[d] = pc[d] \/ pc'[d] \in {"resolve", "settled"}
    BY <1>5, <1>6 DEF Unauthorized, TypeOK
  <1>7. ASSUME NEW c \in Calls
        PROVE  /\ Start(c) => Goal
               /\ Resolve(c) => Goal
               /\ Dispatch(c) => Goal
    <2>1. ASSUME Start(c) PROVE Goal
      <3>1. CASE d # c
        <4>1. handle'[d] = handle[d] /\ pc'[d] = pc[d] /\ wire' = wire
          BY <2>1, <3>1 DEF Start, TypeOK
        <4> QED BY <1>2, <4>1
      <3>2. CASE d = c
        <4>1. /\ pc[c] = "idle" /\ wire' = wire /\ handle'[c] = http
              /\ pc'[c] = IF http = NoRecord THEN "resolve" ELSE "dispatch"
          BY <2>1 DEF Start, TypeOK
        <4>2. wire[c] = "empty"
          BY <4>1 DEF ExecutorInv, CallInv, WireInv, Quiet
        <4> QED BY <3>2, <4>1, <4>2
      <3> QED BY <3>1, <3>2
    <2>2. ASSUME Resolve(c) PROVE Goal
      <3>1. CASE d # c
        BY <1>2, <2>2, <3>1 DEF Resolve, Settle, TypeOK
      <3>2. CASE d = c /\ file = NoRecord
        BY <1>2, <2>2, <3>2 DEF Resolve, Settle, TypeOK
      <3>3. CASE d = c /\ file # NoRecord
        BY <2>2, <3>3 DEF Resolve, TypeOK
      <3> QED BY <3>1, <3>2, <3>3
    <2>3. ASSUME Dispatch(c) PROVE Goal
      <3>1. CASE PinHolds(c)
        <4>1. /\ handle' = handle /\ pc[c] = "dispatch"
              /\ d # c => pc'[d] = pc[d] /\ wire'[d] = wire[d]
          BY <2>3, <3>1 DEF Dispatch, TypeOK
        <4> QED BY <1>0, <4>1
      <3>2. CASE ~PinHolds(c)
        <4>1. handle' = handle /\ wire' = wire /\ Settle(c, "instance-mismatch")
          BY <2>3, <3>2 DEF Dispatch
        <4> QED BY <1>2, <1>5, <4>1
      <3> QED BY <3>1, <3>2
    <2> QED BY <2>1, <2>2, <2>3
  <1>8. ASSUME NEW c \in Calls
        PROVE  /\ HandleReply(c) => Goal
               /\ RequestTimeout(c) => Goal
               /\ PollTimeout(c) => Goal
               /\ Poll(c) => Goal
               /\ DeadlinePasses(c) => Goal
               /\ Abort(c) => Goal
    <2>1. ASSUME HandleReply(c) PROVE Goal
      <3>1. /\ handle' = handle /\ pc[c] = "sent"
            /\ wire'[d] = wire[d] \/ wire'[d] = "empty"
        BY <2>1 DEF HandleReply, TypeOK
      <3>2. pc'[d] = pc[d] \/ pc'[d] \in {"resolve", "settled"} \/ pc[d] = "sent"
        <4>1. CASE d = c
          BY <3>1, <4>1
        <4>2. CASE d # c /\ wire[c] = "202"
          BY <2>1, <4>2 DEF HandleReply, TypeOK
        <4>3. CASE d # c /\ wire[c] # "202"
          BY <1>5, <1>6, <2>1, <4>3 DEF HandleReply
        <4> QED BY <4>1, <4>2, <4>3
      <3> QED BY <1>2, <3>1, <3>2
    <2>2. RequestTimeout(c) \/ PollTimeout(c) \/ Abort(c) => Goal
      BY <1>2, <1>5 DEF RequestTimeout, PollTimeout, Abort
    <2>3. ASSUME Poll(c) PROVE Goal
      <3>1. handle' = handle /\ wire' = wire
        BY <2>3 DEF Poll
      <3>2. pc'[d] = pc[d] \/ pc'[d] \in {"resolve", "settled"}
        BY <1>5, <1>6, <2>3 DEF Poll, PollRefused, PollAnswered
      <3> QED BY <1>2, <3>1, <3>2
    <2>4. DeadlinePasses(c) => Goal
      BY <1>2 DEF DeadlinePasses
    <2> QED BY <2>1, <2>2, <2>3, <2>4
  <1> QED BY <1>3, <1>4, <1>7, <1>8, NextCases

LEMMA NextLineage == TypeOK /\ ExecutorInv /\ Lineage /\ [Next]_vars => Lineage'
  <1> SUFFICES ASSUME TypeOK, ExecutorInv, Lineage, [Next]_vars PROVE Lineage'
    OBVIOUS
  <1> DEFINE Newest == /\ desktop' = NoRecord \/ desktop'.inst = lastInst'
                       /\ file'.inst <= lastInst'
                       /\ http'.inst <= lastInst'
  <1>0. /\ desktop = NoRecord \/ desktop.inst = lastInst
        /\ file.inst <= lastInst /\ http.inst <= lastInst
        /\ lastInst \in Nat /\ 0 <= lastInst
        /\ desktop \in Record /\ file \in Record /\ http \in Record
        /\ desktop.inst \in Nat /\ file.inst \in Nat /\ http.inst \in Nat
    BY MaxEpochAssumption DEF Lineage, TypeOK, Record
  <1>n. NoRecord.inst = 0
    BY DEF NoRecord
  <1>1. ASSUME UNCHANGED desktopVars, http' = http \/ http' = file \/ http' = NoRecord
        PROVE  Newest
    BY <1>0, <1>1, <1>n DEF desktopVars
  <1>2. Stop => Newest
    BY <1>0 DEF Stop
  <1>3. ASSUME Serve PROVE Newest
    <2>1. PICK i \in {lastInst, lastInst + 1} :
            lastInst' = i /\ desktop' = [epoch |-> epoch + 1, inst |-> i]
      BY <1>3 DEF Serve
    <2>2. lastInst <= i /\ file' = file /\ http' = http
      BY <1>0, <1>3 DEF Serve
    <2>3. desktop'.inst = lastInst'
      BY <2>1
    <2>4. file.inst <= i /\ http.inst <= i
      BY <1>0, <2>1
    <2> QED BY <2>1, <2>2, <2>3, <2>4
  <1>4. Publish => Newest
    BY <1>0, <1>n DEF Publish
  <1>5. ASSUME NEW c \in Calls
        PROVE  /\ Reject(c) => Newest
               /\ Refuse(c) => Newest
               /\ Admit(c) => Newest
               /\ Finish(c) => Newest
               /\ Start(c) => Newest
               /\ Resolve(c) => Newest
               /\ Dispatch(c) => Newest
               /\ HandleReply(c) => Newest
               /\ RequestTimeout(c) => Newest
               /\ PollTimeout(c) => Newest
               /\ Poll(c) => Newest
               /\ DeadlinePasses(c) => Newest
               /\ Abort(c) => Newest
    <2>1. Unauthorized(c) => http' = http \/ http' = NoRecord
      BY DEF Unauthorized
    <2>2. HandleReply(c) => Newest
      BY <1>1, <2>1 DEF HandleReply
    <2>3. Poll(c) => Newest
      BY <1>1, <2>1 DEF Poll, PollRefused, PollAnswered
    <2> QED
      BY <1>1, <2>2, <2>3
         DEF Reject, Refuse, Admit, Finish, Start, Resolve, Dispatch, RequestTimeout, PollTimeout,
             DeadlinePasses, Abort
  <1>6. UNCHANGED vars => Newest
    BY <1>1 DEF vars
  <1>7. Newest
    BY <1>2, <1>3, <1>4, <1>5, <1>6, NextCases
  <1> HIDE DEF Newest
  <1>8. \A c \in Calls : pc'[c] \in {"dispatch", "sent", "poll"} \/ wire'[c] = "request"
                           => handle'[c] # NoRecord
    BY HandleStays
  <1> QED BY <1>7, <1>8 DEF Lineage, Newest

\* What a step does about the runs of a call: it starts none, or Desktop starts one in its
\* newest instance, of a request in transit.
Reruns(d) ==
    \/ runs'[d] = runs[d] /\ op'[d].inst = op[d].inst
    \/ /\ wire[d] = "request" /\ op'[d].inst = lastInst /\ lastInst' = lastInst
       /\ runs'[d] = runs[d] + 1 /\ handle[d] = desktop
       /\ pc' = pc /\ pin' = pin /\ outcome' = outcome

LEMMA NextReruns ==
    ASSUME TypeOK, Lineage, [Next]_vars, NEW d \in Calls
    PROVE  Reruns(d) /\ lastInst <= lastInst'
  <1>0. lastInst \in Nat
    BY MaxEpochAssumption DEF TypeOK
  <1>1. Serve => Reruns(d) /\ lastInst <= lastInst'
    BY <1>0 DEF Serve, Reruns
  <1>2. UNCHANGED <<lastInst, op, runs>> => Reruns(d) /\ lastInst <= lastInst'
    BY <1>0 DEF Reruns
  <1>3. ASSUME NEW c \in Calls, Admit(c) PROVE Reruns(d) /\ lastInst <= lastInst'
    <2>1. PICK x \in OpStates \ {"none"}, error \in BOOLEAN :
            op' = [op EXCEPT ![c] = [st |-> x, error |-> error, inst |-> desktop.inst]]
      BY <1>3 DEF Admit
    <2>2. /\ runs' = [runs EXCEPT ![c] = @ + 1] /\ wire[c] = "request" /\ handle[c] = desktop
          /\ UNCHANGED <<lastInst, pc, pin, outcome>>
      BY <1>3 DEF Admit, desktopVars, callVars
    <2>3. CASE d # c
      <3>1. runs'[d] = runs[d] /\ op'[d].inst = op[d].inst
        BY <2>1, <2>2, <2>3 DEF TypeOK
      <3> QED BY <1>0, <2>2, <3>1 DEF Reruns
    <2>4. CASE d = c
      <3>1. desktop.inst = lastInst
        BY <2>2 DEF Lineage
      <3>2. runs'[d] = runs[d] + 1 /\ op'[d].inst = desktop.inst
        BY <2>1, <2>2, <2>4 DEF TypeOK
      <3> QED BY <1>0, <2>2, <2>4, <3>1, <3>2 DEF Reruns
    <2> QED BY <2>3, <2>4
  <1>4. ASSUME NEW c \in Calls, Finish(c) PROVE Reruns(d) /\ lastInst <= lastInst'
    <2>1. PICK x \in Terminal, found \in BOOLEAN :
            op' = [op EXCEPT ![c] = [st |-> x, error |-> found, inst |-> @.inst]]
      BY <1>4 DEF Finish
    <2>2. op'[d].inst = op[d].inst
      BY <2>1 DEF TypeOK
    <2> QED BY <1>0, <1>4, <2>2 DEF Finish, desktopVars, Reruns
  <1> QED
    BY <1>1, <1>2, <1>3, <1>4, NextCases
       DEF Stop, Publish, Reject, Refuse, Start, Resolve, Dispatch, HandleReply, RequestTimeout,
           PollTimeout, Poll, DeadlinePasses, Abort, vars, desktopVars

\* A call that returned has returned for good.
LEMMA SettledStays ==
    ASSUME TypeOK, ExecutorInv, [Next]_vars, NEW d \in Calls, outcome[d] # ""
    PROVE  pc'[d] = pc[d] /\ pin'[d] = pin[d] /\ outcome'[d] = outcome[d]
  <1> DEFINE Goal == pc'[d] = pc[d] /\ pin'[d] = pin[d] /\ outcome'[d] = outcome[d]
  <1>0. pc[d] = "settled"
    BY DEF ExecutorInv, CallInv, WireInv
  <1>1. ASSUME NEW c \in Calls, NEW r, Settle(c, r), c # d
        PROVE  pc'[d] = pc[d] /\ outcome'[d] = outcome[d]
    BY <1>1 DEF Settle, TypeOK
  <1>2. ASSUME NEW c \in Calls, Unauthorized(c), c # d
        PROVE  pc'[d] = pc[d] /\ outcome'[d] = outcome[d]
    BY <1>1, <1>2 DEF Unauthorized, TypeOK
  <1>3. Stop \/ Serve \/ Publish \/ UNCHANGED vars => Goal
    BY DEF Stop, Serve, Publish, vars, callVars
  <1>4. ASSUME NEW c \in Calls
        PROVE  /\ Reject(c) => Goal
               /\ Refuse(c) => Goal
               /\ Admit(c) => Goal
               /\ Finish(c) => Goal
    BY DEF Reject, Refuse, Admit, Finish, callVars
  <1>5. ASSUME NEW c \in Calls
        PROVE  /\ Start(c) => Goal
               /\ Resolve(c) => Goal
               /\ Dispatch(c) => Goal
               /\ HandleReply(c) => Goal
    <2>1. ASSUME Start(c) PROVE Goal
      <3>1. PICK p : pin' = [pin EXCEPT ![c] = p]
        BY <2>1 DEF Start
      <3>2. c # d
        BY <1>0, <2>1 DEF Start
      <3> QED BY <2>1, <3>1, <3>2 DEF Start, TypeOK
    <2>2. ASSUME Resolve(c) PROVE Goal
      <3>1. c # d
        BY <1>0, <2>2 DEF Resolve
      <3> QED BY <1>1, <2>2, <3>1 DEF Resolve, TypeOK
    <2>3. ASSUME Dispatch(c) PROVE Goal
      <3>1. c # d
        BY <1>0, <2>3 DEF Dispatch
      <3> QED BY <1>1, <2>3, <3>1 DEF Dispatch, TypeOK
    <2>4. ASSUME HandleReply(c) PROVE Goal
      <3>1. c # d /\ pin' = pin
        BY <1>0, <2>4 DEF HandleReply
      <3>2. CASE wire[c] = "202"
        BY <2>4, <3>1, <3>2 DEF HandleReply, TypeOK
      <3>3. CASE wire[c] # "202"
        BY <1>1, <1>2, <2>4, <3>1, <3>3 DEF HandleReply
      <3> QED BY <3>2, <3>3
    <2> QED BY <2>1, <2>2, <2>3, <2>4
  <1>6. ASSUME NEW c \in Calls
        PROVE  /\ RequestTimeout(c) => Goal
               /\ PollTimeout(c) => Goal
               /\ Poll(c) => Goal
               /\ DeadlinePasses(c) => Goal
               /\ Abort(c) => Goal
    <2>1. DeadlinePasses(c) => Goal
      BY DEF DeadlinePasses
    <2>2. ASSUME RequestTimeout(c) \/ PollTimeout(c) \/ Poll(c) \/ Abort(c) PROVE Goal
      <3>1. c # d /\ pin' = pin
        BY <1>0, <2>2 DEF RequestTimeout, PollTimeout, Poll, Abort
      <3> QED
        BY <1>1, <1>2, <2>2, <3>1
           DEF RequestTimeout, PollTimeout, Poll, PollRefused, PollAnswered, Abort
    <2> QED BY <2>1, <2>2
  <1> QED BY <1>3, <1>4, <1>5, <1>6, NextCases

\* The steps of others neither start nor pin the two calls of the apply.
LEMMA OthersLeave ==
    ASSUME TypeOK, Others, NEW d \in {Listing, Posting}
    PROVE  pin'[d] = pin[d] /\ (pc'[d] = "idle" <=> pc[d] = "idle")
  <1> DEFINE Goal == pin'[d] = pin[d] /\ (pc'[d] = "idle" <=> pc[d] = "idle")
  <1>d. d \in Calls
    BY ListingAssumption, PostingAssumption, MutatingAssumption
  <1>1. Environment => Goal
    BY DEF Environment, Stop, Serve, Publish, Reject, Refuse, Admit, Finish, callVars
  <1>2. ASSUME NEW c \in Calls \ {Listing, Posting}, Start(c) PROVE Goal
    <2>1. c # d /\ pc'[d] = pc[d]
      BY <1>2, <1>d DEF Start, TypeOK
    <2>2. PICK p : pin' = [pin EXCEPT ![c] = p]
      BY <1>2 DEF Start
    <2> QED BY <1>d, <2>1, <2>2 DEF TypeOK
  <1>3. ASSUME NEW c \in Calls, NEW r, Settle(c, r), pc[c] # "idle"
        PROVE  pc'[d] = "idle" <=> pc[d] = "idle"
    BY <1>3, <1>d DEF Settle, TypeOK
  <1>4. ASSUME NEW c \in Calls, Unauthorized(c), pc[c] # "idle"
        PROVE  pc'[d] = "idle" <=> pc[d] = "idle"
    BY <1>3, <1>4, <1>d DEF Unauthorized, TypeOK
  <1>5. ASSUME NEW c \in Calls, Progress(c) PROVE Goal
    <2>1. ASSUME Resolve(c) PROVE Goal
      BY <1>3, <1>d, <2>1 DEF Resolve, TypeOK
    <2>2. ASSUME Dispatch(c) PROVE Goal
      BY <1>3, <1>d, <2>2 DEF Dispatch, TypeOK
    <2>3. ASSUME HandleReply(c) PROVE Goal
      <3>1. pc[c] # "idle" /\ pin' = pin
        BY <2>3 DEF HandleReply
      <3>2. CASE wire[c] = "202"
        BY <1>d, <2>3, <3>1, <3>2 DEF HandleReply, TypeOK
      <3>3. CASE wire[c] # "202"
        BY <1>3, <1>4, <2>3, <3>1, <3>3 DEF HandleReply
      <3> QED BY <3>2, <3>3
    <2>4. RequestTimeout(c) \/ PollTimeout(c) => Goal
      BY <1>3 DEF RequestTimeout, PollTimeout
    <2> QED BY <1>5, <2>1, <2>2, <2>3, <2>4 DEF Progress
  <1>6. ASSUME NEW c \in Calls, Poll(c) PROVE Goal
    BY <1>3, <1>4, <1>6 DEF Poll, PollRefused, PollAnswered
  <1>7. ASSUME NEW c \in Calls, DeadlinePasses(c) \/ Abort(c) PROVE Goal
    BY <1>3, <1>7 DEF DeadlinePasses, Abort
  <1> QED BY <1>1, <1>2, <1>5, <1>6, <1>7 DEF Others

\* The document is posted after the list came back complete, and pinned to the instance the
\* caller named; the list ran in that one or in a later one.
ApplyInv ==
    /\ callerPin \in Nat /\ callerPin <= lastInst
    /\ step = "idle" => pc[Listing] = "idle"
    /\ step # "posting" => pc[Posting] = "idle"
    /\ step \in {"prepared", "posting"} =>
         /\ outcome[Listing] = "completed"
         /\ callerPin # 0 => prepared = callerPin
    /\ step = "posting" => pin[Posting] = prepared
    /\ pc[Listing] = "idle" => runs[Listing] = 0
    /\ runs[Listing] > 0 => callerPin <= op[Listing].inst /\ op[Listing].inst <= lastInst
    /\ callerPin # 0 /\ runs[Posting] > 0 => op[Listing].inst = callerPin

LEMMA InitApplyInv == ApplyInit => ApplyInv
  <1> SUFFICES ASSUME ApplyInit PROVE ApplyInv
    OBVIOUS
  <1>1. Listing \in Calls /\ Posting \in Calls
    BY ListingAssumption, PostingAssumption, MutatingAssumption
  <1>2. /\ pc[Listing] = "idle" /\ pc[Posting] = "idle" /\ runs[Listing] = 0 /\ runs[Posting] = 0
        /\ lastInst = 1
    BY <1>1 DEF ApplyInit, Init
  <1>3. step = "idle" /\ callerPin = 0
    BY DEF ApplyInit
  <1> QED BY <1>2, <1>3 DEF ApplyInv

LEMMA OthersApplyInv ==
    ASSUME TypeOK, ExecutorInv, RanInv, Lineage, ApplyInv, Others,
           [Next]_vars, TypeOK', ExecutorInv'
    PROVE  ApplyInv'
  <1>0. /\ Listing \in Calls /\ Posting \in Calls /\ Posting \in Mutating /\ Listing # Posting
    BY ListingAssumption, PostingAssumption, MutatingAssumption
  <1>1. step' = step /\ callerPin' = callerPin /\ prepared' = prepared
    BY DEF Others, applyVars
  <1>2. /\ lastInst \in Nat /\ lastInst' \in Nat /\ callerPin \in Nat /\ callerPin <= lastInst
        /\ runs[Listing] \in Nat /\ runs'[Listing] \in Nat
        /\ op[Listing].inst \in Nat
    BY <1>0, MaxEpochAssumption DEF TypeOK, ApplyInv
  <1>3. lastInst <= lastInst' /\ Reruns(Listing) /\ Reruns(Posting)
    BY <1>0, NextReruns
  <1>4. /\ pc'[Listing] = "idle" <=> pc[Listing] = "idle"
        /\ pc'[Posting] = "idle" <=> pc[Posting] = "idle"
        /\ pin'[Posting] = pin[Posting]
    BY OthersLeave
  <1>5. callerPin' \in Nat /\ callerPin' <= lastInst'
    BY <1>1, <1>2, <1>3
  <1>6. /\ step' = "idle" => pc'[Listing] = "idle"
        /\ step' # "posting" => pc'[Posting] = "idle"
        /\ step' = "posting" => pin'[Posting] = prepared'
    BY <1>1, <1>4 DEF ApplyInv
  <1>7. ASSUME step' \in {"prepared", "posting"}
        PROVE  /\ outcome[Listing] = "completed"
               /\ outcome'[Listing] = "completed"
               /\ callerPin' # 0 => prepared' = callerPin'
    <2>1. outcome[Listing] = "completed" /\ (callerPin # 0 => prepared = callerPin)
      BY <1>1, <1>7 DEF ApplyInv
    <2>2. outcome'[Listing] = outcome[Listing]
      BY <1>0, <2>1, SettledStays
    <2> QED BY <1>1, <2>1, <2>2
  <1>8. wire[Listing] = "empty" => runs'[Listing] = runs[Listing] /\ op'[Listing].inst = op[Listing].inst
    BY <1>3 DEF Reruns
  <1>9. /\ pc[Listing] = "idle" => wire[Listing] = "empty"
        /\ outcome[Listing] = "completed" => wire[Listing] = "empty"
    BY <1>0 DEF ExecutorInv, CallInv, WireInv, Quiet
  <1>10. pc'[Listing] = "idle" => runs'[Listing] = 0
    BY <1>4, <1>8, <1>9 DEF ApplyInv
  <1>11. ASSUME runs'[Listing] > 0
         PROVE  callerPin' <= op'[Listing].inst /\ op'[Listing].inst <= lastInst'
    <2>1. CASE runs'[Listing] = runs[Listing] /\ op'[Listing].inst = op[Listing].inst
      <3>1. callerPin <= op[Listing].inst /\ op[Listing].inst <= lastInst
        BY <1>11, <2>1 DEF ApplyInv
      <3> QED BY <1>1, <1>2, <1>3, <2>1, <3>1
    <2>2. CASE op'[Listing].inst = lastInst
      BY <1>1, <1>2, <1>3, <2>2
    <2> QED BY <1>3, <2>1, <2>2 DEF Reruns
  <1>12. ASSUME callerPin' # 0, runs'[Posting] > 0
         PROVE  op'[Listing].inst = callerPin'
    <2>1. pc'[Posting] # "idle"
      <3>1. runs'[Posting] # 0
        BY <1>12
      <3> QED BY <1>0, <3>1 DEF ExecutorInv, CallInv, OnceInv
    <2>2. step = "posting"
      BY <1>4, <2>1 DEF ApplyInv
    <2>3. /\ outcome[Listing] = "completed" /\ prepared = callerPin /\ pin[Posting] = prepared
          /\ op'[Listing].inst = op[Listing].inst
      BY <1>1, <1>8, <1>9, <1>12, <2>2 DEF ApplyInv
    <2>4. CASE runs'[Posting] = runs[Posting]
      BY <1>1, <1>12, <2>3, <2>4 DEF ApplyInv
    <2>5. CASE /\ wire[Posting] = "request" /\ handle[Posting] = desktop
               /\ op'[Posting].inst = lastInst
      <3>1. runs'[Posting] = 1
        <4>1. runs'[Posting] \in {0, 1}
          BY <1>0 DEF ExecutorInv, CallInv, OnceInv
        <4> QED BY <1>12, <4>1
      <3>2. pin'[Posting] # 0 => op'[Posting].inst = pin'[Posting]
        BY <1>0, <3>1 DEF ExecutorInv, CallInv, OnceInv
      <3>3. lastInst = callerPin
        BY <1>1, <1>4, <1>12, <2>3, <2>5, <3>2
      <3>4. runs[Listing] # 0
        <4>1. op[Listing].st = "SUCCEEDED"
          BY <1>0, <2>3 DEF ExecutorInv, CallInv, TruthInv
        <4> QED BY <1>0, <4>1 DEF RanInv
      <3>5. callerPin <= op[Listing].inst /\ op[Listing].inst <= lastInst
        BY <1>2, <3>4 DEF ApplyInv
      <3> QED BY <1>1, <1>2, <2>3, <3>3, <3>5
    <2> QED BY <1>3, <2>4, <2>5 DEF Reruns
  <1> QED BY <1>5, <1>6, <1>7, <1>10, <1>11, <1>12 DEF ApplyInv

LEMMA NextApplyInv ==
    ASSUME TypeOK, ExecutorInv, RanInv, Lineage, ApplyInv, [ApplyNext]_allVars,
           TypeOK', ExecutorInv'
    PROVE  ApplyInv'
  <1>0. /\ Listing \in Calls /\ Posting \in Calls /\ Posting \in Mutating /\ Listing # Posting
    BY ListingAssumption, PostingAssumption, MutatingAssumption
  <1>1. ASSUME Begin PROVE ApplyInv'
    <2>1. /\ step = "idle" /\ step' = "listing" /\ Start(Listing) /\ prepared' = prepared
          /\ callerPin' = 0 \/ callerPin' = http.inst
      BY <1>1 DEF Begin
    <2>2. /\ pc[Listing] = "idle" /\ pc[Posting] = "idle" /\ runs[Listing] = 0 /\ runs[Posting] = 0
      <3>1. pc[Listing] = "idle" /\ pc[Posting] = "idle" /\ runs[Listing] = 0
        BY <2>1 DEF ApplyInv
      <3>2. runs[Posting] = 0
        BY <1>0, <3>1 DEF ExecutorInv, CallInv, OnceInv
      <3> QED BY <3>1, <3>2
    <2>3. lastInst' = lastInst /\ runs' = runs /\ pc'[Posting] = pc[Posting]
      BY <1>0, <2>1 DEF Start, desktopVars, TypeOK
    <2>4. callerPin' \in Nat /\ callerPin' <= lastInst
      <3>1. lastInst \in Nat /\ http.inst \in Nat /\ 0 <= lastInst /\ http.inst <= lastInst
        BY MaxEpochAssumption DEF TypeOK, Record, Lineage
      <3> QED BY <2>1, <3>1
    <2> QED BY <2>1, <2>2, <2>3, <2>4 DEF ApplyInv
  <1>2. ASSUME Prepare PROVE ApplyInv'
    <2>1. /\ step = "listing" /\ step' = "prepared" /\ outcome[Listing] = "completed"
          /\ prepared' = InstanceToPin /\ callerPin' = callerPin
          /\ UNCHANGED <<lastInst, pc, outcome, pin, runs, op>>
      BY <1>2 DEF Prepare, vars, desktopVars, callVars
    <2>2. callerPin # 0 => prepared' = callerPin
      BY <2>1 DEF InstanceToPin
    <2> QED BY <2>1, <2>2 DEF ApplyInv
  <1>3. ASSUME GiveUpApply PROVE ApplyInv'
    <2>1. /\ step # "posting" /\ step' = "refused" /\ callerPin' = callerPin /\ prepared' = prepared
          /\ UNCHANGED <<lastInst, pc, outcome, pin, runs, op>>
      BY <1>3 DEF GiveUpApply, vars, desktopVars, callVars
    <2> QED BY <2>1 DEF ApplyInv
  <1>4. ASSUME ApplyPrepared PROVE ApplyInv'
    <2>1. /\ step = "prepared" /\ step' = "posting" /\ Start(Posting) /\ pin'[Posting] = prepared
          /\ callerPin' = callerPin /\ prepared' = prepared
      BY <1>4 DEF ApplyPrepared
    <2>2. /\ UNCHANGED <<lastInst, runs, op, outcome>> /\ pc'[Listing] = pc[Listing]
      BY <1>0, <2>1 DEF Start, desktopVars, TypeOK
    <2> QED BY <2>1, <2>2 DEF ApplyInv
  <1>5. ASSUME UNCHANGED allVars PROVE ApplyInv'
    BY <1>5 DEF allVars, applyVars, vars, desktopVars, callVars, ApplyInv
  <1>6. ASSUME Others PROVE ApplyInv'
    <2>1. [Next]_vars
      BY ApplyStepIsStep
    <2> QED BY <1>6, <2>1, OthersApplyInv
  <1> QED BY <1>1, <1>2, <1>3, <1>4, <1>5, <1>6 DEF ApplyNext, ApplyFinished

LEMMA ApplyInvImplies ==
    ASSUME TypeOK, ExecutorInv, ApplyInv
    PROVE  NamedInstanceServesBoth
  <1> SUFFICES ASSUME callerPin # 0, runs[Posting] > 0
               PROVE  op[Posting].inst = callerPin /\ op[Listing].inst = callerPin
    BY DEF NamedInstanceServesBoth
  <1>0. Posting \in Calls /\ Posting \in Mutating
    BY PostingAssumption, MutatingAssumption
  <1>1. runs[Posting] = 1 /\ pc[Posting] # "idle"
    <2>1. runs[Posting] \in {0, 1} /\ (pc[Posting] = "idle" => runs[Posting] = 0)
      BY <1>0 DEF ExecutorInv, CallInv, OnceInv
    <2> QED BY <2>1
  <1>2. pin[Posting] = callerPin
    BY <1>1 DEF ApplyInv
  <1>3. op[Posting].inst = callerPin
    BY <1>0, <1>1, <1>2 DEF ExecutorInv, CallInv, OnceInv
  <1> QED BY <1>3 DEF ApplyInv

\* A document whose caller names an instance lands there or nowhere, and the list that
\* resolved its target was served there too (loadWorksheetXml, loadDashboardXml).
THEOREM NamedInstanceHonoured == ApplySpec => []NamedInstanceServesBoth
  <1>1. ApplyInit => Lineage
    BY InitLineage DEF ApplyInit
  <1>2. TypeOK /\ ExecutorInv /\ RanInv /\ Lineage /\ [ApplyNext]_allVars => Lineage'
    BY ApplyStepIsStep, NextLineage
  <1>3. TypeOK /\ ExecutorInv /\ RanInv /\ Lineage /\ ApplyInv /\ [ApplyNext]_allVars
          /\ TypeOK' /\ ExecutorInv' => ApplyInv'
    BY NextApplyInv
  <1>4. TypeOK /\ ExecutorInv /\ ApplyInv => NamedInstanceServesBoth
    BY ApplyInvImplies
  <1> QED BY <1>1, <1>2, <1>3, <1>4, ApplyExecutorInv, InitApplyInv, PTL DEF ApplySpec
=============================================================================
