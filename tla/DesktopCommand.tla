--------------------------- MODULE DesktopCommand ---------------------------
(***************************************************************************)
(* What the executor of the External Client API promises about a command   *)
(* that changes the workbook: the command takes effect in Tableau Desktop  *)
(* at most once, and the report handed to the tool never says more than    *)
(* what Desktop did.  Nothing here knows of tokens, discovery files,       *)
(* HTTP statuses or polling; ExternalApiExecutor implements this module.   *)
(***************************************************************************)

CONSTANT Commands      \* the mutating tool calls

VARIABLES
    effect,            \* effect[c]: what Desktop did with command c
    report             \* report[c]: what the tool was told about command c

vars == <<effect, report>>

Ended == {"SUCCEEDED", "FAILED"}

Effects == {"none", "running"} \union Ended

\* "untouched" promises that Desktop did not and will not run the command;
\* "unknown" promises nothing.
Reports == {"pending", "completed", "failed", "untouched", "unknown"}

Init ==
    /\ effect = [c \in Commands |-> "none"]
    /\ report = [c \in Commands |-> "pending"]

\* Desktop starts the command.  It may do so after the tool gave up waiting,
\* never after the tool was told that the command was not sent.
Run(c) ==
    /\ effect[c] = "none"
    /\ report[c] \in {"pending", "unknown"}
    /\ \E e \in Effects \ {"none"} : effect' = [effect EXCEPT ![c] = e]
    /\ UNCHANGED report

Finish(c) ==
    /\ effect[c] = "running"
    /\ \E e \in Ended : effect' = [effect EXCEPT ![c] = e]
    /\ UNCHANGED report

\* Reports that the effect of the command justifies.
Justified(e) ==
    {"unknown"}
        \union (IF e = "SUCCEEDED" THEN {"completed"} ELSE {})
        \union (IF e = "FAILED" THEN {"failed"} ELSE {})
        \union (IF e = "none" THEN {"untouched"} ELSE {})

Report(c) ==
    /\ report[c] = "pending"
    /\ \E r \in Justified(effect[c]) : report' = [report EXCEPT ![c] = r]
    /\ UNCHANGED effect

Next == \E c \in Commands : Run(c) \/ Finish(c) \/ Report(c)

Spec == Init /\ [][Next]_vars
=============================================================================
