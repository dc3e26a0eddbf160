--------------------------- MODULE PerSheetApply ---------------------------
(***************************************************************************)
(* One apply through the per-sheet document route, composed with the       *)
(* executor it shares with other calls.  The apply first lists the sheets  *)
(* to resolve its target and then posts the document.  Between the two the *)
(* executor may have replaced its client on behalf of another call, so the *)
(* post is pinned to an instance: the one the caller named, or else the    *)
(* one the client is bound to when the list has returned.                  *)
(***************************************************************************)
EXTENDS ExternalApiExecutor

CONSTANTS
    Listing,      \* the call that lists the sheets
    Posting,      \* the call that posts the document
    CallerPins    \* whether the caller passes expectedInstanceId

ASSUME ListingAssumption == Listing \in Calls \ Mutating
ASSUME PostingAssumption == Posting \in Mutating
ASSUME CallerPinsAssumption == CallerPins \in BOOLEAN

VARIABLES
    step,         \* where the apply is: "idle", "listing", "prepared", "posting" or "refused"
    callerPin,    \* the caller's expectedInstanceId, 0 for undefined
    prepared      \* the prepared expectedInstanceId

applyVars == <<step, callerPin, prepared>>
allVars == <<vars, applyVars>>

ApplyInit ==
    /\ Init
    /\ step = "idle"
    /\ callerPin = 0
    /\ prepared = 0

\* loadWorksheetXml reads executor.desktopInstanceId and, in the same turn of
\* the event loop, starts the list.  Other callers name no instance.
Begin ==
    /\ step = "idle"
    /\ step' = "listing"
    /\ callerPin' = IF CallerPins THEN http.inst ELSE 0
    /\ Start(Listing)
    /\ UNCHANGED prepared

\* Mutant: the client's instance replaces the one the caller named.
InstanceToPinNow == http.inst

\* expectedInstanceId ?? client.desktopInstanceId
InstanceToPin == IF callerPin # 0 THEN callerPin ELSE http.inst

Prepare ==
    /\ step = "listing"
    /\ outcome[Listing] = "completed"
    /\ prepared' = InstanceToPin
    /\ step' = "prepared"
    /\ UNCHANGED <<vars, callerPin>>

\* The list failed, or the target is absent, drifted, invalid or renamed.
GiveUpApply ==
    /\ \/ step = "listing" /\ outcome[Listing] # ""
       \/ step = "prepared"
    /\ step' = "refused"
    /\ UNCHANGED <<vars, callerPin, prepared>>

ApplyPrepared ==
    /\ step = "prepared"
    /\ step' = "posting"
    /\ Start(Posting)
    /\ pin'[Posting] = prepared
    /\ UNCHANGED <<callerPin, prepared>>

\* Desktop, the calls under way, and the calls of other tools.
Others ==
    /\ \/ Environment
       \/ \E c \in Calls : Progress(c) \/ Poll(c) \/ DeadlinePasses(c) \/ Abort(c)
       \/ \E c \in Calls \ {Listing, Posting} : Start(c)
    /\ UNCHANGED applyVars

ApplyFinished == step \in {"posting", "refused"} /\ UNCHANGED allVars

ApplyNext == Begin \/ Prepare \/ GiveUpApply \/ ApplyPrepared \/ Others \/ ApplyFinished

ApplySpec == ApplyInit /\ [][ApplyNext]_allVars
ApplyFairSpec == ApplySpec /\ Fairness

-----------------------------------------------------------------------------
\* Properties.

\* When the caller names an instance, a document lands only there, and the list
\* that resolved its target was served there too, whatever the list and the
\* post were rescanned to.
NamedInstanceServesBoth ==
    callerPin # 0 /\ runs[Posting] > 0
      => op[Posting].inst = callerPin /\ op[Listing].inst = callerPin
=============================================================================
