------------------------------ MODULE EditBuffer ------------------------------
(***************************************************************************)
(* Edits of a worksheet that wait in a cache file until they are applied.  *)
(* add-field and remove-field take a worksheet by name: the first such     *)
(* call reads the sheet into a new file and opens a buffer, a pointer from *)
(* the sheet's id to that file, and the following ones edit the same file. *)
(* get-worksheet-xml and a successful apply-worksheet close the buffer.    *)
(* Beside a file stands a sidecar with the Desktop instance and the hash   *)
(* of the sheet as it was read; the instance must be the one that serves   *)
(* now, and an apply compares the hash with the live sheet.                *)
(*                                                                         *)
(* Pointers, files and sidecars outlive the server.  A call runs from      *)
(* await to await, and calls interleave there; what it does between two    *)
(* awaits is one step, the list and the document of one read included.     *)
(* One session: its id names the process of Desktop, which may start to    *)
(* serve anew as another instance.                                         *)
(***************************************************************************)
EXTENDS Naturals, FiniteSets, Functions

CONSTANTS
    Edits,        \* calls of add-field and remove-field
    Waits,        \* add-field without workbookFile: it reads the workbook in between
    Reads,        \* calls of get-worksheet-xml
    Applies,      \* calls of apply-worksheet with a file
    Sheets,       \* worksheet ids
    Names,
    Given,        \* the arguments each edit may have
    MaxInstances, \* bound: how often Desktop starts to serve
    MaxChanges,   \* bound: the user's changes of the workbook
    None

Calls == Edits \cup Reads \cup Applies

\* A file is named for the call that made it.
Files == Edits \cup Reads

Arguments == [name : Names \cup {None}, file : Files \cup {None}]

ASSUME CallsAssumption ==
    /\ Waits \subseteq Edits
    /\ Edits \cap Reads = {} /\ Edits \cap Applies = {} /\ Reads \cap Applies = {}
    /\ None \notin Calls \cup Sheets \cup Names
ASSUME GivenAssumption == Given \in [Edits -> SUBSET Arguments]
ASSUME NamesAssumption == \E name \in [Sheets -> Names] : IsInjective(name)
ASSUME BoundsAssumption == MaxInstances \in Nat \ {0} /\ MaxChanges \in Nat

VARIABLES
    instance, \* the instance Desktop serves as
    listed,   \* whether the discovery files list it
    live,     \* the worksheets in Desktop
    changes,  \* how often the user changed the workbook
    text,     \* the cache files
    sidecar,  \* their sidecars
    pointer,  \* the open buffers
    pc,       \* where a call is
    arg,      \* the name and the file a call was given
    id,       \* the worksheet id an edit resolved its name to
    file,     \* the file it edits
    hold,     \* what an apply sends, or what an edit read before its await
    hash,     \* expectedSourceHash
    lock,     \* the apply lock
    inflight, \* the instance that may still carry out an apply's POST, or 0
    crowded,  \* history: calls under way beside which something else happened
    answered, \* history: edits answered as done in a file no other edit was about to write
    due,      \* history: edits answered as done to a sheet by its name, or to its open buffer
    astray,   \* history: sheets whose edits are not behind a pointer that was written and read
    raced,    \* history: applies whose sheet was changed while their POST was on its way
    undone    \* history: applies that replaced what their file was not made from

desktop == <<instance, listed, live, changes>>
cache == <<text, sidecar, pointer>>
local == <<pc, arg, id, file, hold, hash>>
applying == <<lock, inflight>>
history == <<crowded, answered, due, astray, raced, undone>>
vars == <<desktop, cache, local, applying, history>>

\* The version of a sheet tells what its user, or Desktop when it served anew, made of it.
Versions == (1..MaxInstances) \X (0..MaxChanges)
Texts == [of : Sheets, name : Names, version : Versions, edits : SUBSET Edits]
Sidecars == [instance : 1..MaxInstances, hash : Texts]

ASSUME NoneAssumption == None \notin Texts \cup Sidecars

\* A pointer and a sidecar have their file, a call that holds a text has one, and
\* the lock is with a call that posts.
TypeOK ==
    /\ instance \in 1..MaxInstances /\ listed \in BOOLEAN /\ changes \in 0..MaxChanges
    /\ live \in [Sheets -> Texts] /\ \A s \in Sheets : live[s].of = s
    /\ text \in [Files -> Texts \cup {None}]
    /\ sidecar \in [Files -> Sidecars \cup {None}]
    /\ pointer \in [Sheets -> Files \cup {None}]
    /\ \A f \in Files : sidecar[f] # None => text[f] # None
    /\ \A s \in Sheets : pointer[s] # None => text[pointer[s]] # None
    /\ pc \in [Calls -> {"idle", "resolving", "fetching", "editing", "waiting", "reading",
                         "applying", "posting", "closing", "returned"}]
    /\ arg \in [Calls -> Arguments \cup {None}]
    /\ id \in [Edits -> Sheets \cup {None}]
    /\ file \in [Edits -> Files \cup {None}]
    /\ \A e \in Edits : pc[e] = "editing" => file[e] # None /\ text[file[e]] # None
    /\ hold \in [Calls -> Texts \cup {None}] /\ hash \in [Applies -> Texts \cup {None}]
    /\ \A c \in Calls : pc[c] \in {"waiting", "applying", "posting", "closing"} => hold[c] # None
    /\ lock \in Applies \cup {None}
    /\ \A a \in Applies : pc[a] = "posting" <=> lock = a
    /\ inflight \in [Applies -> 0..MaxInstances]

Init ==
    /\ instance = 1 /\ listed = TRUE /\ changes = 0
    /\ \E name \in [Sheets -> Names] :
         /\ IsInjective(name)
         /\ live = [s \in Sheets |-> [of |-> s, name |-> name[s], version |-> <<1, 0>>, edits |-> {}]]
    /\ text = [f \in Files |-> None]
    /\ sidecar = [f \in Files |-> None]
    /\ pointer = [s \in Sheets |-> None]
    /\ pc = [c \in Calls |-> "idle"]
    /\ arg = [c \in Calls |-> None]
    /\ id = [e \in Edits |-> None]
    /\ file = [e \in Edits |-> None]
    /\ hold = [c \in Calls |-> None]
    /\ hash = [a \in Applies |-> None]
    /\ lock = None
    /\ inflight = [a \in Applies |-> 0]
    /\ crowded = {} /\ answered = [f \in Files |-> {}]
    /\ due = [s \in Sheets |-> {}] /\ astray = {}
    /\ raced = {} /\ undone = {}

UnderWay == {c \in Calls : pc[c] \notin {"idle", "returned"}}

\* The sheet a name stands for in Desktop.
Named(n) == {s \in Sheets : live[s].name = n}

-----------------------------------------------------------------------------
\* The cache

\* Mutant: one path for each sheet, whoever reads it.
PathOfSheet(c, s) ==
    LET read == {f \in Files : text[f] # None /\ text[f].of = s}
    IN IF read = {} THEN c ELSE CHOOSE f \in read : TRUE

\* getCacheFilePath without an id: a path of the call's own
Path(c, s) == c

\* The document is written, and then its sidecar, with the instance that is listed by
\* now, or none: no instance is listed, or the second write fails.
WriteRead(c, s) ==
    /\ text' = [text EXCEPT ![Path(c, s)] = live[s]]
    /\ \/ /\ listed
          /\ sidecar' = [sidecar EXCEPT ![Path(c, s)] = [instance |-> instance, hash |-> live[s]]]
       \/ UNCHANGED sidecar

Here(f) == sidecar[f] # None => sidecar[f].instance = instance

\* checkSidecar: no sidecar, and no instance to compare with, let a file pass.
Vouched(f) == listed => Here(f)

\* Mutant: a pointer is as good as its file.
StickyUnchecked(s) == {pointer[s], None}

\* getStickyWorksheetFile: a pointer that cannot be read or parsed is none.
Sticky(s) == IF pointer[s] # None /\ Vouched(pointer[s]) THEN {pointer[s], None} ELSE {None}

\* setStickyWorksheetFile and clearStickyWorksheetFile, which only log a failure
Point(s, f) == pointer' \in {pointer, [pointer EXCEPT ![s] = f]}

\* Nothing is owed to a sheet, or to any, from now on.
Cancel(s) == due' = [due EXCEPT ![s] = {}] /\ astray' = astray \ {s}
CancelAll == due' = [s \in Sheets |-> {}] /\ astray' = {}
Owing == <<answered, due, astray>>

-----------------------------------------------------------------------------
\* Calls

Begin(c, a, to) ==
    /\ pc[c] = "idle"
    /\ pc' = [pc EXCEPT ![c] = to]
    /\ arg' = [arg EXCEPT ![c] = a]
    /\ crowded' = IF UnderWay = {} THEN {} ELSE UnderWay \cup {c}
    /\ IF UnderWay = {} THEN UNCHANGED <<due, astray>> ELSE CancelAll
    /\ UNCHANGED <<answered, raced, undone>>

Go(c, to) == pc' = [pc EXCEPT ![c] = to]

\* A call answers, and what it worked with is gone, but for what an apply has sent.
Return(c) ==
    /\ Go(c, "returned")
    /\ arg' = [arg EXCEPT ![c] = None]
    /\ id' = [e \in Edits |-> IF e = c THEN None ELSE id[e]]
    /\ file' = [e \in Edits |-> IF e = c THEN None ELSE file[e]]
    /\ hold' = IF c \in Applies /\ inflight'[c] # 0 THEN hold ELSE [hold EXCEPT ![c] = None]
    /\ crowded' = crowded \ {c}
    /\ UNCHANGED hash

\* A read failed, a name is unknown, or the request is refused.
Fail(c) ==
    /\ pc[c] \in {"resolving", "fetching", "editing", "waiting", "reading"}
    /\ UNCHANGED <<desktop, cache, applying, Owing, raced, undone>>
    /\ Return(c)

-----------------------------------------------------------------------------
\* add-field and remove-field

Exists(f) == f # None /\ text[f] # None

\* resolveWorksheetEditFile up to its first await, if it has one
BeginEdit(e, a) ==
    /\ a.file # None => Exists(a.file)
    /\ a.name # None \/ a.file # None
    /\ Begin(e, a, IF a.name = None THEN "editing" ELSE "resolving")
    /\ file' = [file EXCEPT ![e] = a.file]
    /\ UNCHANGED <<desktop, cache, id, hold, hash, applying>>

\* The name is resolved to an id: the caller's file becomes the buffer of that sheet, or
\* the buffer is open already, or a new one is to be opened.
Resolve(e) ==
    /\ pc[e] = "resolving"
    /\ \E s \in Named(arg[e].name) :
       \E f \in IF arg[e].file # None THEN {arg[e].file} ELSE Sticky(s) :
         /\ id' = [id EXCEPT ![e] = s]
         /\ \/ /\ f = None
               /\ Go(e, "fetching")
               /\ astray' = IF pointer[s] \in Sticky(s) \ {None} THEN astray \cup {s} ELSE astray
               /\ UNCHANGED <<pointer, file, due>>
            \/ /\ f # None
               /\ Point(s, f)
               /\ file' = [file EXCEPT ![e] = f]
               /\ IF f = pointer[s] THEN UNCHANGED <<due, astray>> ELSE Cancel(s)
               /\ Go(e, "editing")
    /\ UNCHANGED <<desktop, text, sidecar, arg, hold, hash, applying, crowded, answered, raced, undone>>

\* fetchAndCacheWorksheet, which looks the name up again
Fetch(e) ==
    /\ pc[e] = "fetching"
    /\ \E s \in Named(arg[e].name) :
         /\ WriteRead(e, s)
         /\ Point(id[e], Path(e, s))
         /\ file' = [file EXCEPT ![e] = Path(e, s)]
    /\ IF id[e] \in astray THEN Cancel(id[e]) ELSE UNCHANGED <<due, astray>>
    /\ Go(e, "editing")
    /\ UNCHANGED <<desktop, arg, id, hold, hash, applying, crowded, answered, raced, undone>>

\* The sheets whose next edit by name is to find this one: the sheet it named, and those
\* whose open buffer it edits.
Leads(e) == {s \in Sheets : s = id[e] \/ pointer[s] = file[e]}

\* The file is of this instance, as far as the call could see.
Seen(e) == IF arg[e].file = None THEN listed ELSE Here(file[e])

AboutToWrite(f) == {d \in Edits : pc[d] = "waiting" /\ file[d] = f}

\* The edited text is written and the call answers, with the file.
WriteEdit(e, old) ==
    /\ text' = [text EXCEPT ![file[e]] = [old EXCEPT !.edits = @ \cup {e}]]
    /\ answered' = IF AboutToWrite(file[e]) \subseteq {e}
                   THEN [answered EXCEPT ![file[e]] = @ \cup {e}] ELSE answered
    /\ IF e \in crowded THEN UNCHANGED <<due, astray>>
       ELSE /\ due' = [s \in Sheets |-> IF s \in Leads(e) THEN due[s] \cup {e} ELSE due[s]]
            /\ astray' = astray \cup {s \in Leads(e) : pointer[s] # file[e] \/ ~Seen(e)}
    /\ UNCHANGED <<desktop, sidecar, pointer, applying, raced, undone>>
    /\ Return(e)

Edit(e) ==
    /\ pc[e] = "editing"
    /\ e \notin Waits
    /\ WriteEdit(e, text[file[e]])

\* The worksheet is read before refreshWorkbookCache is awaited ...
ReadFirst(e) ==
    /\ pc[e] = "editing"
    /\ e \in Waits
    /\ hold' = [hold EXCEPT ![e] = text[file[e]]]
    /\ Go(e, "waiting")
    /\ UNCHANGED <<desktop, cache, arg, id, file, hash, applying, history>>

\* ... and written after it.
WriteAfter(e) ==
    /\ pc[e] = "waiting"
    /\ WriteEdit(e, hold[e])

-----------------------------------------------------------------------------
\* get-worksheet-xml

BeginRead(r, n) ==
    /\ Begin(r, [name |-> n, file |-> None], "reading")
    /\ UNCHANGED <<desktop, cache, id, file, hold, hash, applying>>

\* The buffer is closed; the document goes into a file or into the answer.
Read(r) ==
    /\ pc[r] = "reading"
    /\ \E s \in Named(arg[r].name) :
         /\ Point(s, None)
         /\ Cancel(s)
         /\ WriteRead(r, s) \/ UNCHANGED <<text, sidecar>>
    /\ UNCHANGED <<desktop, applying, answered, raced, undone>>
    /\ Return(r)

-----------------------------------------------------------------------------
\* apply-worksheet

\* runApplyPreamble; a call it refuses changes nothing.
BeginApply(a, f) ==
    /\ Exists(f) /\ Vouched(f)
    /\ Begin(a, [name |-> None, file |-> f], "applying")
    /\ hold' = [hold EXCEPT ![a] = text[f]]
    /\ hash' = [hash EXCEPT ![a] = IF sidecar[f] # None /\ listed /\ Here(f) THEN sidecar[f].hash ELSE None]
    /\ UNCHANGED <<desktop, cache, id, file, applying>>

Target(a) == hold[a].of

\* preparePerSheetApply, in the lock: the sheet is found by the id in its document.
Prepare(a) ==
    /\ pc[a] = "applying"
    /\ lock = None
    /\ hash[a] # None => live[Target(a)] = hash[a]
    /\ live[Target(a)].name = hold[a].name
    /\ lock' = a
    /\ inflight' = [inflight EXCEPT ![a] = instance]
    /\ Go(a, "posting")
    /\ UNCHANGED <<desktop, cache, arg, id, file, hold, hash, history>>

Refuse(a) ==
    /\ pc[a] = "applying"
    /\ lock = None
    /\ UNCHANGED applying
    /\ Return(a)
    /\ UNCHANGED <<desktop, cache, Owing, raced, undone>>

\* Mutant: only an answer of Desktop gives the lock back.
GiveUpLocked(a) == UNCHANGED applying

\* The POST was not carried out, or the call does not wait for its end.
GiveUp(a) ==
    /\ lock' = None
    /\ inflight' \in {inflight, [inflight EXCEPT ![a] = 0]}

PostFails(a) ==
    /\ pc[a] = "posting"
    /\ GiveUp(a)
    /\ Return(a)
    /\ UNCHANGED <<desktop, cache, Owing, raced, undone>>

\* Desktop may report the end of a POST before the sheet shows it.
Applied(a) ==
    /\ pc[a] = "posting"
    /\ lock' = None
    /\ Go(a, "closing")
    /\ UNCHANGED <<desktop, cache, arg, id, file, hold, hash, inflight, history>>

\* The buffer that is closed is that of the sheet which has the applied name by now.
Close(a) ==
    /\ pc[a] = "closing"
    /\ \/ \E s \in Named(hold[a].name) : Point(s, None) /\ Cancel(s)
       \/ UNCHANGED <<pointer, due, astray>>
    /\ UNCHANGED applying
    /\ Return(a)
    /\ UNCHANGED <<desktop, text, sidecar, answered, raced, undone>>

-----------------------------------------------------------------------------
\* Desktop, its user and the server

\* Something happens beside the calls under way.
Beside ==
    /\ crowded' = UnderWay
    /\ IF UnderWay = {} THEN UNCHANGED <<due, astray>> ELSE CancelAll
    /\ UNCHANGED answered

Raced(some) == raced' = raced \cup {a \in Applies : inflight[a] # 0 /\ Target(a) \in some}

\* A POST is carried out by the instance it is pinned to.
Land(a) ==
    /\ inflight[a] = instance
    /\ inflight' = [inflight EXCEPT ![a] = 0]
    /\ LET s == Target(a)
       IN /\ live' = [live EXCEPT ![s].version = hold[a].version, ![s].edits = hold[a].edits]
          /\ undone' = IF live[s].version # hold[a].version \/ ~(live[s].edits \subseteq hold[a].edits)
                       THEN undone \cup {a} ELSE undone
          /\ raced' = raced \cup {b \in Applies \ {a} : inflight[b] # 0 /\ Target(b) = s}
    /\ hold' = IF pc[a] = "returned" THEN [hold EXCEPT ![a] = None] ELSE hold
    /\ UNCHANGED <<instance, listed, changes, cache, pc, arg, id, file, hash, lock, crowded, Owing>>

UserChange ==
    /\ changes < MaxChanges
    /\ changes' = changes + 1
    /\ \E s \in Sheets : live' = [live EXCEPT ![s].version = <<instance, changes'>>] /\ Raced({s})
    /\ Beside
    /\ UNCHANGED <<instance, listed, cache, local, applying, undone>>

\* The user renames sheets, perhaps several in turn.
Rename ==
    /\ changes < MaxChanges
    /\ changes' = changes + 1
    /\ \E name \in [Sheets -> Names] :
         /\ IsInjective(name)
         /\ live' = [s \in Sheets |-> [live[s] EXCEPT !.name = name[s]]]
    /\ Raced(Sheets)
    /\ Beside
    /\ UNCHANGED <<instance, listed, cache, local, applying, undone>>

\* Desktop serves as another instance, with a workbook as it was saved.
Restart ==
    /\ instance < MaxInstances
    /\ instance' = instance + 1
    /\ live' = [s \in Sheets |-> [live[s] EXCEPT !.version = <<instance', 0>>, !.edits = {}]]
    /\ crowded' = UnderWay
    /\ CancelAll
    /\ listed' \in BOOLEAN
    /\ UNCHANGED <<changes, cache, local, applying, answered, raced, undone>>

\* The discovery file appears, or cannot be read for a while.
Relist ==
    /\ listed' = ~listed
    /\ Beside
    /\ UNCHANGED <<instance, live, changes, cache, local, applying, raced, undone>>

\* The server is killed.  A POST may still be carried out.
ServerDies ==
    /\ UnderWay # {}
    /\ pc' = [c \in Calls |-> IF c \in UnderWay THEN "returned" ELSE pc[c]]
    /\ arg' = [c \in Calls |-> None]
    /\ id' = [e \in Edits |-> None]
    /\ file' = [e \in Edits |-> None]
    /\ hold' = [c \in Calls |-> IF c \in Applies /\ inflight[c] # 0 THEN hold[c] ELSE None]
    /\ lock' = None
    /\ crowded' = {}
    /\ UNCHANGED <<desktop, cache, hash, inflight, Owing, raced, undone>>

-----------------------------------------------------------------------------
EditStep(e) ==
    \/ \E a \in Given[e] : BeginEdit(e, a)
    \/ Resolve(e) \/ Fetch(e) \/ Edit(e) \/ ReadFirst(e) \/ WriteAfter(e)

ApplyStep(a) ==
    \/ \E f \in Files : BeginApply(a, f)
    \/ Prepare(a) \/ Refuse(a) \/ PostFails(a) \/ Applied(a) \/ Close(a) \/ Land(a)

Next ==
    \/ \E e \in Edits : EditStep(e)
    \/ \E r \in Reads : Read(r) \/ \E n \in Names : BeginRead(r, n)
    \/ \E c \in Edits \cup Reads : Fail(c)
    \/ \E a \in Applies : ApplyStep(a)
    \/ UserChange \/ Rename \/ Restart \/ Relist \/ ServerDies

Spec == Init /\ [][Next]_vars

-----------------------------------------------------------------------------
\* Properties

\* An answer holds: its edit is in the file it names, through everything that fails, is
\* renamed, read, closed or restarted afterwards.
KeptInItsFile ==
    \A f \in Files : answered[f] # {} => Exists(f) /\ answered[f] \subseteq text[f].edits

\* The next edit by name goes on in a file with all that is due, of no earlier instance.
FoundByName ==
    \A s \in Sheets \ astray : due[s] # {} =>
      /\ pointer[s] # None
      /\ due[s] \subseteq text[pointer[s]].edits
      /\ Here(pointer[s])

\* Edits accumulate.  An edit that was answered as done stays in the file its answer names,
\* unless another one wrote that file from a text it had read before.  And what calls were
\* told nothing happened beside is in the file a following call by name edits, until the
\* buffer is closed or Desktop serves anew, unless the pointer was not written or not read or
\* the file could not be checked.
Accumulates == KeptInItsFile /\ FoundByName

\* An apply that was given a hash undoes only changes made while its POST was on its
\* way: no edit puts an old text under the hash of a newer read.
UndoesOnlyInARace == \A a \in undone : hash[a] = None \/ a \in raced
=============================================================================
