--------------------------- MODULE EditBufferProofs ---------------------------
(***************************************************************************)
(* For any number of calls, worksheets and files: edits of a buffer        *)
(* accumulate, and an apply that compares hashes undoes only what was      *)
(* changed while its POST was on its way.                                  *)
(*                                                                         *)
(* The first has two parts.  An answered edit is in every draft of its     *)
(* file, so that no write leaves it out; this asks nothing of pointers,    *)
(* names or instances.  What the next edit by name finds rests on calls    *)
(* nothing happened beside: such a call is alone from its beginning to its *)
(* end, so that what it found out about its file still holds when it       *)
(* writes.  The second follows the hash of a read from *)
(* its sidecar to the apply that compares it: a file, the draft of an edit *)
(* and what an apply sends have the version the hash has, and no fewer     *)
(* edits.                                                                  *)
(***************************************************************************)
EXTENDS EditBuffer, TLAPS

\* The types of the rest, and what a call has once it has got so far.
Shapes ==
    /\ due \in [Sheets -> SUBSET Edits] /\ answered \in [Files -> SUBSET Edits]
    /\ \A c \in Edits \cup Reads : pc[c] \in {"idle", "resolving", "fetching", "reading"} => text[c] = None
    /\ \A e \in Edits : pc[e] \in {"resolving", "fetching", "editing", "waiting"} =>
         /\ arg[e] \in Arguments
         /\ arg[e].file # None => Exists(arg[e].file)
    /\ \A e \in Edits : pc[e] \in {"editing", "waiting"} => Exists(file[e])
    /\ \A e \in Edits : pc[e] = "fetching" => id[e] \in Sheets

\* A POST on its way has its text and is of an instance that has served.
Sending ==
    \A a \in Applies :
      /\ inflight[a] # 0 => hold[a] # None
      /\ inflight[a] <= instance
      /\ pc[a] \in {"idle", "applying"} => inflight[a] = 0 /\ a \notin undone

\* A call nothing happened beside is alone, and has found a file that is vouched for.
Alone == \A c \in UnderWay \ crowded : UnderWay = {c}

Found ==
    \A e \in Edits \ crowded :
      pc[e] \in {"editing", "waiting"} /\ arg[e].file = None => Vouched(file[e])

\* What waits to be written has all that was answered as done in its file.
InDrafts == \A e \in Edits : pc[e] = "waiting" => answered[file[e]] \subseteq hold[e].edits

\* A call that waits has read all its file owes; one that reads a sheet anew finds no debt.
Kept ==
    \A e \in Edits :
      /\ pc[e] = "fetching" => due[id[e]] = {} \/ id[e] \in astray
      /\ pc[e] = "waiting" =>
           \A s \in Sheets \ astray : pointer[s] = file[e] => due[s] \subseteq hold[e].edits

AInv == TypeOK /\ Shapes /\ InDrafts /\ Alone /\ Found /\ Kept /\ Accumulates

\* t was made from the sheet as h tells it.
MadeFrom(t, h) == h.version = t.version /\ h.edits \subseteq t.edits

Stamped == \A f \in Files : sidecar[f] # None => MadeFrom(text[f], sidecar[f].hash)

Drafted ==
    \A e \in Edits : pc[e] = "waiting" /\ sidecar[file[e]] # None => MadeFrom(hold[e], sidecar[file[e]].hash)

Checked == \A a \in Applies : pc[a] = "applying" /\ hash[a] # None => MadeFrom(hold[a], hash[a])

Unraced ==
    \A a \in Applies \ raced :
      inflight[a] = instance /\ hash[a] # None => MadeFrom(hold[a], live[Target(a)])

UInv ==
    /\ TypeOK /\ Shapes /\ Sending
    /\ Stamped /\ Drafted /\ Checked /\ Unraced
    /\ undone \subseteq Applies /\ UndoesOnlyInARace

-----------------------------------------------------------------------------
\* The parts of the type invariant

DesktopOK ==
    /\ instance \in 1..MaxInstances /\ listed \in BOOLEAN /\ changes \in 0..MaxChanges
    /\ live \in [Sheets -> Texts] /\ \A s \in Sheets : live[s].of = s

CacheOK ==
    /\ text \in [Files -> Texts \cup {None}]
    /\ sidecar \in [Files -> Sidecars \cup {None}]
    /\ pointer \in [Sheets -> Files \cup {None}]
    /\ \A f \in Files : sidecar[f] # None => text[f] # None
    /\ \A s \in Sheets : pointer[s] # None => text[pointer[s]] # None

CallsOK ==
    /\ pc \in [Calls -> {"idle", "resolving", "fetching", "editing", "waiting", "reading",
                         "applying", "posting", "closing", "returned"}]
    /\ arg \in [Calls -> Arguments \cup {None}]
    /\ id \in [Edits -> Sheets \cup {None}]
    /\ file \in [Edits -> Files \cup {None}]
    /\ \A e \in Edits : pc[e] = "editing" => file[e] # None /\ text[file[e]] # None

HoldsOK ==
    /\ hold \in [Calls -> Texts \cup {None}] /\ hash \in [Applies -> Texts \cup {None}]
    /\ \A c \in Calls : pc[c] \in {"waiting", "applying", "posting", "closing"} => hold[c] # None

ApplyOK ==
    /\ lock \in Applies \cup {None}
    /\ \A a \in Applies : pc[a] = "posting" <=> lock = a
    /\ inflight \in [Applies -> 0..MaxInstances]

LEMMA TypeParts == TypeOK <=> DesktopOK /\ CacheOK /\ CallsOK /\ HoldsOK /\ ApplyOK
  BY DEF TypeOK, DesktopOK, CacheOK, CallsOK, HoldsOK, ApplyOK

\* Desktop changes in five actions only.
LEMMA DesktopSteps ==
  ASSUME [Next]_vars
  PROVE  \/ UNCHANGED desktop
         \/ \E a \in Applies : Land(a)
         \/ UserChange \/ Rename \/ Restart \/ Relist
  BY DEF Next, vars, EditStep, ApplyStep, BeginEdit, Resolve, Fetch, Edit, ReadFirst, WriteAfter,
         WriteEdit, Read, BeginRead, Fail, BeginApply, Prepare, Refuse, PostFails, Applied, Close,
         ServerDies

\* The cache changes in six.
LEMMA CacheSteps ==
  ASSUME [Next]_vars
  PROVE  \/ UNCHANGED cache
         \/ \E e \in Edits : Resolve(e) \/ Fetch(e) \/ Edit(e) \/ WriteAfter(e)
         \/ \E r \in Reads : Read(r)
         \/ \E a \in Applies : Close(a)
  BY DEF Next, vars, EditStep, ApplyStep, BeginEdit, ReadFirst,
         BeginRead, Fail, BeginApply, Prepare, Refuse, PostFails, Applied, Land,
         UserChange, Rename, Restart, Relist, ServerDies

LEMMA DesktopType ==
  ASSUME TypeOK, Sending, [Next]_vars
  PROVE  DesktopOK'
<1>1. DesktopOK /\ HoldsOK /\ ApplyOK
  BY TypeParts
<1>2. CASE UNCHANGED desktop
  BY <1>1, <1>2 DEF DesktopOK, desktop
<1>3. ASSUME NEW a \in Applies, Land(a) PROVE DesktopOK'
  <2>1. hold[a] \in Texts
    BY <1>1, <1>3 DEF Land, Sending, DesktopOK, HoldsOK, Calls
  <2>2. [live[Target(a)] EXCEPT !.version = hold[a].version, !.edits = hold[a].edits] \in Texts
    BY <1>1, <2>1 DEF DesktopOK, Texts, Target
  <2> QED BY <1>1, <1>3, <2>1, <2>2 DEF Land, DesktopOK, Texts, Target
<1>4. CASE UserChange
  BY <1>1, <1>4, BoundsAssumption DEF UserChange, DesktopOK, Texts, Versions
<1>5. CASE Rename
  BY <1>1, <1>5, BoundsAssumption DEF Rename, DesktopOK, Texts
<1>6. CASE Restart
  <2>1. <<instance', 0>> \in Versions /\ instance' \in 1..MaxInstances
    <3>1. instance' = instance + 1 /\ instance < MaxInstances
      BY <1>6 DEF Restart
    <3>2. 0 \in 0..MaxChanges
      BY BoundsAssumption
    <3> QED BY <1>1, <3>1, <3>2, BoundsAssumption DEF DesktopOK, Versions
  <2>2. \A s \in Sheets : live'[s] = [live[s] EXCEPT !.version = <<instance', 0>>, !.edits = {}]
    BY <1>6 DEF Restart
  <2>3. ASSUME NEW s \in Sheets PROVE live'[s] \in Texts /\ live'[s].of = s
    <3>1. live[s] \in Texts /\ live[s].of = s
      BY <1>1 DEF DesktopOK
    <3> QED BY <2>1, <2>2, <3>1 DEF Texts
  <2> QED BY <1>1, <1>6, <2>1, <2>3 DEF Restart, DesktopOK
<1>7. CASE Relist
  BY <1>1, <1>7 DEF Relist, DesktopOK
<1> QED BY DesktopSteps, <1>2, <1>3, <1>4, <1>5, <1>6, <1>7

\* A call with a file of its own writes it once, where there is none.
LEMMA WriteReadType ==
  ASSUME TypeOK, NEW c \in Files, NEW s \in Sheets, text[c] = None, WriteRead(c, s)
  PROVE  /\ text' = [text EXCEPT ![c] = live[s]]
         /\ live[s] \in Texts /\ live[s] # None
         /\ sidecar' \in [Files -> Sidecars \cup {None}]
         /\ \A f \in Files \ {c} : sidecar'[f] = sidecar[f]
         /\ sidecar'[c] # None => sidecar'[c] = [instance |-> instance, hash |-> live[s]]
<1>1. DesktopOK /\ CacheOK
  BY TypeParts
<1>2. live[s] \in Texts /\ live[s] # None
  BY <1>1, NoneAssumption DEF DesktopOK
<1>3. [instance |-> instance, hash |-> live[s]] \in Sidecars
  BY <1>1, <1>2 DEF DesktopOK, Sidecars
<1>4. sidecar[c] = None
  BY <1>1 DEF CacheOK
<1> QED BY <1>1, <1>2, <1>3, <1>4 DEF WriteRead, Path, CacheOK

\* What an edit writes has the text it starts from, and its own edit.
LEMMA WriteEditType ==
  ASSUME TypeOK, NEW e \in Edits, Exists(file[e]), NEW old \in Texts, WriteEdit(e, old)
  PROVE  /\ file[e] \in Files
         /\ text' \in [Files -> Texts \cup {None}]
         /\ \A f \in Files \ {file[e]} : text'[f] = text[f]
         /\ text'[file[e]] # None
         /\ text'[file[e]].edits = old.edits \cup {e}
         /\ text'[file[e]].version = old.version
         /\ UNCHANGED <<sidecar, pointer>>
<1>1. CacheOK /\ CallsOK
  BY TypeParts
<1>2. file[e] \in Files
  BY <1>1 DEF CallsOK, Exists
<1>3. [old EXCEPT !.edits = @ \cup {e}] \in Texts
  BY DEF Texts
<1>4. [old EXCEPT !.edits = @ \cup {e}] # None
  BY <1>3, NoneAssumption
<1>5. /\ [old EXCEPT !.edits = @ \cup {e}].edits = old.edits \cup {e}
      /\ [old EXCEPT !.edits = @ \cup {e}].version = old.version
  BY DEF Texts
<1> QED BY <1>1, <1>2, <1>3, <1>4, <1>5 DEF WriteEdit, CacheOK

\* The text an edit starts from.
LEMMA StartsFrom ==
  ASSUME TypeOK, Shapes, NEW e \in Edits
  PROVE  /\ pc[e] = "editing" => Exists(file[e]) /\ text[file[e]] \in Texts
         /\ pc[e] = "waiting" => Exists(file[e]) /\ hold[e] \in Texts
  BY TypeParts DEF Shapes, Exists, CacheOK, CallsOK, HoldsOK, Calls

\* The file a name leads to.
LEMMA ResolvesTo ==
  ASSUME TypeOK, Shapes, NEW e \in Edits, pc[e] = "resolving", NEW s \in Sheets
  PROVE  \A f \in IF arg[e].file # None THEN {arg[e].file} ELSE Sticky(s) :
           f # None => f \in Files /\ Exists(f)
  BY TypeParts DEF Shapes, Exists, CacheOK, Arguments, Sticky

LEMMA WriteReadCache ==
  ASSUME TypeOK, NEW c \in Files, NEW s \in Sheets, text[c] = None, WriteRead(c, s),
         NEW f \in {c, None}, NEW t, Point(t, f)
  PROVE  CacheOK'
<1>1. CacheOK
  BY TypeParts
<1>2. text' \in [Files -> Texts \cup {None}] /\ text'[c] # None
  <2>1. text' = [text EXCEPT ![c] = live[s]] /\ live[s] \in Texts /\ live[s] # None
    BY WriteReadType
  <2> QED BY <1>1, <2>1 DEF CacheOK
<1>3. \A g \in Files \ {c} : text'[g] = text[g] /\ sidecar'[g] = sidecar[g]
  BY <1>1, WriteReadType DEF CacheOK
<1>4. sidecar' \in [Files -> Sidecars \cup {None}]
  BY WriteReadType
<1>5. pointer' \in [Sheets -> Files \cup {None}]
  BY <1>1 DEF Point, CacheOK
<1>6. \A u \in Sheets : pointer'[u] \in {pointer[u], f}
  BY <1>1 DEF Point, CacheOK
<1> QED BY <1>1, <1>2, <1>3, <1>4, <1>5, <1>6 DEF CacheOK

LEMMA CacheType ==
  ASSUME TypeOK, Shapes, [Next]_vars
  PROVE  CacheOK'
<1>1. DesktopOK /\ CacheOK /\ CallsOK
  BY TypeParts
<1>2. CASE UNCHANGED cache
  BY <1>1, <1>2 DEF CacheOK, cache
<1>3. ASSUME NEW e \in Edits, Resolve(e) PROVE CacheOK'
  <2>1. PICK s \in Named(arg[e].name) :
          \/ UNCHANGED pointer
          \/ \E f \in Files : Exists(f) /\ Point(s, f)
    BY <1>3, ResolvesTo DEF Resolve, Named
  <2> QED BY <1>1, <1>3, <2>1 DEF Resolve, CacheOK, Point, Exists, Named
<1>4. ASSUME NEW e \in Edits, Fetch(e) PROVE CacheOK'
  <2>1. PICK s \in Sheets : WriteRead(e, s) /\ Point(id[e], e)
    BY <1>4 DEF Fetch, Named, Path
  <2>2. text[e] = None /\ e \in Files
    BY <1>4 DEF Fetch, Shapes, Files
  <2> QED BY <2>1, <2>2, WriteReadCache
<1>5. ASSUME NEW e \in Edits, Edit(e) \/ WriteAfter(e) PROVE CacheOK'
  <2>1. PICK old \in Texts : WriteEdit(e, old) /\ Exists(file[e])
    BY <1>5, StartsFrom DEF Edit, WriteAfter
  <2> QED BY <1>1, <2>1, WriteEditType DEF CacheOK
<1>6. ASSUME NEW r \in Reads, Read(r) PROVE CacheOK'
  <2>1. PICK s \in Sheets : Point(s, None) /\ (WriteRead(r, s) \/ UNCHANGED <<text, sidecar>>)
    BY <1>6 DEF Read, Named
  <2>2. text[r] = None /\ r \in Files
    BY <1>6 DEF Read, Shapes, Files
  <2>3. CASE UNCHANGED <<text, sidecar>>
    BY <1>1, <2>1, <2>3 DEF CacheOK, Point
  <2> QED BY <2>1, <2>2, <2>3, WriteReadCache
<1>7. ASSUME NEW a \in Applies, Close(a) PROVE CacheOK'
  BY <1>1, <1>7 DEF Close, CacheOK, Point
<1> QED BY CacheSteps, <1>2, <1>3, <1>4, <1>5, <1>6, <1>7

\* A file that is there stays.
LEMMA FilesStay ==
  ASSUME TypeOK, Shapes, [Next]_vars, NEW f, Exists(f), f \in Files
  PROVE  Exists(f)'
<1>1. DesktopOK /\ CacheOK /\ CallsOK
  BY TypeParts
<1>2. CASE UNCHANGED text
  BY <1>2 DEF Exists
<1>3. ASSUME NEW c \in Files, NEW s \in Sheets, WriteRead(c, s), text[c] = None PROVE Exists(f)'
  BY <1>1, <1>3, WriteReadType DEF Exists, CacheOK
<1>4. ASSUME NEW e \in Edits, Edit(e) \/ WriteAfter(e) PROVE Exists(f)'
  <2>1. PICK old \in Texts : WriteEdit(e, old) /\ Exists(file[e])
    BY <1>4, StartsFrom DEF Edit, WriteAfter
  <2> QED BY <2>1, WriteEditType DEF Exists
<1>5. ASSUME NEW c \in Files, (c \in Edits /\ Fetch(c)) \/ (c \in Reads /\ Read(c)) PROVE Exists(f)'
  <2>1. text[c] = None
    BY <1>5 DEF Fetch, Read, Shapes
  <2> QED BY <1>2, <1>3, <1>5, <2>1 DEF Fetch, Read, Named
<1> QED BY CacheSteps, <1>2, <1>4, <1>5 DEF cache, Resolve, Close, Files

\* Calls begin, go on, answer or are lost.
LEMMA CallSteps ==
  ASSUME [Next]_vars
  PROVE  \/ UNCHANGED local
         \/ \E e \in Edits : \E a \in Given[e] : BeginEdit(e, a)
         \/ \E e \in Edits : Resolve(e) \/ Fetch(e) \/ ReadFirst(e)
         \/ \E r \in Reads : \E n \in Names : BeginRead(r, n)
         \/ \E a \in Applies : \E f \in Files : BeginApply(a, f)
         \/ \E a \in Applies : Prepare(a) \/ Applied(a) \/ Land(a)
         \/ \E c \in UnderWay : Return(c)
         \/ ServerDies
<1>1. CASE \E e \in Edits : EditStep(e)
  <2>1. CASE \E e \in Edits : Edit(e) \/ WriteAfter(e)
    BY <2>1 DEF Edit, WriteAfter, WriteEdit, UnderWay, Calls
  <2> QED BY <1>1, <2>1 DEF EditStep
<1>2. CASE \E a \in Applies : ApplyStep(a)
  <2>1. CASE \E a \in Applies : Refuse(a) \/ PostFails(a) \/ Close(a)
    BY <2>1 DEF Refuse, PostFails, Close, UnderWay, Calls
  <2> QED BY <1>2, <2>1 DEF ApplyStep
<1>3. CASE \E c \in Edits \cup Reads : Fail(c)
  BY <1>3 DEF Fail, UnderWay, Calls
<1>4. CASE \E r \in Reads : Read(r) \/ \E n \in Names : BeginRead(r, n)
  BY <1>4 DEF Read, UnderWay, Calls
<1>5. CASE UserChange \/ Rename \/ Restart \/ Relist \/ UNCHANGED vars
  BY <1>5 DEF UserChange, Rename, Restart, Relist, vars
<1> QED BY <1>1, <1>2, <1>3, <1>4, <1>5 DEF Next

\* An edit has arguments it may have.
LEMMA GivenArguments ==
  ASSUME NEW e \in Edits, NEW a \in Given[e]
  PROVE  a \in Arguments /\ a.name \in Names \cup {None} /\ a.file \in Files \cup {None}
<1>1. a \in Arguments
  BY GivenAssumption
<1> QED BY <1>1 DEF Arguments

LEMMA CallsType ==
  ASSUME TypeOK, Shapes, [Next]_vars
  PROVE  CallsOK'
<1>1. DesktopOK /\ CacheOK /\ CallsOK
  BY TypeParts
<1>2. \A f \in Files : Exists(f) => Exists(f)'
  BY FilesStay
<1>3. CASE UNCHANGED local
  BY <1>1, <1>2, <1>3 DEF CallsOK, local, Exists
<1>4. ASSUME NEW e \in Edits, NEW a \in Given[e], BeginEdit(e, a) PROVE CallsOK'
  <2>1. a \in Arguments /\ a.file \in Files \cup {None} /\ (a.file # None => Exists(a.file))
    BY <1>4, GivenArguments DEF BeginEdit
  <2>2. UNCHANGED text
    BY <1>4 DEF BeginEdit, cache
  <2> QED BY <1>1, <1>4, <2>1, <2>2 DEF BeginEdit, Begin, CallsOK, Exists, Calls
<1>5. ASSUME NEW e \in Edits, Resolve(e) \/ Fetch(e) \/ ReadFirst(e) PROVE CallsOK'
  <2>1. CASE Resolve(e)
    <3>1. UNCHANGED <<text, arg>> /\ id' \in [Edits -> Sheets \cup {None}]
      BY <1>1, <2>1 DEF Resolve, CallsOK, Named
    <3>2. \/ Go(e, "fetching") /\ UNCHANGED file
          \/ \E f \in Files : Exists(f) /\ Go(e, "editing") /\ file' = [file EXCEPT ![e] = f]
      BY <2>1, ResolvesTo DEF Resolve, Named
    <3> QED BY <1>1, <3>1, <3>2 DEF Go, CallsOK, Exists, Calls
  <2>2. CASE Fetch(e)
    <3>1. PICK s \in Sheets : WriteRead(e, s) /\ file' = [file EXCEPT ![e] = e]
      BY <2>2 DEF Fetch, Named, Path
    <3>2. text[e] = None /\ e \in Files
      BY <2>2 DEF Fetch, Shapes, Files
    <3>3. text'[e] # None
      BY <1>1, <3>1, <3>2, WriteReadType DEF CacheOK
    <3>4. UNCHANGED <<arg, id>> /\ pc' = [pc EXCEPT ![e] = "editing"]
      BY <2>2 DEF Fetch, Go
    <3>5. ASSUME NEW d \in Edits, pc'[d] = "editing" PROVE file'[d] # None /\ text'[file'[d]] # None
      <4>1. CASE d = e
        BY <1>1, <3>1, <3>2, <3>3, <4>1, CallsAssumption DEF CallsOK, Calls
      <4>2. CASE d # e
        BY <1>1, <1>2, <3>1, <3>4, <3>5, <4>2 DEF CallsOK, Exists, Calls
      <4> QED BY <4>1, <4>2
    <3> QED BY <1>1, <3>1, <3>2, <3>4, <3>5 DEF CallsOK
  <2>3. CASE ReadFirst(e)
    BY <1>1, <2>3 DEF ReadFirst, Go, CallsOK, Calls, cache
  <2> QED BY <1>5, <2>1, <2>2, <2>3
<1>6. ASSUME NEW r \in Reads, NEW n \in Names, BeginRead(r, n) PROVE CallsOK'
  BY <1>1, <1>6 DEF BeginRead, Begin, CallsOK, Arguments, Calls, cache
<1>7. ASSUME NEW a \in Applies, NEW f \in Files, BeginApply(a, f) PROVE CallsOK'
  BY <1>1, <1>7, CallsAssumption DEF BeginApply, Begin, CallsOK, Arguments, Calls, cache
<1>8. ASSUME NEW a \in Applies, Prepare(a) \/ Applied(a) \/ Land(a) PROVE CallsOK'
  BY <1>1, <1>8 DEF Prepare, Applied, Land, Go, CallsOK, Calls, cache
<1>9. ASSUME NEW c \in UnderWay, Return(c) PROVE CallsOK'
  BY <1>1, <1>2, <1>9 DEF Return, Go, CallsOK, Exists, UnderWay
<1>10. CASE ServerDies
  BY <1>1, <1>10 DEF ServerDies, CallsOK, UnderWay, Calls
<1> QED BY CallSteps, <1>3, <1>4, <1>5, <1>6, <1>7, <1>8, <1>9, <1>10

LEMMA HoldsType ==
  ASSUME TypeOK, Shapes, [Next]_vars
  PROVE  HoldsOK'
<1>1. DesktopOK /\ CacheOK /\ CallsOK /\ HoldsOK
  BY TypeParts
<1>3. CASE UNCHANGED local
  BY <1>1, <1>3 DEF HoldsOK, local
<1>4. ASSUME NEW e \in Edits, NEW a \in Given[e], BeginEdit(e, a) PROVE HoldsOK'
  BY <1>1, <1>4 DEF BeginEdit, Begin, CallsOK, HoldsOK, Calls
<1>5. ASSUME NEW e \in Edits, Resolve(e) \/ Fetch(e) \/ ReadFirst(e) PROVE HoldsOK'
  <2>1. CASE Resolve(e) \/ Fetch(e)
    <3>1. UNCHANGED <<hold, hash>> /\ (Go(e, "fetching") \/ Go(e, "editing"))
      BY <2>1 DEF Resolve, Fetch
    <3> QED BY <1>1, <3>1 DEF Go, CallsOK, HoldsOK
  <2>2. CASE ReadFirst(e)
    <3>1. text[file[e]] \in Texts
      BY <2>2, StartsFrom DEF ReadFirst
    <3> QED BY <1>1, <2>2, <3>1, NoneAssumption DEF ReadFirst, Go, CallsOK, HoldsOK
  <2> QED BY <1>5, <2>1, <2>2
<1>6. ASSUME NEW r \in Reads, NEW n \in Names, BeginRead(r, n) PROVE HoldsOK'
  BY <1>1, <1>6 DEF BeginRead, Begin, CallsOK, HoldsOK
<1>7. ASSUME NEW a \in Applies, NEW f \in Files, BeginApply(a, f) PROVE HoldsOK'
  <2>1. text[f] \in Texts /\ text[f] # None
    BY <1>1, <1>7 DEF BeginApply, Exists, CacheOK
  <2>2. sidecar[f] # None => sidecar[f].hash \in Texts
    BY <1>1 DEF CacheOK, Sidecars
  <2> QED BY <1>1, <1>7, <2>1, <2>2 DEF BeginApply, Begin, CallsOK, HoldsOK
<1>8. ASSUME NEW a \in Applies, Prepare(a) \/ Applied(a) \/ Land(a) PROVE HoldsOK'
  BY <1>1, <1>8 DEF Prepare, Applied, Land, Go, CallsOK, HoldsOK, Calls
<1>9. ASSUME NEW c \in UnderWay, Return(c) PROVE HoldsOK'
  BY <1>1, <1>9 DEF Return, Go, CallsOK, HoldsOK, UnderWay
<1>10. CASE ServerDies
  BY <1>1, <1>10 DEF ServerDies, CallsOK, HoldsOK, UnderWay, Calls
<1> QED BY CallSteps, <1>3, <1>4, <1>5, <1>6, <1>7, <1>8, <1>9, <1>10

LEMMA ApplyType ==
  ASSUME TypeOK, Shapes, Sending, [Next]_vars
  PROVE  ApplyOK' /\ Sending'
<1>1. DesktopOK /\ CallsOK /\ HoldsOK /\ ApplyOK
  BY TypeParts
<1>2. CASE UNCHANGED <<instance, local, applying, undone>>
  BY <1>1, <1>2 DEF ApplyOK, Sending, local, applying
<1>3. ASSUME NEW e \in Edits, EditStep(e) PROVE ApplyOK' /\ Sending'
  <2>1. UNCHANGED <<instance, applying, undone>>
    BY <1>3 DEF EditStep, BeginEdit, Begin, Resolve, Fetch, Edit, ReadFirst, WriteAfter, WriteEdit,
                desktop, history
  <2>2. \A a \in Applies : pc'[a] = pc[a] /\ hold'[a] = hold[a]
    BY <1>1, <1>3, CallsAssumption
       DEF EditStep, BeginEdit, Begin, Resolve, Fetch, Edit, ReadFirst, WriteAfter, WriteEdit, Return,
           Go, CallsOK, HoldsOK, Calls
  <2> QED BY <1>1, <2>1, <2>2 DEF ApplyOK, Sending, applying
<1>4. ASSUME NEW r \in Reads, Read(r) \/ \E n \in Names : BeginRead(r, n) PROVE ApplyOK' /\ Sending'
  <2>1. UNCHANGED <<instance, applying, undone>>
    BY <1>4 DEF Read, BeginRead, Begin, desktop
  <2>2. \A a \in Applies : pc'[a] = pc[a] /\ hold'[a] = hold[a]
    BY <1>1, <1>4, CallsAssumption DEF Read, BeginRead, Begin, Return, Go, CallsOK, HoldsOK, Calls
  <2> QED BY <1>1, <2>1, <2>2 DEF ApplyOK, Sending, applying
<1>5. ASSUME NEW c \in Edits \cup Reads, Fail(c) PROVE ApplyOK' /\ Sending'
  <2>1. UNCHANGED <<instance, applying, undone>>
    BY <1>5 DEF Fail, desktop
  <2>2. \A a \in Applies : pc'[a] = pc[a] /\ hold'[a] = hold[a]
    BY <1>1, <1>5, CallsAssumption DEF Fail, Return, Go, CallsOK, HoldsOK, Calls
  <2> QED BY <1>1, <2>1, <2>2 DEF ApplyOK, Sending, applying
<1>6. ASSUME NEW a \in Applies, ApplyStep(a) PROVE ApplyOK' /\ Sending'
  <2>1. CASE \E f \in Files : BeginApply(a, f)
    BY <1>1, <2>1 DEF BeginApply, Begin, CallsOK, HoldsOK, ApplyOK, Sending, applying, desktop, Calls
  <2>2. CASE Prepare(a)
    BY <1>1, <2>2, CallsAssumption
       DEF Prepare, Go, DesktopOK, CallsOK, HoldsOK, ApplyOK, Sending, desktop, history, Calls
  <2>3. CASE Applied(a)
    BY <1>1, <2>3, CallsAssumption
       DEF Applied, Go, CallsOK, HoldsOK, ApplyOK, Sending, desktop, history, Calls
  <2>4. CASE Refuse(a) \/ PostFails(a) \/ Close(a)
    <3>1. /\ UNCHANGED <<instance, undone>> /\ Return(a)
          /\ \/ UNCHANGED applying /\ pc[a] # "posting"
             \/ GiveUp(a) /\ pc[a] = "posting"
      BY <2>4 DEF Refuse, PostFails, Close, desktop
    <3>2. lock' \in Applies \cup {None} /\ \A b \in Applies : pc'[b] = "posting" <=> lock' = b
      BY <1>1, <3>1, CallsAssumption DEF Return, Go, GiveUp, CallsOK, ApplyOK, Calls, applying
    <3>3. /\ inflight' \in [Applies -> 0..MaxInstances]
          /\ \A b \in Applies : inflight'[b] \in {inflight[b], 0}
      BY <1>1, <3>1, BoundsAssumption DEF GiveUp, ApplyOK, applying
    <3>4. \A b \in Applies : inflight'[b] # 0 => hold'[b] = hold[b]
      BY <1>1, <3>1 DEF Return, HoldsOK, Calls
    <3>5. \A b \in Applies : pc'[b] \in {pc[b], "returned"}
      BY <1>1, <3>1 DEF Return, Go, CallsOK, Calls
    <3> QED BY <1>1, <3>1, <3>2, <3>3, <3>4, <3>5 DEF DesktopOK, ApplyOK, Sending
  <2>5. CASE Land(a)
    BY <1>1, <2>5, BoundsAssumption DEF Land, DesktopOK, CallsOK, HoldsOK, ApplyOK, Sending, Calls
  <2> QED BY <1>6, <2>1, <2>2, <2>3, <2>4, <2>5 DEF ApplyStep
<1>7. CASE UserChange \/ Rename \/ Relist
  BY <1>2, <1>7 DEF UserChange, Rename, Relist
<1>8. CASE Restart
  <2>1. UNCHANGED <<local, applying, undone>> /\ instance' = instance + 1
    BY <1>8 DEF Restart
  <2>2. ApplyOK'
    BY <1>1, <2>1 DEF ApplyOK, local, applying
  <2>3. \A a \in Applies : inflight[a] <= instance'
    BY <1>1, <2>1 DEF DesktopOK, ApplyOK, Sending
  <2> QED BY <2>1, <2>2, <2>3 DEF Sending, local, applying
<1>9. CASE ServerDies
  BY <1>1, <1>9, CallsAssumption
     DEF ServerDies, DesktopOK, CallsOK, HoldsOK, ApplyOK, Sending, UnderWay, Calls, desktop
<1> QED BY <1>2, <1>3, <1>4, <1>5, <1>6, <1>7, <1>8, <1>9 DEF Next, vars, desktop, history

\* What a debt is made and cancelled by.
LEMMA DebtType ==
  ASSUME TypeOK, Shapes, [Next]_vars
  PROVE  due' \in [Sheets -> SUBSET Edits] /\ answered' \in [Files -> SUBSET Edits]
<1>1. due \in [Sheets -> SUBSET Edits] /\ answered \in [Files -> SUBSET Edits]
  BY DEF Shapes
<1>2. CASE \E e \in Edits : Edit(e) \/ WriteAfter(e)
  BY <1>1, <1>2 DEF Edit, WriteAfter, WriteEdit
<1>3. CASE \E e \in Edits : (\E a \in Given[e] : BeginEdit(e, a)) \/ Resolve(e) \/ Fetch(e) \/ ReadFirst(e)
  BY <1>1, <1>3 DEF BeginEdit, Begin, Resolve, Fetch, ReadFirst, Cancel, CancelAll, history
<1>4. CASE \E r \in Reads : Read(r) \/ \E n \in Names : BeginRead(r, n)
  BY <1>1, <1>4 DEF Read, BeginRead, Begin, Cancel, CancelAll
<1>5. CASE \E c \in Edits \cup Reads : Fail(c)
  BY <1>1, <1>5 DEF Fail, Owing
<1>6. CASE \E a \in Applies : ApplyStep(a)
  BY <1>1, <1>6 DEF ApplyStep, BeginApply, Begin, Prepare, Refuse, PostFails, Applied, Close, Land,
                    Cancel, CancelAll, Owing, history
<1>7. CASE UserChange \/ Rename \/ Restart \/ Relist \/ ServerDies \/ UNCHANGED vars
  BY <1>1, <1>7 DEF UserChange, Rename, Restart, Relist, ServerDies, Beside, CancelAll, Owing, vars, history
<1> QED BY <1>2, <1>3, <1>4, <1>5, <1>6, <1>7 DEF Next, EditStep

\* An edit goes on by itself only.
LEMMA EditMoves ==
  ASSUME TypeOK, [Next]_vars, NEW e \in Edits
  PROVE  \/ pc'[e] \in {"idle", "returned"}
         \/ \E a \in Given[e] : BeginEdit(e, a)
         \/ Resolve(e) \/ Fetch(e) \/ ReadFirst(e)
         \/ /\ pc'[e] = pc[e] /\ arg'[e] = arg[e] /\ id'[e] = id[e]
            /\ file'[e] = file[e] /\ hold'[e] = hold[e]
<1>1. CallsOK /\ HoldsOK
  BY TypeParts
<1>2. CASE UNCHANGED local
  BY <1>2 DEF local
<1>3. ASSUME NEW d \in Edits \ {e}, (\E a \in Given[d] : BeginEdit(d, a)) \/ Resolve(d) \/ Fetch(d) \/ ReadFirst(d)
      PROVE  /\ pc'[e] = pc[e] /\ arg'[e] = arg[e] /\ id'[e] = id[e]
             /\ file'[e] = file[e] /\ hold'[e] = hold[e]
  <2>1. CASE \E a \in Given[d] : BeginEdit(d, a)
    BY <1>1, <2>1 DEF BeginEdit, Begin, CallsOK, Calls
  <2>2. CASE Resolve(d)
    BY <1>1, <2>2 DEF Resolve, Go, CallsOK, Calls
  <2>3. CASE Fetch(d)
    BY <1>1, <2>3 DEF Fetch, Go, CallsOK, Calls
  <2>4. CASE ReadFirst(d)
    BY <1>1, <2>4 DEF ReadFirst, Go, CallsOK, HoldsOK, Calls
  <2> QED BY <1>3, <2>1, <2>2, <2>3, <2>4
<1>4. ASSUME NEW r \in Reads, NEW n \in Names, BeginRead(r, n)
      PROVE  /\ pc'[e] = pc[e] /\ arg'[e] = arg[e] /\ id'[e] = id[e]
             /\ file'[e] = file[e] /\ hold'[e] = hold[e]
  BY <1>1, <1>4, CallsAssumption DEF BeginRead, Begin, CallsOK, Calls
<1>5. ASSUME NEW a \in Applies, NEW f \in Files, BeginApply(a, f)
      PROVE  /\ pc'[e] = pc[e] /\ arg'[e] = arg[e] /\ id'[e] = id[e]
             /\ file'[e] = file[e] /\ hold'[e] = hold[e]
  BY <1>1, <1>5, CallsAssumption DEF BeginApply, Begin, CallsOK, HoldsOK, Calls
<1>6. ASSUME NEW a \in Applies, Prepare(a) \/ Applied(a) \/ Land(a)
      PROVE  /\ pc'[e] = pc[e] /\ arg'[e] = arg[e] /\ id'[e] = id[e]
             /\ file'[e] = file[e] /\ hold'[e] = hold[e]
  BY <1>1, <1>6, CallsAssumption DEF Prepare, Applied, Land, Go, CallsOK, HoldsOK, Calls
<1>7. ASSUME NEW c \in UnderWay, Return(c)
      PROVE  \/ pc'[e] = "returned"
             \/ /\ pc'[e] = pc[e] /\ arg'[e] = arg[e] /\ id'[e] = id[e]
                /\ file'[e] = file[e] /\ hold'[e] = hold[e]
  BY <1>1, <1>7 DEF Return, Go, UnderWay, CallsOK, HoldsOK, Calls
<1>8. CASE ServerDies
  BY <1>1, <1>8 DEF ServerDies, UnderWay, CallsOK, Calls
<1> QED BY CallSteps, <1>2, <1>3, <1>4, <1>5, <1>6, <1>7, <1>8

LEMMA ShapesStep ==
  ASSUME TypeOK, Shapes, [Next]_vars
  PROVE  Shapes'
<1>1. DesktopOK /\ CacheOK /\ CallsOK /\ HoldsOK
  BY TypeParts
<1>2. \A f \in Files : Exists(f) => Exists(f)'
  BY FilesStay
<1>3. due' \in [Sheets -> SUBSET Edits] /\ answered' \in [Files -> SUBSET Edits]
  BY DebtType
<1>4. ASSUME NEW c \in Edits \cup Reads, pc'[c] \in {"idle", "resolving", "fetching", "reading"}
      PROVE  pc[c] \in {"idle", "resolving", "fetching", "reading"}
  <2>1. CASE UNCHANGED local
    BY <1>4, <2>1 DEF local
  <2>2. CASE \E e \in Edits : \E a \in Given[e] : BeginEdit(e, a)
    BY <1>1, <1>4, <2>2 DEF BeginEdit, Begin, CallsOK, Calls
  <2>3. CASE \E e \in Edits : Resolve(e) \/ Fetch(e) \/ ReadFirst(e)
    BY <1>1, <1>4, <2>3 DEF Resolve, Fetch, ReadFirst, Go, CallsOK, Calls
  <2>4. CASE \E r \in Reads : \E n \in Names : BeginRead(r, n)
    BY <1>1, <1>4, <2>4 DEF BeginRead, Begin, CallsOK, Calls
  <2>5. CASE \E a \in Applies : \E f \in Files : BeginApply(a, f)
    BY <1>1, <1>4, <2>5 DEF BeginApply, Begin, CallsOK, Calls
  <2>6. CASE \E a \in Applies : Prepare(a) \/ Applied(a) \/ Land(a)
    BY <1>1, <1>4, <2>6 DEF Prepare, Applied, Land, Go, CallsOK, Calls
  <2>7. CASE \E d \in UnderWay : Return(d)
    BY <1>1, <1>4, <2>7 DEF Return, Go, UnderWay, CallsOK, Calls
  <2>8. CASE ServerDies
    BY <1>1, <1>4, <2>8 DEF ServerDies, UnderWay, CallsOK, Calls
  <2> QED BY CallSteps, <2>1, <2>2, <2>3, <2>4, <2>5, <2>6, <2>7, <2>8
<1>5. ASSUME NEW c \in Edits \cup Reads, pc'[c] \in {"idle", "resolving", "fetching", "reading"}
      PROVE  text'[c] = None
  <2>1. text[c] = None
    BY <1>4, <1>5 DEF Shapes
  <2>2. CASE \E e \in Edits : Edit(e) \/ WriteAfter(e)
    <3>1. PICK e \in Edits, old \in Texts : WriteEdit(e, old) /\ Exists(file[e])
      BY <2>2, StartsFrom DEF Edit, WriteAfter
    <3> QED BY <2>1, <3>1, WriteEditType DEF Exists, Files
  <2>3. CASE \E e \in Edits : Fetch(e)
    <3>1. PICK e \in Edits, s \in Sheets : Fetch(e) /\ WriteRead(e, s)
      BY <2>3 DEF Fetch, Named
    <3>2. c # e
      BY <1>1, <1>5, <3>1 DEF Fetch, Go, CallsOK, Calls
    <3> QED BY <1>1, <2>1, <3>1, <3>2 DEF WriteRead, Path, CacheOK, Files
  <2>4. CASE \E r \in Reads : Read(r)
    <3>1. PICK r \in Reads : Read(r) /\ (UNCHANGED text \/ \E s \in Sheets : WriteRead(r, s))
      BY <2>4 DEF Read, Named
    <3>2. c # r
      BY <1>1, <1>5, <3>1 DEF Read, Return, Go, CallsOK, Calls
    <3> QED BY <1>1, <2>1, <3>1, <3>2 DEF WriteRead, Path, CacheOK, Files
  <2>5. CASE UNCHANGED text
    BY <2>1, <2>5
  <2> QED BY CacheSteps, <2>2, <2>3, <2>4, <2>5 DEF cache, Resolve, Close
\* An edit keeps what it has found until it has its answer.
<1>6. ASSUME NEW e \in Edits, pc'[e] \in {"resolving", "fetching", "editing", "waiting"}
      PROVE  /\ arg'[e] \in Arguments
             /\ arg'[e].file # None => Exists(arg[e].file)'
             /\ pc'[e] \in {"editing", "waiting"} => Exists(file[e])'
             /\ pc'[e] = "fetching" => id'[e] \in Sheets
  <2>1. CASE \E a \in Given[e] : BeginEdit(e, a)
    <3>1. PICK a \in Given[e] : BeginEdit(e, a)
      BY <2>1
    <3>2. /\ arg'[e] = a /\ file'[e] = a.file /\ UNCHANGED text /\ (a.file # None => Exists(a.file))
          /\ pc'[e] \in {"editing", "resolving"} /\ (pc'[e] = "editing" => a.file # None)
      BY <1>1, <3>1 DEF BeginEdit, Begin, CallsOK, cache, Calls
    <3> QED BY <3>2, GivenArguments DEF Exists
  <2>2. CASE pc[e] \in {"resolving", "fetching", "editing", "waiting"} /\ arg'[e] = arg[e]
    <3>1. arg[e] \in Arguments /\ (arg[e].file # None => Exists(arg[e].file))
      BY <2>2 DEF Shapes
    <3>2. arg[e].file # None => Exists(arg[e].file)'
      BY <1>2, <2>2, <3>1 DEF Arguments, Exists
    <3>3. CASE Resolve(e)
      BY <1>1, <2>2, <3>1, <3>2, <3>3, ResolvesTo DEF Resolve, Go, Named, CallsOK, Exists, Calls
    <3>4. CASE Fetch(e)
      <4>1. PICK s \in Sheets : WriteRead(e, s) /\ file' = [file EXCEPT ![e] = e]
        BY <3>4 DEF Fetch, Named, Path
      <4>2. text[e] = None /\ e \in Files
        BY <3>4 DEF Fetch, Shapes, Files
      <4>3. text'[e] # None
        BY <1>1, <4>1, <4>2, WriteReadType DEF CacheOK
      <4>4. file'[e] = e /\ e # None /\ pc'[e] = "editing"
        BY <1>1, <3>4, <4>1, CallsAssumption DEF Fetch, Go, CallsOK, Calls
      <4> QED BY <2>2, <3>1, <3>2, <4>3, <4>4 DEF Exists
    <3>5. CASE ReadFirst(e)
      BY <1>1, <2>2, <3>1, <3>2, <3>5 DEF ReadFirst, Go, CallsOK, Shapes, Exists, Calls, cache
    <3>6. CASE pc'[e] = pc[e] /\ id'[e] = id[e] /\ file'[e] = file[e]
      <4>1. pc[e] \in {"editing", "waiting"} => Exists(file[e]) /\ file[e] \in Files
        BY <1>1 DEF Shapes, Exists, CallsOK
      <4> QED BY <1>2, <1>6, <2>2, <3>1, <3>2, <3>6, <4>1 DEF Shapes, Exists
    <3> QED BY <1>6, <2>2, <3>3, <3>4, <3>5, <3>6, EditMoves DEF BeginEdit, Begin
  <2>3. CASE Resolve(e) \/ Fetch(e) \/ ReadFirst(e)
    BY <2>2, <2>3 DEF Resolve, Fetch, ReadFirst
  <2> QED BY <1>6, <2>1, <2>2, <2>3, EditMoves
<1> QED BY <1>3, <1>5, <1>6 DEF Shapes

LEMMA TypeStep ==
  ASSUME TypeOK, Shapes, Sending, [Next]_vars
  PROVE  TypeOK' /\ Shapes' /\ Sending'
<1>1. DesktopOK' /\ CacheOK' /\ CallsOK' /\ HoldsOK' /\ ApplyOK' /\ Sending'
  BY DesktopType, CacheType, CallsType, HoldsType, ApplyType
<1>2. TypeOK'
  BY <1>1 DEF TypeOK, DesktopOK, CacheOK, CallsOK, HoldsOK, ApplyOK
<1> QED BY <1>1, <1>2, ShapesStep

LEMMA TypeInit ==
  ASSUME Init
  PROVE  TypeOK /\ Shapes /\ Sending
<1>1. DesktopOK
  <2>1. <<1, 0>> \in Versions /\ 1 \in 1..MaxInstances /\ 0 \in 0..MaxChanges
    BY BoundsAssumption DEF Versions
  <2>2. PICK name \in [Sheets -> Names] :
          live = [s \in Sheets |-> [of |-> s, name |-> name[s], version |-> <<1, 0>>, edits |-> {}]]
    BY DEF Init
  <2> QED BY <2>1, <2>2 DEF Init, DesktopOK, Texts
<1>2. CacheOK /\ CallsOK /\ HoldsOK
  BY DEF Init, CacheOK, CallsOK, HoldsOK, Calls
<1>3. ApplyOK
  BY CallsAssumption, BoundsAssumption DEF Init, ApplyOK, Calls
<1>4. Shapes
  BY DEF Init, Shapes, Calls, Files
<1>5. Sending
  BY BoundsAssumption DEF Init, Sending
<1> QED BY <1>1, <1>2, <1>3, <1>4, <1>5, TypeParts

\* The variables have their types: a pointer and a sidecar have their file, a call that
\* holds a text has one, and the lock is with the one call that posts.
THEOREM TypeCorrect == Spec => []TypeOK
<1>1. TypeOK /\ Shapes /\ Sending /\ [Next]_vars => (TypeOK /\ Shapes /\ Sending)'
  BY TypeStep
<1> QED BY TypeInit, <1>1, PTL DEF Spec

-----------------------------------------------------------------------------
\* Edits accumulate

\* When calls are beside each other.
LEMMA CrowdSteps ==
  ASSUME TypeOK, [Next]_vars
  PROVE  \/ /\ UNCHANGED <<instance, listed>>
            /\ \E c \in Calls \ UnderWay :
                 /\ UnderWay' = UnderWay \cup {c}
                 /\ crowded' = IF UnderWay = {} THEN {} ELSE UnderWay \cup {c}
         \/ /\ UNCHANGED <<instance, listed>>
            /\ \E c \in UnderWay : UnderWay' = UnderWay \ {c} /\ crowded' = crowded \ {c}
         \/ UNCHANGED <<instance, listed>> /\ UnderWay' = UnderWay /\ crowded' = crowded
         \/ UnderWay' = UnderWay /\ crowded' = UnderWay
         \/ UnderWay' = {}
<1>1. CallsOK
  BY TypeParts
<1>2. ASSUME NEW c \in Calls, NEW a, NEW to \in {"editing", "resolving", "reading", "applying"},
             Begin(c, a, to), UNCHANGED desktop
      PROVE  /\ UNCHANGED <<instance, listed>>
             /\ \E d \in Calls \ UnderWay :
                  /\ UnderWay' = UnderWay \cup {d}
                  /\ crowded' = IF UnderWay = {} THEN {} ELSE UnderWay \cup {d}
  <2>1. c \in Calls \ UnderWay
    BY <1>2 DEF Begin, UnderWay
  <2>2. UnderWay' = UnderWay \cup {c}
    BY <1>1, <1>2 DEF Begin, UnderWay, CallsOK
  <2> QED BY <1>2, <2>1, <2>2 DEF Begin, desktop
<1>3. ASSUME NEW c \in UnderWay, Return(c), UNCHANGED <<instance, listed>>
      PROVE  \E d \in UnderWay : UnderWay' = UnderWay \ {d} /\ crowded' = crowded \ {d}
  <2>1. UnderWay' = UnderWay \ {c}
    BY <1>1, <1>3 DEF Return, Go, UnderWay, CallsOK
  <2> QED BY <1>3, <2>1 DEF Return
<1>4. ASSUME NEW c \in UnderWay, NEW to \in {"fetching", "editing", "waiting", "posting", "closing"},
             Go(c, to)
      PROVE  UnderWay' = UnderWay
  BY <1>1, <1>4 DEF Go, UnderWay, CallsOK
<1>5. CASE UNCHANGED local /\ UNCHANGED <<instance, listed>> /\ crowded' = crowded
  BY <1>5 DEF UnderWay, local
<1>6. CASE UserChange \/ Rename \/ Restart \/ Relist
  BY <1>6 DEF UserChange, Rename, Restart, Relist, Beside, UnderWay, local
<1>7. CASE ServerDies
  BY <1>1, <1>7 DEF ServerDies, UnderWay, CallsOK
<1>8. ASSUME NEW e \in Edits, EditStep(e)
      PROVE  \/ \E c \in Calls, to \in {"editing", "resolving", "reading", "applying"} :
                   (\E a : Begin(c, a, to)) /\ UNCHANGED desktop
             \/ \E c \in UnderWay : Return(c) /\ UNCHANGED <<instance, listed>>
             \/ \E c \in UnderWay, to \in {"fetching", "editing", "waiting", "posting", "closing"} :
                   Go(c, to) /\ UNCHANGED <<instance, listed>> /\ crowded' = crowded
  <2>1. e \in Calls
    BY DEF Calls
  <2>2. CASE \E a \in Given[e] : BeginEdit(e, a)
    BY <2>1, <2>2 DEF BeginEdit
  <2>3. CASE Edit(e) \/ WriteAfter(e)
    BY <2>1, <2>3 DEF Edit, WriteAfter, WriteEdit, UnderWay, desktop
  <2>4. CASE Resolve(e)
    BY <2>1, <2>4 DEF Resolve, UnderWay, desktop
  <2>5. CASE Fetch(e)
    BY <2>1, <2>5 DEF Fetch, UnderWay, desktop, history
  <2>6. CASE ReadFirst(e)
    BY <2>1, <2>6 DEF ReadFirst, UnderWay, desktop, history
  <2> QED BY <1>8, <2>2, <2>3, <2>4, <2>5, <2>6 DEF EditStep
<1>9. ASSUME NEW r \in Reads, Read(r) \/ \E n \in Names : BeginRead(r, n)
      PROVE  \/ \E c \in Calls, to \in {"editing", "resolving", "reading", "applying"} :
                   (\E a : Begin(c, a, to)) /\ UNCHANGED desktop
             \/ \E c \in UnderWay : Return(c) /\ UNCHANGED <<instance, listed>>
  BY <1>9 DEF Read, BeginRead, UnderWay, Calls, desktop
<1>10. ASSUME NEW c \in Edits \cup Reads, Fail(c)
       PROVE  c \in UnderWay /\ Return(c) /\ UNCHANGED <<instance, listed>>
  BY <1>10 DEF Fail, UnderWay, Calls, desktop
<1>11. ASSUME NEW a \in Applies, ApplyStep(a)
       PROVE  \/ \E c \in Calls, to \in {"editing", "resolving", "reading", "applying"} :
                   (\E b : Begin(c, b, to)) /\ UNCHANGED desktop
              \/ \E c \in UnderWay : Return(c) /\ UNCHANGED <<instance, listed>>
              \/ \E c \in UnderWay, to \in {"fetching", "editing", "waiting", "posting", "closing"} :
                   Go(c, to) /\ UNCHANGED <<instance, listed>> /\ crowded' = crowded
              \/ UNCHANGED pc /\ UNCHANGED <<instance, listed>> /\ crowded' = crowded
  <2>1. a \in Calls
    BY DEF Calls
  <2>2. CASE \E f \in Files : BeginApply(a, f)
    BY <2>1, <2>2 DEF BeginApply
  <2>3. CASE Refuse(a) \/ PostFails(a) \/ Close(a)
    BY <2>1, <2>3 DEF Refuse, PostFails, Close, UnderWay, desktop
  <2>4. CASE Prepare(a) \/ Applied(a)
    BY <2>1, <2>4 DEF Prepare, Applied, UnderWay, desktop, history
  <2>5. CASE Land(a)
    BY <2>5 DEF Land
  <2> QED BY <1>11, <2>2, <2>3, <2>4, <2>5 DEF ApplyStep
<1>12. CASE UNCHANGED pc /\ UNCHANGED <<instance, listed>> /\ crowded' = crowded
  BY <1>12 DEF UnderWay
<1>13. CASE UNCHANGED vars
  BY <1>12, <1>13 DEF vars, local, desktop, history
<1> QED BY <1>2, <1>3, <1>4, <1>6, <1>7, <1>8, <1>9, <1>10, <1>11, <1>12, <1>13 DEF Next

LEMMA AloneStep ==
  ASSUME TypeOK, Alone, [Next]_vars
  PROVE  Alone'
BY CrowdSteps DEF Alone

\* A file that is there is changed by edits of it only, and its sidecar not at all.
LEMMA FileSteps ==
  ASSUME TypeOK, Shapes, [Next]_vars, NEW f \in Files, Exists(f)
  PROVE  /\ sidecar'[f] = sidecar[f]
         /\ \/ text'[f] = text[f]
            \/ \E e \in Edits :
                 /\ file[e] = f
                 /\ \/ pc[e] = "editing" /\ text'[f].edits = text[f].edits \cup {e}
                       /\ text'[f].version = text[f].version
                    \/ pc[e] = "waiting" /\ text'[f].edits = hold[e].edits \cup {e}
                       /\ text'[f].version = hold[e].version
<1>1. CacheOK
  BY TypeParts
<1>2. CASE UNCHANGED <<text, sidecar>>
  BY <1>2
<1>3. ASSUME NEW e \in Edits, Edit(e) PROVE sidecar'[f] = sidecar[f]
         /\ \/ text'[f] = text[f]
            \/ /\ file[e] = f
               /\ pc[e] = "editing" /\ text'[f].edits = text[f].edits \cup {e}
               /\ text'[f].version = text[f].version
  <2>1. WriteEdit(e, text[file[e]]) /\ Exists(file[e]) /\ text[file[e]] \in Texts /\ pc[e] = "editing"
    BY <1>3, StartsFrom DEF Edit
  <2> QED BY <2>1, WriteEditType
<1>4. ASSUME NEW e \in Edits, WriteAfter(e) PROVE sidecar'[f] = sidecar[f]
         /\ \/ text'[f] = text[f]
            \/ /\ file[e] = f
               /\ pc[e] = "waiting" /\ text'[f].edits = hold[e].edits \cup {e}
               /\ text'[f].version = hold[e].version
  <2>1. WriteEdit(e, hold[e]) /\ Exists(file[e]) /\ hold[e] \in Texts /\ pc[e] = "waiting"
    BY <1>4, StartsFrom DEF WriteAfter
  <2> QED BY <2>1, WriteEditType
<1>5. ASSUME NEW c \in Files, NEW s \in Sheets, WriteRead(c, s), text[c] = None
      PROVE  sidecar'[f] = sidecar[f] /\ text'[f] = text[f]
  BY <1>1, <1>5 DEF WriteRead, Path, Exists, CacheOK
<1>6. ASSUME NEW e \in Edits, Fetch(e) PROVE sidecar'[f] = sidecar[f] /\ text'[f] = text[f]
  BY <1>5, <1>6 DEF Fetch, Shapes, Named, Files
<1>7. ASSUME NEW r \in Reads, Read(r) PROVE sidecar'[f] = sidecar[f] /\ text'[f] = text[f]
  BY <1>5, <1>7 DEF Read, Shapes, Named, Files
<1> QED BY CacheSteps, <1>2, <1>3, <1>4, <1>6, <1>7 DEF cache, Resolve, Close

\* A buffer keeps its file as long as something is owed to it, and its debt grows by the
\* edit of a call that is owed.
LEMMA DebtSteps ==
  ASSUME TypeOK, Shapes, Kept, [Next]_vars, NEW s \in Sheets
  PROVE  \/ due'[s] = {} \/ s \in astray'
         \/ s \notin astray /\ pointer'[s] = pointer[s] /\ due'[s] = due[s]
         \/ \E e \in Edits :
              /\ s \notin astray
              /\ pc[e] \in {"editing", "waiting"} /\ pc'[e] = "returned"
              /\ e \notin crowded /\ Seen(e) /\ file[e] = pointer[s]
              /\ pointer'[s] = pointer[s] /\ due'[s] = due[s] \cup {e}
              /\ text'[pointer[s]] # None /\ e \in text'[pointer[s]].edits
<1>1. CacheOK /\ CallsOK /\ due \in [Sheets -> SUBSET Edits]
  BY TypeParts DEF Shapes
<1>2. ASSUME NEW e \in Edits, NEW old \in Texts, WriteEdit(e, old), Exists(file[e]),
             pc[e] \in {"editing", "waiting"}, s \notin astray'
      PROVE  /\ s \notin astray /\ pointer'[s] = pointer[s]
             /\ \/ due'[s] = due[s]
                \/ /\ pc'[e] = "returned" /\ e \notin crowded /\ Seen(e) /\ file[e] = pointer[s]
                   /\ due'[s] = due[s] \cup {e}
                   /\ text'[pointer[s]] # None /\ e \in text'[pointer[s]].edits
  <2>1. UNCHANGED pointer /\ s \notin astray
    BY <1>2 DEF WriteEdit
  <2>2. CASE e \in crowded \/ s \notin Leads(e)
    BY <1>1, <1>2, <2>1, <2>2 DEF WriteEdit
  <2>3. CASE e \notin crowded /\ s \in Leads(e)
    <3>1. due'[s] = due[s] \cup {e} /\ pointer[s] = file[e] /\ Seen(e)
      BY <1>2, <2>3 DEF WriteEdit
    <3>2. pc'[e] = "returned"
      BY <1>1, <1>2 DEF WriteEdit, Return, Go, CallsOK, Calls
    <3>3. text'[file[e]] # None /\ e \in text'[file[e]].edits
      BY <1>2, WriteEditType
    <3> QED BY <2>1, <2>3, <3>1, <3>2, <3>3
  <2> QED BY <2>2, <2>3
<1> DEFINE Settled == \/ due'[s] = {} \/ s \in astray'
                      \/ s \notin astray /\ pointer'[s] = pointer[s] /\ due'[s] = due[s]
<1>3. ASSUME NEW t, NEW f, Cancel(t), Point(t, f) PROVE Settled
  BY <1>1, <1>3 DEF Cancel, Point, CacheOK
<1>4. CASE UNCHANGED pointer /\ (CancelAll \/ UNCHANGED <<due, astray>>)
  BY <1>4 DEF CancelAll
<1>5. ASSUME NEW e \in Edits, Resolve(e) PROVE Settled
  <2>1. CASE UNCHANGED <<pointer, due>> /\ astray \subseteq astray'
    BY <2>1
  <2>2. CASE \E t \in Sheets, f \in Files : Point(t, f) /\ (Cancel(t) \/ (UNCHANGED <<due, astray>> /\ f = pointer[t]))
    BY <1>1, <1>3, <2>2 DEF Point, CacheOK
  <2>3. PICK t \in Sheets : \E f \in IF arg[e].file # None THEN {arg[e].file} ELSE Sticky(t) :
          \/ UNCHANGED <<pointer, due>> /\ astray \subseteq astray'
          \/ /\ f # None /\ Point(t, f)
             /\ (IF f = pointer[t] THEN UNCHANGED <<due, astray>> ELSE Cancel(t))
    BY <1>5 DEF Resolve, Named
  <2>4. \A f \in IF arg[e].file # None THEN {arg[e].file} ELSE Sticky(t) : f # None => f \in Files
    BY <1>5, ResolvesTo DEF Resolve
  <2> QED BY <2>1, <2>2, <2>3, <2>4
<1>6. ASSUME NEW e \in Edits, Fetch(e) PROVE Settled
  <2>1. pc[e] = "fetching" /\ (id[e] \in astray \/ due[id[e]] = {}) /\ Point(id[e], Path(e, e))
    BY <1>6 DEF Fetch, Kept, Path
  <2>2. CASE id[e] \in astray
    BY <1>3, <1>6, <2>1, <2>2 DEF Fetch
  <2>3. CASE id[e] \notin astray
    BY <1>1, <1>6, <2>1, <2>3 DEF Fetch, Point, CacheOK
  <2> QED BY <2>2, <2>3
<1>7. ASSUME NEW e \in Edits, EditStep(e)
      PROVE  \/ Settled
             \/ \E d \in Edits, old \in Texts :
                  WriteEdit(d, old) /\ Exists(file[d]) /\ pc[d] \in {"editing", "waiting"}
  <2>1. CASE \E a \in Given[e] : BeginEdit(e, a)
    BY <1>4, <2>1 DEF BeginEdit, Begin, cache
  <2>2. CASE Edit(e) \/ WriteAfter(e)
    BY <2>2, StartsFrom DEF Edit, WriteAfter
  <2>3. CASE ReadFirst(e)
    BY <1>4, <2>3 DEF ReadFirst, cache, history
  <2> QED BY <1>5, <1>6, <1>7, <2>1, <2>2, <2>3 DEF EditStep
<1>8. ASSUME NEW r \in Reads, Read(r) \/ \E n \in Names : BeginRead(r, n) PROVE Settled
  <2>1. CASE Read(r)
    BY <1>3, <2>1 DEF Read
  <2>2. CASE \E n \in Names : BeginRead(r, n)
    BY <1>4, <2>2 DEF BeginRead, Begin, cache
  <2> QED BY <1>8, <2>1, <2>2
<1>9. ASSUME NEW c \in Edits \cup Reads, Fail(c) PROVE Settled
  BY <1>4, <1>9 DEF Fail, Owing, cache
<1>10. ASSUME NEW a \in Applies, ApplyStep(a) PROVE Settled
  <2>1. CASE Close(a)
    BY <1>3, <1>4, <2>1 DEF Close
  <2>2. CASE \E f \in Files : BeginApply(a, f)
    BY <1>4, <2>2 DEF BeginApply, Begin, cache
  <2>3. CASE Prepare(a) \/ Refuse(a) \/ PostFails(a) \/ Applied(a) \/ Land(a)
    BY <1>4, <2>3 DEF Prepare, Refuse, PostFails, Applied, Land, Owing, cache, history
  <2> QED BY <1>10, <2>1, <2>2, <2>3 DEF ApplyStep
<1>11. CASE UserChange \/ Rename \/ Restart \/ Relist \/ ServerDies \/ UNCHANGED vars
  BY <1>4, <1>11 DEF UserChange, Rename, Restart, Relist, ServerDies, Beside, Owing, cache, history, vars
<1> QED BY <1>2, <1>7, <1>8, <1>9, <1>10, <1>11 DEF Next

\* What is answered as done in a file is in it, and no other edit is about to write there.
LEMMA AnswerSteps ==
  ASSUME TypeOK, Shapes, [Next]_vars, NEW f \in Files
  PROVE  \/ answered'[f] = answered[f]
         \/ \E e \in Edits :
              /\ file[e] = f /\ pc'[e] = "returned" /\ AboutToWrite(f) \subseteq {e}
              /\ answered'[f] = answered[f] \cup {e}
              /\ Exists(f)' /\ e \in text'[f].edits
<1>1. CallsOK /\ answered \in [Files -> SUBSET Edits]
  BY TypeParts DEF Shapes
<1>2. CASE UNCHANGED answered
  BY <1>2
<1>3. ASSUME NEW e \in Edits, NEW old \in Texts, WriteEdit(e, old), Exists(file[e]), answered'[f] # answered[f]
      PROVE  /\ file[e] = f /\ pc'[e] = "returned" /\ AboutToWrite(f) \subseteq {e}
             /\ answered'[f] = answered[f] \cup {e}
             /\ Exists(f)' /\ e \in text'[f].edits
  <2>1. file[e] = f /\ AboutToWrite(f) \subseteq {e} /\ answered'[f] = answered[f] \cup {e}
    BY <1>1, <1>3 DEF WriteEdit
  <2>2. pc'[e] = "returned"
    BY <1>1, <1>3 DEF WriteEdit, Return, Go, CallsOK, Calls
  <2> QED BY <1>3, <2>1, <2>2, WriteEditType DEF Exists
<1>4. CASE \E e \in Edits : Edit(e) \/ WriteAfter(e)
  <2>1. PICK e \in Edits, old \in Texts : WriteEdit(e, old) /\ Exists(file[e])
    BY <1>4, StartsFrom DEF Edit, WriteAfter
  <2> QED BY <1>3, <2>1
<1>5. CASE \E e \in Edits : (\E a \in Given[e] : BeginEdit(e, a)) \/ Resolve(e) \/ Fetch(e) \/ ReadFirst(e)
  BY <1>2, <1>5 DEF BeginEdit, Begin, Resolve, Fetch, ReadFirst, history
<1>6. CASE \E r \in Reads : Read(r) \/ \E n \in Names : BeginRead(r, n)
  BY <1>2, <1>6 DEF Read, BeginRead, Begin
<1>7. CASE \E c \in Edits \cup Reads : Fail(c)
  BY <1>2, <1>7 DEF Fail, Owing
<1>8. CASE \E a \in Applies : ApplyStep(a)
  BY <1>2, <1>8 DEF ApplyStep, BeginApply, Begin, Prepare, Refuse, PostFails, Applied, Close, Land, Owing, history
<1>9. CASE UserChange \/ Rename \/ Restart \/ Relist \/ ServerDies \/ UNCHANGED vars
  BY <1>2, <1>9 DEF UserChange, Rename, Restart, Relist, ServerDies, Beside, Owing, vars, history
<1> QED BY <1>4, <1>5, <1>6, <1>7, <1>8, <1>9 DEF Next, EditStep

LEMMA InDraftsStep ==
  ASSUME TypeOK, Shapes, InDrafts, KeptInItsFile, [Next]_vars
  PROVE  InDrafts'
<1> SUFFICES ASSUME NEW e \in Edits, pc'[e] = "waiting"
             PROVE  answered'[file'[e]] \subseteq hold'[e].edits
  BY DEF InDrafts
<1>1. CallsOK /\ HoldsOK
  BY TypeParts
<1>2. CASE ReadFirst(e)
  <2>1. UNCHANGED <<answered, file>> /\ hold'[e] = text[file[e]] /\ file[e] \in Files
    BY <1>1, <1>2 DEF ReadFirst, HoldsOK, CallsOK, Calls, history
  <2> QED BY <2>1 DEF KeptInItsFile
<1>3. CASE pc'[e] = pc[e] /\ file'[e] = file[e] /\ hold'[e] = hold[e]
  <2>1. answered[file[e]] \subseteq hold[e].edits
    BY <1>3 DEF InDrafts
  <2>2. file[e] \in Files /\ e \in AboutToWrite(file[e])
    BY <1>1, <1>3 DEF Shapes, Exists, CallsOK, AboutToWrite
  <2>3. answered'[file[e]] = answered[file[e]]
    BY <1>3, <2>2, AnswerSteps
  <2> QED BY <1>3, <2>1, <2>3
<1>4. CASE (\E a \in Given[e] : BeginEdit(e, a)) \/ Resolve(e) \/ Fetch(e)
  BY <1>1, <1>4 DEF BeginEdit, Begin, Resolve, Fetch, Go, CallsOK, Calls
<1> QED BY <1>2, <1>3, <1>4, EditMoves

LEMMA KeptInItsFileStep ==
  ASSUME TypeOK, Shapes, InDrafts, KeptInItsFile, [Next]_vars
  PROVE  KeptInItsFile'
<1> SUFFICES ASSUME NEW f \in Files, answered'[f] # {}
             PROVE  Exists(f)' /\ answered'[f] \subseteq text'[f].edits
  BY DEF KeptInItsFile, Exists
<1>1. ASSUME answered[f] # {} PROVE Exists(f)' /\ answered[f] \subseteq text'[f].edits
  <2>1. Exists(f) /\ answered[f] \subseteq text[f].edits
    BY <1>1 DEF KeptInItsFile
  <2>2. Exists(f)'
    BY <2>1, FilesStay
  <2>3. answered[f] \subseteq text'[f].edits
    BY <2>1, FileSteps DEF InDrafts
  <2> QED BY <2>2, <2>3
<1> QED BY <1>1, AnswerSteps

LEMMA FoundStep ==
  ASSUME TypeOK, Shapes, Alone, Found, [Next]_vars
  PROVE  Found'
<1> SUFFICES ASSUME NEW e \in Edits, e \notin crowded', pc'[e] \in {"editing", "waiting"}, arg'[e].file = None
             PROVE  Vouched(file[e])'
  BY DEF Found
<1>1. CacheOK /\ CallsOK /\ DesktopOK /\ CallsOK'
  BY TypeParts, CallsType
<1>2. CASE \E a \in Given[e] : BeginEdit(e, a)
  BY <1>1, <1>2 DEF BeginEdit, Begin, CallsOK, Calls
<1>3. CASE Resolve(e)
  <2>1. UNCHANGED <<arg, sidecar, instance, listed>>
    BY <1>3 DEF Resolve, desktop
  <2>2. PICK s \in Sheets : \E f \in Sticky(s) : file' = [file EXCEPT ![e] = f] /\ f # None
    BY <1>1, <1>3, <2>1 DEF Resolve, Go, Named, CallsOK, Calls
  <2> QED BY <1>1, <2>1, <2>2 DEF Sticky, Vouched, Here, CallsOK
<1>4. CASE Fetch(e)
  <2>1. PICK s \in Sheets : WriteRead(e, s) /\ file' = [file EXCEPT ![e] = e]
    BY <1>4 DEF Fetch, Named, Path
  <2>2. text[e] = None /\ e \in Files /\ UNCHANGED instance
    BY <1>4 DEF Fetch, Shapes, Files, desktop
  <2>3. sidecar'[e] # None => sidecar'[e].instance = instance'
    <3>1. sidecar'[e] # None => sidecar'[e] = [instance |-> instance, hash |-> live[s]]
      BY <2>1, <2>2, WriteReadType
    <3> QED BY <2>2, <3>1
  <2> QED BY <1>1, <2>1, <2>3 DEF Vouched, Here, CallsOK
<1>5. CASE pc'[e] = pc[e] /\ arg'[e] = arg[e] /\ file'[e] = file[e]
  <2>1. e \in UnderWay /\ e \in UnderWay'
    BY <1>1, <1>5 DEF UnderWay, Calls
  <2>2. e \notin crowded /\ UNCHANGED <<instance, listed>>
    BY <2>1, CrowdSteps
  <2>3. Vouched(file[e]) /\ Exists(file[e]) /\ file[e] \in Files
    BY <1>1, <1>5, <2>2 DEF Found, Shapes, Exists, CallsOK
  <2> QED BY <1>5, <2>2, <2>3, FileSteps DEF Vouched, Here
<1>6. CASE ReadFirst(e)
  <2>1. pc[e] = "editing" /\ UNCHANGED <<arg, file, sidecar, instance, listed, crowded>>
    BY <1>6 DEF ReadFirst, desktop, cache, history
  <2> QED BY <2>1 DEF Found, Vouched, Here
<1> QED BY <1>2, <1>3, <1>4, <1>5, <1>6, EditMoves

\* Nothing is owed to a buffer no file of which can be used.
LEMMA KeptStep ==
  ASSUME TypeOK, Shapes, Alone, Kept, FoundByName, [Next]_vars
  PROVE  Kept'
<1>1. CacheOK /\ CallsOK /\ HoldsOK /\ due \in [Sheets -> SUBSET Edits]
  BY TypeParts DEF Shapes
<1>2. ASSUME NEW e \in Edits, pc[e] \in {"fetching", "waiting"}, NEW s \in Sheets, pc'[e] = pc[e]
      PROVE  due'[s] = {} \/ s \in astray' \/ (s \notin astray /\ due'[s] = due[s] /\ pointer'[s] = pointer[s])
  <2>1. ASSUME NEW d \in Edits, pc[d] \in {"editing", "waiting"}, pc'[d] = "returned", d \notin crowded PROVE FALSE
    <3>1. e \in UnderWay /\ d \in UnderWay \ crowded
      BY <1>2, <2>1 DEF UnderWay, Calls
    <3>2. e = d
      BY <3>1 DEF Alone
    <3> QED BY <1>2, <2>1, <3>2
  <2> QED BY <2>1, DebtSteps
<1>3. ASSUME NEW e \in Edits, pc'[e] = "fetching" PROVE due'[id'[e]] = {} \/ id'[e] \in astray'
  <2>1. CASE Resolve(e)
    <3>1. PICK s \in Sheets : /\ id' = [id EXCEPT ![e] = s] /\ UNCHANGED due
                            /\ astray' = IF pointer[s] \in Sticky(s) \ {None} THEN astray \cup {s} ELSE astray
      BY <1>1, <1>3, <2>1 DEF Resolve, Go, Named, CallsOK, Calls
    <3>2. due[s] = {} \/ s \in astray'
      BY <3>1 DEF FoundByName, Sticky, Vouched
    <3> QED BY <1>1, <3>1, <3>2 DEF CallsOK
  <2>2. CASE pc'[e] = pc[e] /\ id'[e] = id[e]
    BY <1>2, <1>3, <2>2 DEF Kept, Shapes
  <2>3. CASE (\E a \in Given[e] : BeginEdit(e, a)) \/ Fetch(e) \/ ReadFirst(e)
    BY <1>1, <1>3, <2>3 DEF BeginEdit, Begin, Fetch, ReadFirst, Go, CallsOK, Calls
  <2> QED BY <1>3, <2>1, <2>2, <2>3, EditMoves
<1>4. ASSUME NEW e \in Edits, pc'[e] = "waiting", NEW s \in Sheets \ astray', pointer'[s] = file'[e]
      PROVE  due'[s] \subseteq hold'[e].edits
  <2>1. CASE ReadFirst(e)
    <3>1. /\ UNCHANGED <<due, astray, pointer, text, file>>
          /\ hold'[e] = text[file[e]]
      BY <1>1, <2>1 DEF ReadFirst, HoldsOK, Calls, cache, history
    <3> QED BY <1>4, <3>1 DEF FoundByName
  <2>2. CASE pc'[e] = pc[e] /\ file'[e] = file[e] /\ hold'[e] = hold[e]
    BY <1>2, <1>4, <2>2 DEF Kept
  <2>3. CASE (\E a \in Given[e] : BeginEdit(e, a)) \/ Resolve(e) \/ Fetch(e)
    BY <1>1, <1>4, <2>3 DEF BeginEdit, Begin, Resolve, Fetch, Go, CallsOK, Calls
  <2> QED BY <1>4, <2>1, <2>2, <2>3, EditMoves
<1> QED BY <1>3, <1>4 DEF Kept

LEMMA FoundByNameStep ==
  ASSUME TypeOK, Shapes, Found, Kept, FoundByName, [Next]_vars
  PROVE  FoundByName'
<1> SUFFICES ASSUME NEW s \in Sheets, s \notin astray', due'[s] # {}
             PROVE  /\ pointer'[s] # None
                    /\ due'[s] \subseteq text'[pointer'[s]].edits
                    /\ Here(pointer[s])'
  BY DEF FoundByName, Here
<1>1. CacheOK /\ CallsOK
  BY TypeParts
<1>2. UNCHANGED instance
  <2>1. CASE Restart
    BY <2>1 DEF Restart, CancelAll
  <2> QED BY <2>1, DesktopSteps DEF desktop, Land, UserChange, Rename, Relist
\* The file of the buffer is there, and what it owes is in it still.
<1>3. ASSUME s \notin astray, pointer'[s] = pointer[s], pointer[s] # None, Here(pointer[s])
      PROVE  Here(pointer[s])' /\ (due[s] # {} => due[s] \subseteq text'[pointer[s]].edits)
  <2>1. pointer[s] \in Files /\ Exists(pointer[s])
    BY <1>1, <1>3 DEF CacheOK, Exists
  <2>2. sidecar'[pointer[s]] = sidecar[pointer[s]]
    BY <2>1, FileSteps
  <2>3. ASSUME due[s] # {} PROVE due[s] \subseteq text'[pointer[s]].edits
    BY <1>3, <2>1, <2>3, FileSteps DEF FoundByName, Kept
  <2> QED BY <1>2, <1>3, <2>2, <2>3 DEF Here
<1>4. CASE s \notin astray /\ pointer'[s] = pointer[s] /\ due'[s] = due[s]
  BY <1>3, <1>4 DEF FoundByName
<1>5. ASSUME NEW e \in Edits,
             s \notin astray,
             pc[e] \in {"editing", "waiting"}, e \notin crowded, Seen(e), file[e] = pointer[s],
             pointer'[s] = pointer[s], due'[s] = due[s] \cup {e},
             text'[pointer[s]] # None, e \in text'[pointer[s]].edits
      PROVE  /\ pointer'[s] # None
             /\ due'[s] \subseteq text'[pointer'[s]].edits
             /\ Here(pointer[s])'
  <2>1. pointer[s] # None
    BY <1>1, <1>5 DEF Shapes, Exists
  <2>2. Here(pointer[s])
    BY <1>5 DEF Seen, Found, Vouched
  <2> QED BY <1>3, <1>5, <2>1, <2>2
<1> QED BY <1>4, <1>5, DebtSteps

\* Edits accumulate.  An edit that was answered as done stays in the file its answer names,
\* whatever fails, is renamed, read, closed or restarted, unless another one wrote that file
\* from a text it had read before.  And what calls were told nothing happened beside is in
\* the file a following call by name edits, until the buffer is closed or Desktop serves anew,
\* unless the pointer was not written or not read or the file could not be checked.
THEOREM NothingIsLost == Spec => []Accumulates
<1>1. Init => AInv /\ Sending
  <2> SUFFICES ASSUME Init PROVE AInv /\ Sending
    OBVIOUS
  <2>1. UnderWay = {} /\ \A e \in Edits : pc[e] = "idle"
    BY DEF Init, UnderWay, Calls
  <2>2. (\A s \in Sheets : due[s] = {}) /\ \A f \in Files : answered[f] = {}
    BY DEF Init
  <2> QED BY <2>1, <2>2, TypeInit
          DEF AInv, InDrafts, Alone, Found, Kept, Accumulates, KeptInItsFile, FoundByName
<1>2. AInv /\ Sending /\ [Next]_vars => (AInv /\ Sending)'
  <2> SUFFICES ASSUME AInv, Sending, [Next]_vars PROVE (AInv /\ Sending)'
    OBVIOUS
  <2>1. TypeOK' /\ Shapes' /\ Sending'
    BY TypeStep DEF AInv
  <2>2. InDrafts' /\ Alone' /\ Found' /\ Kept'
    BY InDraftsStep, AloneStep, FoundStep, KeptStep DEF AInv, Accumulates
  <2>3. Accumulates'
    BY KeptInItsFileStep, FoundByNameStep DEF AInv, Accumulates
  <2> QED BY <2>1, <2>2, <2>3 DEF AInv
<1>3. AInv => Accumulates
  BY DEF AInv
<1> QED BY <1>1, <1>2, <1>3, PTL DEF Spec

-----------------------------------------------------------------------------
\* What an apply undoes

\* An apply keeps its hash, and its text while its POST is on its way.
LEMMA ApplyMoves ==
  ASSUME TypeOK, [Next]_vars, NEW a \in Applies
  PROVE  \/ \E f \in Files : BeginApply(a, f)
         \/ Prepare(a)
         \/ /\ hash'[a] = hash[a]
            /\ inflight'[a] \in {inflight[a], 0}
            /\ inflight'[a] # 0 => hold'[a] = hold[a]
            /\ pc'[a] = "applying" => pc[a] = "applying" /\ hold'[a] = hold[a]
<1>1. CallsOK /\ HoldsOK /\ ApplyOK
  BY TypeParts
<1> DEFINE Same(b) == /\ hash'[b] = hash[b]
                      /\ inflight'[b] \in {inflight[b], 0}
                      /\ inflight'[b] # 0 => hold'[b] = hold[b]
                      /\ pc'[b] = "applying" => pc[b] = "applying" /\ hold'[b] = hold[b]
<1>2. CASE UNCHANGED <<local, applying>>
  BY <1>2 DEF local, applying
<1>3. ASSUME NEW e \in Edits, EditStep(e) PROVE Same(a)
  <2>1. UNCHANGED <<hash, applying>>
    BY <1>3 DEF EditStep, BeginEdit, Begin, Resolve, Fetch, Edit, ReadFirst, WriteAfter, WriteEdit, Return
  <2>2. pc'[a] = pc[a] /\ hold'[a] = hold[a]
    BY <1>1, <1>3, CallsAssumption
       DEF EditStep, BeginEdit, Begin, Resolve, Fetch, Edit, ReadFirst, WriteAfter, WriteEdit, Return,
           Go, CallsOK, HoldsOK, Calls
  <2> QED BY <2>1, <2>2 DEF applying
<1>4. ASSUME NEW r \in Reads, Read(r) \/ \E n \in Names : BeginRead(r, n) PROVE Same(a)
  BY <1>1, <1>4, CallsAssumption
     DEF Read, BeginRead, Begin, Return, Go, CallsOK, HoldsOK, Calls, applying
<1>5. ASSUME NEW c \in Edits \cup Reads, Fail(c) PROVE Same(a)
  BY <1>1, <1>5, CallsAssumption DEF Fail, Return, Go, CallsOK, HoldsOK, Calls, applying
<1>6. ASSUME NEW b \in Applies, Refuse(b) \/ PostFails(b) \/ Close(b) PROVE Same(a)
  <2>1. Return(b) /\ (UNCHANGED inflight \/ GiveUp(b))
    BY <1>6 DEF Refuse, PostFails, Close, applying
  <2>2. inflight'[a] \in {inflight[a], 0}
    BY <1>1, <2>1 DEF GiveUp, ApplyOK
  <2> QED BY <1>1, <2>1, <2>2 DEF Return, Go, CallsOK, HoldsOK, Calls
<1>7. ASSUME NEW b \in Applies, Applied(b) PROVE Same(a)
  BY <1>1, <1>7 DEF Applied, Go, CallsOK, Calls
<1>8. ASSUME NEW b \in Applies, Land(b) PROVE Same(a)
  BY <1>1, <1>8 DEF Land, HoldsOK, ApplyOK, Calls
<1>9. ASSUME NEW b \in Applies \ {a}, (\E f \in Files : BeginApply(b, f)) \/ Prepare(b) PROVE Same(a)
  BY <1>1, <1>9 DEF BeginApply, Begin, Prepare, Go, CallsOK, HoldsOK, ApplyOK, Calls, applying
<1>10. CASE ServerDies
  BY <1>1, <1>10 DEF ServerDies, UnderWay, CallsOK, Calls
<1>11. CASE UserChange \/ Rename \/ Restart \/ Relist \/ UNCHANGED vars
  BY <1>2, <1>11 DEF UserChange, Rename, Restart, Relist, vars
<1> QED BY <1>3, <1>4, <1>5, <1>6, <1>7, <1>8, <1>9, <1>10, <1>11 DEF Next, ApplyStep

\* Races are remembered, and only the landing of a POST undoes anything.
LEMMA UndoneSteps ==
  ASSUME [Next]_vars
  PROVE  raced \subseteq raced' /\ (undone' = undone \/ \E a \in Applies : Land(a) /\ undone' \subseteq undone \cup {a})
<1>1. CASE \E e \in Edits : EditStep(e)
  BY <1>1 DEF EditStep, BeginEdit, Begin, Resolve, Fetch, Edit, ReadFirst, WriteAfter, WriteEdit, history
<1>2. CASE \E r \in Reads : Read(r) \/ \E n \in Names : BeginRead(r, n)
  BY <1>2 DEF Read, BeginRead, Begin
<1>3. CASE \E c \in Edits \cup Reads : Fail(c)
  BY <1>3 DEF Fail
<1>4. CASE \E a \in Applies : ApplyStep(a)
  BY <1>4 DEF ApplyStep, BeginApply, Begin, Prepare, Refuse, PostFails, Applied, Close, Land, history
<1>5. CASE UserChange \/ Rename \/ Restart \/ Relist \/ ServerDies \/ UNCHANGED vars
  BY <1>5 DEF UserChange, Rename, Restart, Relist, ServerDies, Raced, vars, history
<1> QED BY <1>1, <1>2, <1>3, <1>4, <1>5 DEF Next

LEMMA StampedStep ==
  ASSUME TypeOK, Shapes, Stamped, Drafted, [Next]_vars
  PROVE  Stamped'
<1> SUFFICES ASSUME NEW f \in Files, sidecar'[f] # None PROVE MadeFrom(text'[f], sidecar'[f].hash)
  BY DEF Stamped, MadeFrom
<1>1. CacheOK
  BY TypeParts
<1>2. CASE Exists(f)
  <2>1. sidecar'[f] = sidecar[f]
    BY <1>2, FileSteps
  <2>2. MadeFrom(text[f], sidecar[f].hash)
    BY <2>1 DEF Stamped
  <2>3. CASE text'[f] = text[f]
    BY <2>1, <2>2, <2>3
  <2>4. ASSUME NEW e \in Edits, file[e] = f, pc[e] = "editing",
               text'[f].edits = text[f].edits \cup {e}, text'[f].version = text[f].version
        PROVE  MadeFrom(text'[f], sidecar'[f].hash)
    BY <2>1, <2>2, <2>4 DEF MadeFrom
  <2>5. ASSUME NEW e \in Edits, file[e] = f, pc[e] = "waiting",
               text'[f].edits = hold[e].edits \cup {e}, text'[f].version = hold[e].version
        PROVE  MadeFrom(text'[f], sidecar'[f].hash)
    <3>1. MadeFrom(hold[e], sidecar[f].hash)
      BY <2>1, <2>5 DEF Drafted
    <3> QED BY <2>1, <2>5, <3>1 DEF MadeFrom
  <2> QED BY <1>2, <2>3, <2>4, <2>5, FileSteps
<1>3. CASE ~Exists(f)
  <2>1. sidecar[f] = None /\ text[f] = None
    BY <1>1, <1>3, CallsAssumption DEF Exists, CacheOK, Files, Calls
  <2>2. ASSUME NEW c \in Files, NEW s \in Sheets, WriteRead(c, s), text[c] = None
        PROVE  MadeFrom(text'[f], sidecar'[f].hash)
    <3>1. f = c /\ text' = [text EXCEPT ![c] = live[s]] /\ sidecar'[f] = [instance |-> instance, hash |-> live[s]]
      BY <2>1, <2>2, WriteReadType
    <3>2. text'[f] = live[s] /\ sidecar'[f].hash = live[s]
      BY <1>1, <3>1 DEF CacheOK
    <3> QED BY <3>2 DEF MadeFrom
  <2>3. ASSUME NEW e \in Edits, Edit(e) \/ WriteAfter(e) PROVE FALSE
    <3>1. UNCHANGED sidecar
      BY <2>3 DEF Edit, WriteAfter, WriteEdit
    <3> QED BY <2>1, <3>1
  <2>4. ASSUME NEW e \in Edits, Fetch(e) PROVE MadeFrom(text'[f], sidecar'[f].hash)
    BY <2>2, <2>4 DEF Fetch, Shapes, Named, Files
  <2>5. ASSUME NEW r \in Reads, Read(r) PROVE MadeFrom(text'[f], sidecar'[f].hash)
    <3>1. ~UNCHANGED <<text, sidecar>>
      BY <2>1
    <3> QED BY <2>2, <2>5, <3>1 DEF Read, Shapes, Named, Files
  <2> QED BY <2>1, <2>3, <2>4, <2>5, CacheSteps DEF cache, Resolve, Close
<1> QED BY <1>2, <1>3

LEMMA DraftedStep ==
  ASSUME TypeOK, Shapes, Stamped, Drafted, [Next]_vars
  PROVE  Drafted'
<1> SUFFICES ASSUME NEW e \in Edits, pc'[e] = "waiting", sidecar'[file'[e]] # None
             PROVE  MadeFrom(hold'[e], sidecar'[file'[e]].hash)
  BY DEF Drafted, MadeFrom
<1>1. CallsOK /\ HoldsOK
  BY TypeParts
<1>2. CASE ReadFirst(e)
  <2>1. UNCHANGED <<sidecar, file>> /\ hold'[e] = text[file[e]] /\ Exists(file[e]) /\ file[e] \in Files
    BY <1>1, <1>2 DEF ReadFirst, HoldsOK, CallsOK, Shapes, Exists, Calls, cache
  <2> QED BY <2>1 DEF Stamped
<1>3. CASE pc'[e] = pc[e] /\ file'[e] = file[e] /\ hold'[e] = hold[e]
  <2>1. Exists(file[e]) /\ file[e] \in Files
    BY <1>1, <1>3 DEF Shapes, Exists, CallsOK
  <2>2. sidecar'[file[e]] = sidecar[file[e]]
    BY <2>1, FileSteps
  <2> QED BY <1>3, <2>2 DEF Drafted
<1>4. CASE (\E a \in Given[e] : BeginEdit(e, a)) \/ Resolve(e) \/ Fetch(e)
  BY <1>1, <1>4 DEF BeginEdit, Begin, Resolve, Fetch, Go, CallsOK, Calls
<1> QED BY <1>2, <1>3, <1>4, EditMoves

LEMMA CheckedStep ==
  ASSUME TypeOK, Stamped, Checked, [Next]_vars
  PROVE  Checked'
<1> SUFFICES ASSUME NEW a \in Applies, pc'[a] = "applying", hash'[a] # None
             PROVE  MadeFrom(hold'[a], hash'[a])
  BY DEF Checked, MadeFrom
<1>1. CallsOK /\ HoldsOK
  BY TypeParts
<1>2. ASSUME NEW f \in Files, BeginApply(a, f) PROVE MadeFrom(hold'[a], hash'[a])
  <2>1. hold'[a] = text[f] /\ sidecar[f] # None /\ hash'[a] = sidecar[f].hash
    BY <1>1, <1>2 DEF BeginApply, HoldsOK, Calls
  <2> QED BY <2>1 DEF Stamped
<1>3. CASE Prepare(a)
  BY <1>1, <1>3 DEF Prepare, Go, CallsOK, Calls
<1>4. CASE pc[a] = "applying" /\ hold'[a] = hold[a] /\ hash'[a] = hash[a]
  BY <1>4 DEF Checked
<1> QED BY <1>2, <1>3, <1>4, ApplyMoves

LEMMA UnracedStep ==
  ASSUME TypeOK, Sending, Checked, Unraced, [Next]_vars
  PROVE  Unraced'
<1> SUFFICES ASSUME NEW a \in Applies, a \notin raced', inflight'[a] = instance', hash'[a] # None
             PROVE  MadeFrom(hold'[a], live'[Target(a)'])
  BY DEF Unraced, MadeFrom, Target
<1>1. DesktopOK /\ HoldsOK /\ ApplyOK /\ DesktopOK'
  BY TypeParts, DesktopType
<1>2. inflight'[a] # 0 /\ a \notin raced
  BY <1>1, UndoneSteps DEF DesktopOK
<1>3. ASSUME NEW f \in Files, BeginApply(a, f) PROVE FALSE
  <2>1. inflight'[a] = inflight[a] /\ pc[a] = "idle"
    BY <1>3 DEF BeginApply, Begin, applying
  <2> QED BY <1>2, <2>1 DEF Sending
<1>4. CASE Prepare(a)
  <2>1. UNCHANGED <<live, hold, hash>> /\ pc[a] = "applying" /\ live[Target(a)] = hash[a]
    BY <1>4 DEF Prepare, desktop
  <2>2. MadeFrom(hold[a], live[Target(a)])
    BY <2>1 DEF Checked
  <2> QED BY <2>1, <2>2 DEF Target
<1>5. CASE hash'[a] = hash[a] /\ inflight'[a] = inflight[a] /\ hold'[a] = hold[a]
  <2>1. ~Restart
    <3>1. Restart => instance' = instance + 1
      BY DEF Restart
    <3> QED BY <1>1, <1>5, <3>1 DEF Sending, DesktopOK
  <2>2. UNCHANGED instance
    BY <2>1, DesktopSteps DEF desktop, Land, UserChange, Rename, Relist
  <2>3. MadeFrom(hold[a], live[Target(a)]) /\ hold[a] \in Texts
    BY <1>1, <1>2, <1>5, <2>2 DEF Unraced, Sending, HoldsOK, Calls
  <2>4. ASSUME NEW b \in Applies, Land(b) PROVE live'[Target(a)] = live[Target(a)]
    <3>1. b # a
      BY <1>1, <1>2, <2>4 DEF Land, ApplyOK
    <3>2. Target(b) # Target(a)
      BY <1>2, <1>5, <2>4, <3>1 DEF Land
    <3>3. live' = [live EXCEPT ![Target(b)].version = hold[b].version, ![Target(b)].edits = hold[b].edits]
      BY <2>4 DEF Land
    <3>4. Target(a) \in Sheets
      BY <2>3 DEF Target, Texts
    <3> QED BY <1>1, <3>2, <3>3, <3>4 DEF DesktopOK
  <2>5. ASSUME UserChange PROVE live'[Target(a)] = live[Target(a)]
    BY <1>1, <1>2, <1>5, <2>3, <2>5 DEF UserChange, Raced, DesktopOK, Target, Texts
  <2>6. ASSUME Rename PROVE live'[Target(a)] = live[Target(a)]
    BY <1>2, <1>5, <2>3, <2>6 DEF Rename, Raced, Target, Texts
  <2>7. live'[Target(a)] = live[Target(a)]
    BY <2>1, <2>4, <2>5, <2>6, DesktopSteps DEF desktop, Relist
  <2> QED BY <1>5, <2>3, <2>7 DEF Target
<1> QED BY <1>2, <1>3, <1>4, <1>5, ApplyMoves

LEMMA UndoesStep ==
  ASSUME TypeOK, Sending, Unraced, undone \subseteq Applies, UndoesOnlyInARace, [Next]_vars
  PROVE  undone' \subseteq Applies /\ UndoesOnlyInARace'
<1>1. undone' \subseteq Applies
  BY UndoneSteps
<1>2. ASSUME NEW a \in Applies, a \in undone', hash'[a] # None, a \notin raced' PROVE FALSE
  <2>1. a \notin raced
    BY <1>2, UndoneSteps
  <2>2. hash'[a] = hash[a] /\ (a \in undone => hash[a] # None)
    <3>1. CASE Prepare(a)
      BY <1>2, <3>1 DEF Prepare
    <3>2. ASSUME NEW f \in Files, BeginApply(a, f) PROVE FALSE
      <4>1. pc[a] = "idle" /\ UNCHANGED undone
        BY <3>2 DEF BeginApply, Begin
      <4> QED BY <1>2, <4>1 DEF Sending
    <3> QED BY <1>2, <3>1, <3>2, ApplyMoves
  <2>3. a \notin undone
    BY <1>2, <2>1, <2>2 DEF UndoesOnlyInARace
  <2>4. Land(a)
    BY <1>2, <2>3, UndoneSteps
  <2>5. MadeFrom(hold[a], live[Target(a)])
    BY <1>2, <2>1, <2>2, <2>4 DEF Land, Unraced
  <2> QED BY <1>2, <2>3, <2>4, <2>5 DEF Land, MadeFrom
<1> QED BY <1>1, <1>2 DEF UndoesOnlyInARace

\* An apply that was given a hash undoes only changes made while its POST was on its way: no
\* edit puts an old text under the hash of a newer read.
THEOREM OnlyRacesUndo == Spec => []UndoesOnlyInARace
<1>1. Init => UInv
  <2> SUFFICES ASSUME Init PROVE UInv
    OBVIOUS
  <2>1. /\ \A f \in Files : sidecar[f] = None
        /\ \A c \in Calls : pc[c] = "idle"
        /\ \A a \in Applies : hash[a] = None
        /\ undone = {}
    BY DEF Init
  <2> QED BY <2>1, TypeInit
          DEF UInv, Stamped, Drafted, Checked, Unraced, UndoesOnlyInARace, Calls
<1>2. UInv /\ [Next]_vars => UInv'
  BY TypeStep, StampedStep, DraftedStep, CheckedStep, UnracedStep, UndoesStep DEF UInv
<1>3. UInv => UndoesOnlyInARace
  BY DEF UInv
<1> QED BY <1>1, <1>2, <1>3, PTL DEF Spec
===============================================================================
