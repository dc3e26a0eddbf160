------------------------- MODULE DesktopApplyProofs -------------------------
(***************************************************************************)
(* Theorems about DesktopApply, for any applies, sheets, targets, routes   *)
(* and any number of user edits.                                           *)
(***************************************************************************)
EXTENDS DesktopApply, TLAPS

LEMMA VersionTypes ==
    ASSUME NEW c \in Applies, NEW n \in 0..MaxEdits
    PROVE  ApplyVersion(c) \in Version /\ UserVersion(n) \in Version
  BY DEF ApplyVersion, UserVersion, Version

LEMMA AfterType ==
    ASSUME TypeOK, NEW c \in Applies
    PROVE  After(c) \in Document
  <1>1. Target[c] \in Sheets
    BY TargetAssumption
  <1>2. ApplyVersion(c) \in Version
    BY DEF ApplyVersion, Version
  <1>3. Seen(c) \in Document
    BY DEF TypeOK, Seen
  <1>4. Posted(c) \in Document
    BY <1>1, <1>2, <1>3 DEF Posted, Document
  <1> QED BY <1>4 DEF After, TypeOK, Document

LEMMA InitTypeOK == Init => TypeOK
  <1> SUFFICES ASSUME Init PROVE TypeOK
    OBVIOUS
  <1>1. 0 \in 0..MaxEdits
    BY MaxEditsAssumption
  <1>2. UserVersion(0) \in Version
    BY <1>1 DEF UserVersion, Version
  <1>3. doc \in Document
    BY <1>2 DEF Init, Document
  <1>4. base \in [Applies -> Document] /\ snap \in [Applies -> Document]
    BY <1>3 DEF Init
  <1>5. pc \in [Applies -> {"idle", "cached", "waiting", "done"} \union Inside]
        /\ outcome \in [Applies -> Outcomes]
    BY DEF Init, Outcomes
  <1>6. tail \in Seq(Applies) /\ writer \in [Sheets -> SUBSET Applies]
    <2>1. tail = <<>> /\ writer = [s \in Sheets |-> {}]
      BY DEF Init
    <2>2. <<>> \in Seq(Applies)
      OBVIOUS
    <2> QED BY <2>1, <2>2
  <1>7. /\ edits = 0 /\ inflight = {} /\ landed = {} /\ loose = {} /\ clobbered = {}
    BY DEF Init
  <1> QED BY <1>1, <1>3, <1>4, <1>5, <1>6, <1>7 DEF TypeOK

-----------------------------------------------------------------------------
\* The lock: an apply that is past its read is the first of the chain, so no
\* other is.  Without it a call that leaves could take another out of the chain.
LockInv == \A c \in Applies : pc[c] \in Inside => tail # <<>> /\ Head(tail) = c

PcTypeOK == pc \in [Applies -> {"idle", "cached", "waiting", "done"} \union Inside]

LEMMA HeadOfAppend ==
    ASSUME NEW S, NEW q \in Seq(S), NEW e \in S, q # <<>>
    PROVE  /\ Append(q, e) \in Seq(S)
           /\ Append(q, e) # <<>>
           /\ Head(Append(q, e)) = Head(q)
  OBVIOUS

LEMMA NextCases ==
    ASSUME Next, NEW P,
           UserEdit => P,
           \A c \in Applies :
               /\ Land(c) => P
               /\ Fail(c) => P
               /\ Cache(c) => P
               /\ Submit(c) => P
               /\ Read(c) => P
               /\ Post(c) => P
               /\ Ended(c) => P
               /\ GiveUp(c) => P
               /\ ReadBack(c) => P,
           UNCHANGED vars => P
    PROVE  P
  BY DEF Next, Desktop, Tool, Progress, Finished

\* The first of the chain leaves it.
LEMMA LeaveLock ==
    ASSUME TypeOK, LockInv, NEW c \in Applies, NEW r \in Outcomes, Leave(c, r),
           tail # <<>>, Head(tail) = c
    PROVE  /\ PcTypeOK'
           /\ outcome' \in [Applies -> Outcomes]
           /\ tail' \in Seq(Applies)
           /\ loose' \subseteq Applies
           /\ LockInv'
  <1>1. PcTypeOK' /\ outcome' \in [Applies -> Outcomes] /\ loose' \subseteq Applies
    BY DEF Leave, TypeOK, PcTypeOK
  <1>2. tail' \in Seq(Applies)
    BY DEF Leave, TypeOK
  <1>3. \A d \in Applies : pc'[d] \notin Inside
    <2> SUFFICES ASSUME NEW d \in Applies PROVE pc'[d] \notin Inside
      OBVIOUS
    <2>1. CASE d = c
      BY <2>1 DEF Leave, TypeOK, Inside
    <2>2. CASE d # c
      BY <2>2 DEF Leave, TypeOK, LockInv
    <2> QED BY <2>1, <2>2
  <1> QED BY <1>1, <1>2, <1>3 DEF LockInv

\* A POST that was not sent is nowhere: what keeps a POST from being sent twice.
SentInv ==
    \A c \in Applies :
        pc[c] \in {"idle", "cached", "waiting", "posting"} => c \notin inflight \union landed

LEMMA NextSentInv == TypeOK /\ SentInv /\ [Next]_vars => SentInv'
  <1> SUFFICES ASSUME TypeOK, SentInv, [Next]_vars,
                      NEW d \in Applies, pc'[d] \in {"idle", "cached", "waiting", "posting"}
               PROVE  d \notin inflight' \union landed'
    BY DEF SentInv
  <1> USE DEF SentInv, TypeOK
  <1>1. UserEdit => d \notin inflight' \union landed'
    BY DEF UserEdit, callVars
  <1>2. ASSUME NEW c \in Applies
        PROVE  /\ Land(c) => d \notin inflight' \union landed'
               /\ Fail(c) => d \notin inflight' \union landed'
               /\ Cache(c) => d \notin inflight' \union landed'
               /\ Submit(c) => d \notin inflight' \union landed'
    BY DEF Land, Fail, Cache, Submit, callVars
  <1>3. ASSUME NEW c \in Applies
        PROVE  /\ Read(c) => d \notin inflight' \union landed'
               /\ Post(c) => d \notin inflight' \union landed'
               /\ Ended(c) => d \notin inflight' \union landed'
               /\ GiveUp(c) => d \notin inflight' \union landed'
               /\ ReadBack(c) => d \notin inflight' \union landed'
    BY DEF Read, Post, Ended, GiveUp, ReadBack, Leave
  <1>4. UNCHANGED vars => d \notin inflight' \union landed'
    BY DEF vars, callVars
  <1> QED BY <1>1, <1>2, <1>3, <1>4, NextCases

LEMMA NextTypeOK == TypeOK /\ LockInv /\ SentInv /\ [Next]_vars => TypeOK' /\ LockInv'
  <1> SUFFICES ASSUME TypeOK, LockInv, SentInv, [Next]_vars PROVE TypeOK' /\ LockInv'
    OBVIOUS
  <1>1. UserEdit => TypeOK' /\ LockInv'
    <2> SUFFICES ASSUME UserEdit PROVE TypeOK' /\ LockInv'
      OBVIOUS
    <2>1. edits' \in 0..MaxEdits
      BY MaxEditsAssumption DEF UserEdit, TypeOK
    <2>2. UserVersion(edits + 1) \in Version
      BY <2>1 DEF UserEdit, UserVersion, Version
    <2>3. doc' \in Document /\ writer' \in [Sheets -> SUBSET Applies]
      BY <2>2 DEF UserEdit, TypeOK, Document
    <2> QED BY <2>1, <2>3 DEF UserEdit, TypeOK, LockInv, callVars
  <1>2. ASSUME NEW c \in Applies PROVE Land(c) => TypeOK' /\ LockInv'
    <2> SUFFICES ASSUME Land(c) PROVE TypeOK' /\ LockInv'
      OBVIOUS
    <2>1. doc' \in Document
      BY AfterType DEF Land
    <2>2. writer' \in [Sheets -> SUBSET Applies]
      BY DEF Land, TypeOK
    <2>3. clobbered' \subseteq Applies \X Applies
      <3>1. UNION {writer[s] : s \in Unseen(c)} \subseteq Applies
        BY TargetAssumption DEF TypeOK, Unseen, Scope
      <3> QED BY <3>1 DEF Land, TypeOK
    <2> QED BY <2>1, <2>2, <2>3 DEF Land, TypeOK, LockInv, callVars
  <1>3. ASSUME NEW c \in Applies PROVE Fail(c) => TypeOK' /\ LockInv'
    BY DEF Fail, TypeOK, LockInv, desktopVars, callVars, historyVars
  <1>4. ASSUME NEW c \in Applies PROVE Cache(c) => TypeOK' /\ LockInv'
    BY DEF Cache, TypeOK, LockInv, Inside, desktopVars, historyVars
  <1>5. ASSUME NEW c \in Applies PROVE Submit(c) => TypeOK' /\ LockInv'
    <2> SUFFICES ASSUME Submit(c) PROVE TypeOK' /\ LockInv'
      OBVIOUS
    <2>1. tail' \in Seq(Applies)
      BY DEF Submit, TypeOK
    <2>2. PcTypeOK'
      BY DEF Submit, TypeOK, PcTypeOK
    <2>3. LockInv'
      <3> SUFFICES ASSUME NEW d \in Applies, pc'[d] \in Inside
                   PROVE  tail' # <<>> /\ Head(tail') = d
        BY DEF LockInv
      <3>1. pc[d] \in Inside
        BY DEF Submit, TypeOK, Inside
      <3>2. tail # <<>> /\ Head(tail) = d /\ tail \in Seq(Applies)
        BY <3>1 DEF LockInv, TypeOK
      <3> QED BY <3>2, HeadOfAppend DEF Submit
    <2> QED BY <2>1, <2>2, <2>3 DEF Submit, TypeOK, PcTypeOK, desktopVars, historyVars
  <1>6. ASSUME NEW c \in Applies PROVE Read(c) => TypeOK' /\ LockInv'
    <2> SUFFICES ASSUME Read(c) PROVE TypeOK' /\ LockInv'
      OBVIOUS
    <2>1. tail # <<>> /\ Head(tail) = c
      BY DEF Read, Turn
    <2>2. snap' \in [Applies -> Document]
      BY DEF Read, TypeOK
    <2>3. UNCHANGED <<doc, edits, base, inflight, landed, writer, clobbered>>
      BY DEF Read, desktopVars
    <2>4. CASE \E r \in {"read-error", "drift"} : Leave(c, r)
      <3>1. PICK r \in Outcomes : Leave(c, r)
        BY <2>4 DEF Outcomes
      <3> QED BY <2>1, <2>2, <2>3, <3>1, LeaveLock DEF TypeOK, PcTypeOK
    <2>5. CASE pc' = [pc EXCEPT ![c] = "posting"] /\ UNCHANGED <<tail, outcome, loose>>
      BY <2>1, <2>2, <2>3, <2>5 DEF TypeOK, LockInv, Inside
    <2> QED BY <2>4, <2>5 DEF Read
  <1>7. ASSUME NEW c \in Applies PROVE Post(c) => TypeOK' /\ LockInv'
    <2> SUFFICES ASSUME Post(c) PROVE TypeOK' /\ LockInv'
      OBVIOUS
    <2>1. tail # <<>> /\ Head(tail) = c
      BY DEF Post, LockInv, Inside
    <2>2. UNCHANGED <<doc, edits, base, snap, landed, writer, clobbered>>
      BY DEF Post, desktopVars
    <2>3. CASE Leave(c, "rejected") /\ UNCHANGED inflight
      BY <2>1, <2>2, <2>3, LeaveLock DEF TypeOK, PcTypeOK, Outcomes
    <2>4. CASE pc' = [pc EXCEPT ![c] = "posted"] /\ UNCHANGED <<tail, outcome, loose>>
      <3>1. inflight' \subseteq Applies /\ inflight' \intersect landed = {}
        BY <2>4 DEF Post, TypeOK, SentInv, Leave
      <3> QED BY <2>1, <2>2, <2>4, <3>1 DEF TypeOK, LockInv, Inside
    <2> QED BY <2>3, <2>4 DEF Post
  <1>8. ASSUME NEW c \in Applies
        PROVE  /\ Ended(c) => TypeOK' /\ LockInv'
               /\ GiveUp(c) => TypeOK' /\ LockInv'
               /\ ReadBack(c) => TypeOK' /\ LockInv'
    <2>1. ASSUME UNCHANGED <<desktopVars, base, snap, inflight, landed, writer, clobbered>>,
                 pc[c] \in Inside,
                 \E r \in {"applied", "failed", "unknown", "unsettled"} : Leave(c, r)
          PROVE  TypeOK' /\ LockInv'
      <3>1. PICK r \in Outcomes : Leave(c, r)
        BY <2>1 DEF Outcomes
      <3>2. tail # <<>> /\ Head(tail) = c
        BY <2>1 DEF LockInv
      <3> QED BY <2>1, <3>1, <3>2, LeaveLock DEF TypeOK, PcTypeOK, desktopVars
    <2>2. ASSUME Ended(c), pc' = [pc EXCEPT ![c] = "verifying"], UNCHANGED <<tail, outcome, loose>>
          PROVE  TypeOK' /\ LockInv'
      BY <2>2 DEF Ended, TypeOK, LockInv, Inside, desktopVars
    <2>3. Ended(c) => TypeOK' /\ LockInv'
      BY <2>1, <2>2 DEF Ended, Inside
    <2>4. GiveUp(c) => TypeOK' /\ LockInv'
      BY <2>1 DEF GiveUp, Inside
    <2>5. ReadBack(c) => TypeOK' /\ LockInv'
      BY <2>1 DEF ReadBack, Inside
    <2> QED BY <2>3, <2>4, <2>5
  <1>9. UNCHANGED vars => TypeOK' /\ LockInv'
    BY DEF vars, desktopVars, callVars, historyVars, TypeOK, LockInv
  <1> QED
    BY <1>1, <1>2, <1>3, <1>4, <1>5, <1>6, <1>7, <1>8, <1>9, NextCases

\* The state of the lock and of the applies keeps its type, and at most one
\* apply is past its read: the first of the chain.
THEOREM LockHeldByHead == Spec => [](TypeOK /\ LockInv /\ SentInv)
  <1>1. Init => LockInv /\ SentInv
    BY DEF Init, LockInv, SentInv, Inside
  <1> QED BY <1>1, InitTypeOK, NextTypeOK, NextSentInv, PTL DEF Spec

-----------------------------------------------------------------------------
(***************************************************************************)
(* Why an apply cannot overwrite a change it has not seen.  Until its POST *)
(* lands, everything that differs from what it works from was put there by *)
(* the user or by an apply that left the lock early: all others are either *)
(* done and landed, or still wait for the lock.                            *)
(***************************************************************************)

\* A POST in flight belongs to the apply that holds the lock, or to one that
\* left it early.
FlightInv == \A c \in Applies : c \in inflight => pc[c] \in Inside \/ c \in loose

\* An apply that has read and not yet landed, and holds the lock.
Working(c) == pc[c] = "posting" \/ (c \in inflight /\ c \notin loose)

FreshInv == \A c \in Applies : Working(c) /\ ~Blind(c) => \A s \in Unseen(c) : writer[s] \subseteq loose

ApplyInv == FlightInv /\ FreshInv /\ ClobberNeedsLooseApply

LEMMA InitApplyInv == Init => ApplyInv
  BY DEF Init, ApplyInv, FlightInv, FreshInv, Working, ClobberNeedsLooseApply

LEMMA LooseGrows == TypeOK /\ [Next]_vars => loose \subseteq loose'
  <1> SUFFICES ASSUME TypeOK, [Next]_vars PROVE loose \subseteq loose'
    OBVIOUS
  <1>1. UserEdit => loose \subseteq loose'
    BY DEF UserEdit
  <1>2. ASSUME NEW c \in Applies
        PROVE  /\ Land(c) => loose \subseteq loose'
               /\ Fail(c) => loose \subseteq loose'
               /\ Cache(c) => loose \subseteq loose'
               /\ Submit(c) => loose \subseteq loose'
    BY DEF Land, Fail, Cache, Submit, historyVars
  <1>3. ASSUME NEW c \in Applies
        PROVE  /\ Read(c) => loose \subseteq loose'
               /\ Post(c) => loose \subseteq loose'
               /\ Ended(c) => loose \subseteq loose'
               /\ GiveUp(c) => loose \subseteq loose'
               /\ ReadBack(c) => loose \subseteq loose'
    BY DEF Read, Post, Ended, GiveUp, ReadBack, Leave
  <1>4. UNCHANGED vars => loose \subseteq loose'
    BY DEF vars, historyVars
  <1> QED BY <1>1, <1>2, <1>3, <1>4, NextCases

LEMMA NextFlightInv == TypeOK /\ FlightInv /\ [Next]_vars => FlightInv'
  <1> SUFFICES ASSUME TypeOK, FlightInv, [Next]_vars, NEW d \in Applies, d \in inflight'
               PROVE  pc'[d] \in Inside \/ d \in loose'
    BY DEF FlightInv
  <1> DEFINE P == pc'[d] \in Inside \/ d \in loose'
  <1> USE DEF FlightInv, TypeOK, Inside
  <1>1. UserEdit => P
    BY DEF UserEdit, callVars
  <1>2. ASSUME NEW c \in Applies
        PROVE  /\ Land(c) => P
               /\ Fail(c) => P
               /\ Cache(c) => P
               /\ Submit(c) => P
    BY DEF Land, Fail, Cache, Submit, callVars, historyVars
  <1>3. ASSUME NEW c \in Applies PROVE Read(c) => P
    BY DEF Read, Leave
  <1>4. ASSUME NEW c \in Applies PROVE Post(c) => P
    BY DEF Post, Leave
  <1>5. ASSUME NEW c \in Applies
        PROVE  /\ Ended(c) => P
               /\ GiveUp(c) => P
               /\ ReadBack(c) => P
    BY DEF Ended, GiveUp, ReadBack, Leave
  <1>6. UNCHANGED vars => P
    BY DEF vars, callVars, historyVars
  <1> QED BY <1>1, <1>2, <1>3, <1>4, <1>5, <1>6, NextCases

\* A step that leaves the document and what apply d works from alone.
LEMMA FreshFrame ==
    ASSUME NEW d \in Applies, Working(d), ~Blind(d), FreshInv, loose \subseteq loose',
           doc' = doc, writer' = writer, snap'[d] = snap[d], base'[d] = base[d]
    PROVE  \A s \in Unseen(d)' : writer'[s] \subseteq loose'
  BY DEF FreshInv, Unseen, Scope, Seen

\* Another apply that lands while d works left the lock before.
LEMMA LandingIsLoose ==
    ASSUME LockInv, FlightInv, NEW c \in Applies, NEW d \in Applies, c # d,
           Working(d), c \in inflight
    PROVE  c \in loose
  <1>1. pc[d] \in Inside
    BY DEF Working, FlightInv, Inside
  <1> QED BY <1>1 DEF LockInv, FlightInv

LEMMA NextFreshInv ==
    TypeOK /\ LockInv /\ SentInv /\ FlightInv /\ FreshInv /\ [Next]_vars => FreshInv'
  <1> SUFFICES ASSUME TypeOK, LockInv, SentInv, FlightInv, FreshInv, [Next]_vars,
                      NEW d \in Applies, Working(d)', ~Blind(d)
               PROVE  \A s \in Unseen(d)' : writer'[s] \subseteq loose'
    BY DEF FreshInv, Blind
  <1> DEFINE P == \A s \in Unseen(d)' : writer'[s] \subseteq loose'
  <1>0. loose \subseteq loose'
    BY LooseGrows
  <1>1. ASSUME UserEdit PROVE P
    <2>1. Working(d) /\ snap' = snap /\ base' = base /\ loose' = loose
      BY <1>1 DEF UserEdit, Working, callVars
    <2>2. ASSUME NEW s \in Unseen(d)' PROVE writer'[s] \subseteq loose'
      <3>1. s \in Sheets
        BY TargetAssumption DEF Unseen, Scope
      <3>2. writer'[s] = {} \/ (writer'[s] = writer[s] /\ doc'[s] = doc[s])
        BY <1>1, <3>1 DEF UserEdit, TypeOK, Document
      <3>3. doc'[s] = doc[s] => s \in Unseen(d)
        BY <2>1, <2>2 DEF Unseen, Scope, Seen
      <3> QED BY <1>0, <2>1, <3>2, <3>3 DEF FreshInv
    <2> QED BY <2>2
  <1>2. ASSUME NEW c \in Applies, Land(c) PROVE P
    <2>1. CASE c = d
      BY <1>2, <2>1 DEF Land, Working, SentInv, callVars
    <2>2. CASE c # d
      <3>1. Working(d) /\ c \in inflight /\ snap' = snap /\ base' = base
        BY <1>2, <2>2 DEF Land, Working, callVars
      <3>2. c \in loose
        BY <2>2, <3>1, LandingIsLoose
      <3>3. ASSUME NEW s \in Unseen(d)' PROVE writer'[s] \subseteq loose'
        <4>1. s \in Sheets
          BY TargetAssumption DEF Unseen, Scope
        <4>2. writer'[s] = {c} \/ (writer'[s] = writer[s] /\ doc'[s] = doc[s])
          BY <1>2, <4>1 DEF Land
        <4>3. doc'[s] = doc[s] => s \in Unseen(d)
          BY <3>1, <3>3 DEF Unseen, Scope, Seen
        <4> QED BY <1>0, <3>1, <3>2, <4>2, <4>3 DEF FreshInv
      <3> QED BY <3>3
    <2> QED BY <2>1, <2>2
  <1>3. ASSUME NEW c \in Applies, Fail(c) PROVE P
    <2>1. Working(d) /\ doc' = doc /\ writer' = writer /\ snap' = snap /\ base' = base
      BY <1>3 DEF Fail, Working, desktopVars, callVars, historyVars
    <2> QED BY <1>0, <2>1, FreshFrame
  <1>4. ASSUME NEW c \in Applies, Cache(c) PROVE P
    <2>1. Working(d) /\ c # d
      BY <1>4 DEF Cache, Working, SentInv, TypeOK, historyVars
    <2>2. doc' = doc /\ writer' = writer /\ snap' = snap /\ base'[d] = base[d]
      BY <1>4, <2>1 DEF Cache, TypeOK, desktopVars, historyVars
    <2> QED BY <1>0, <2>1, <2>2, FreshFrame
  <1>5. ASSUME NEW c \in Applies, Submit(c) PROVE P
    <2>1. Working(d)
      BY <1>5 DEF Submit, Working, TypeOK, historyVars
    <2>2. doc' = doc /\ writer' = writer /\ snap' = snap /\ base' = base
      BY <1>5 DEF Submit, desktopVars, historyVars
    <2> QED BY <1>0, <2>1, <2>2, FreshFrame
  <1>6. ASSUME NEW c \in Applies, Read(c) PROVE P
    <2>1. doc' = doc /\ writer' = writer /\ base' = base /\ inflight' = inflight
      BY <1>6 DEF Read, desktopVars
    <2>2. CASE Working(d) /\ c # d
      <3>1. snap'[d] = snap[d]
        BY <1>6, <2>2 DEF Read, TypeOK
      <3> QED BY <1>0, <2>1, <2>2, <3>1, FreshFrame
    <2>3. CASE ~(Working(d) /\ c # d)
      <3>1. c = d
        BY <1>0, <1>6, <2>1, <2>3 DEF Read, Leave, Working, TypeOK
      <3>2. c \notin inflight
        BY <1>6 DEF Read, SentInv
      <3>3. ~Drifted(c) /\ snap' = [snap EXCEPT ![c] = doc]
        BY <1>6, <2>1, <3>1, <3>2 DEF Read, Leave, Working, TypeOK
      <3>4. Unseen(d)' = {}
        <4>1. snap'[d] = doc
          BY <3>1, <3>3 DEF TypeOK
        <4>2. CASE Route[d] \in {"upsert", "artifact"}
          BY <2>1, <4>1, <4>2 DEF Unseen, Seen
        <4>3. CASE Route[d] = "workbook"
          BY <2>1, <3>1, <3>3, <4>3 DEF Unseen, Seen, Drifted
        <4>4. CASE Route[d] = "sheet"
          BY <2>1, <3>1, <3>3, <4>4 DEF Unseen, Seen, Scope, Drifted
        <4> QED BY <4>2, <4>3, <4>4, RouteAssumption
      <3> QED BY <3>4
    <2> QED BY <2>2, <2>3
  <1>7. ASSUME NEW c \in Applies, Post(c) PROVE P
    <2>1. doc' = doc /\ writer' = writer /\ snap' = snap /\ base' = base
      BY <1>7 DEF Post, desktopVars
    <2>2. Working(d)
      BY <1>0, <1>7 DEF Post, Leave, Working, TypeOK
    <2> QED BY <1>0, <2>1, <2>2, FreshFrame
  <1>8. ASSUME NEW c \in Applies, Ended(c) \/ GiveUp(c) \/ ReadBack(c) PROVE P
    <2>1. doc' = doc /\ writer' = writer /\ snap' = snap /\ base' = base /\ inflight' = inflight
      BY <1>8 DEF Ended, GiveUp, ReadBack, desktopVars
    <2>2. Working(d)
      BY <1>0, <1>8, <2>1 DEF Ended, GiveUp, ReadBack, Leave, Working, TypeOK
    <2> QED BY <1>0, <2>1, <2>2, FreshFrame
  <1>9. ASSUME UNCHANGED vars PROVE P
    <2>1. Working(d) /\ doc' = doc /\ writer' = writer /\ snap' = snap /\ base' = base
      BY <1>9 DEF vars, Working, desktopVars, callVars, historyVars
    <2> QED BY <1>0, <2>1, FreshFrame
  <1> QED BY <1>1, <1>2, <1>3, <1>4, <1>5, <1>6, <1>7, <1>8, <1>9, NextCases

LEMMA NextClobber ==
    ASSUME TypeOK, FreshInv, ClobberNeedsLooseApply, [Next]_vars
    PROVE  ClobberNeedsLooseApply'
  <1> DEFINE P == ClobberNeedsLooseApply'
  <1>0. loose \subseteq loose'
    BY LooseGrows
  <1>1. clobbered' = clobbered => P
    BY <1>0 DEF ClobberNeedsLooseApply, Blind
  <1>2. ASSUME NEW c \in Applies, Land(c) PROVE P
    <2> SUFFICES ASSUME NEW a \in Applies, NEW b \in Applies, <<a, b>> \in clobbered'
                 PROVE  Blind(a) \/ a \in loose \/ b \in loose
      BY <1>0 DEF ClobberNeedsLooseApply, Blind
    <2>1. CASE <<a, b>> \in clobbered
      BY <2>1 DEF ClobberNeedsLooseApply
    <2>2. CASE a = c /\ b \in UNION {writer[s] : s \in Unseen(c)}
      BY <1>2, <2>2 DEF FreshInv, Working, Land
    <2>3. <<a, b>> \in clobbered \union ({c} \X UNION {writer[s] : s \in Unseen(c)})
      BY <1>2 DEF Land
    <2> QED BY <2>1, <2>2, <2>3
  <1>3. UserEdit => P
    BY <1>1 DEF UserEdit
  <1>4. ASSUME NEW c \in Applies
        PROVE  /\ Fail(c) => P
               /\ Cache(c) => P
               /\ Submit(c) => P
               /\ Read(c) => P
               /\ Post(c) => P
               /\ Ended(c) => P
               /\ GiveUp(c) => P
               /\ ReadBack(c) => P
    BY <1>1 DEF Fail, Cache, Submit, Read, Post, Ended, GiveUp, ReadBack, historyVars
  <1>5. UNCHANGED vars => P
    BY <1>1 DEF vars, historyVars
  <1> QED BY <1>2, <1>3, <1>4, <1>5, NextCases

\* No apply overwrites a change of another apply that it has not seen, unless its
\* caller passed no source hash or one of the two left the lock with its POST still
\* in flight: what the promise
\* chain of applyMutex.ts and the source-hash comparisons guarantee for any
\* number of applies on any sheets.
THEOREM ClobberOnlyWhenLoose == Spec => []ClobberNeedsLooseApply
  <1> DEFINE I == TypeOK /\ LockInv /\ SentInv
             J == FlightInv /\ FreshInv /\ ClobberNeedsLooseApply
  <1>1. Init => J
    BY InitApplyInv DEF ApplyInv
  <1>2. I /\ J /\ [Next]_vars => J'
    BY NextFlightInv, NextFreshInv, NextClobber
  <1>3. J => ClobberNeedsLooseApply
    OBVIOUS
  <1>4. Spec => []I
    BY LockHeldByHead
  <1> HIDE DEF I, J
  <1> QED BY <1>1, <1>2, <1>3, <1>4, PTL DEF Spec

-----------------------------------------------------------------------------
\* What the caller is told.

\* A version of an apply is somewhere only if the apply landed.
VersionInv ==
    \A c, d \in Applies : \A s \in Sheets :
        ApplyVersion(c) \in {doc[s], base[d][s], snap[d][s]} => c \in landed

DoneInv ==
    \A c \in Applies :
        /\ outcome[c] # "" => pc[c] = "done"
        /\ c \in loose => pc[c] = "done"

LEMMA VersionsDiffer ==
    ASSUME NEW c, NEW d, NEW n
    PROVE  /\ ApplyVersion(c) = ApplyVersion(d) => c = d
           /\ ApplyVersion(c) # UserVersion(n)
  BY DEF ApplyVersion, UserVersion

LEMMA AfterVersions ==
    ASSUME TypeOK, VersionInv, NEW c \in Applies, NEW d \in Applies, NEW s \in Sheets,
           After(c)[s] = ApplyVersion(d)
    PROVE  d = c \/ d \in landed
  <1>1. After(c)[s] \in {doc[s], Seen(c)[s], ApplyVersion(c)}
    BY DEF After, Posted, Seen, TypeOK, Document
  <1>2. Seen(c)[s] \in {base[c][s], snap[c][s]}
    BY DEF Seen
  <1> QED BY <1>1, <1>2, VersionsDiffer DEF VersionInv

LEMMA NextVersionInv == TypeOK /\ VersionInv /\ [Next]_vars => VersionInv'
  <1> SUFFICES ASSUME TypeOK, VersionInv, [Next]_vars,
                      NEW a \in Applies, NEW b \in Applies, NEW s \in Sheets,
                      ApplyVersion(a) \in {doc'[s], base'[b][s], snap'[b][s]}
               PROVE  a \in landed'
    BY DEF VersionInv
  <1>1. ASSUME UserEdit PROVE a \in landed'
    <2>1. doc'[s] = doc[s] \/ doc'[s] = UserVersion(edits + 1)
      BY <1>1 DEF UserEdit, TypeOK, Document
    <2>2. UNCHANGED <<base, snap, landed>>
      BY <1>1 DEF UserEdit, callVars
    <2> QED BY <2>1, <2>2, VersionsDiffer DEF VersionInv
  <1>2. ASSUME NEW c \in Applies, Land(c) PROVE a \in landed'
    <2>1. UNCHANGED <<base, snap>> /\ landed' = landed \union {c} /\ doc' = After(c)
      BY <1>2 DEF Land, callVars
    <2>2. CASE ApplyVersion(a) = doc'[s]
      BY <2>1, <2>2, AfterVersions
    <2>3. CASE ApplyVersion(a) \in {base[b][s], snap[b][s]}
      BY <2>1, <2>3 DEF VersionInv
    <2> QED BY <2>1, <2>2, <2>3
  <1>3. ASSUME NEW c \in Applies, Cache(c) PROVE a \in landed'
    <2>1. UNCHANGED <<doc, snap, landed>> /\ base'[b] \in {base[b], doc}
      BY <1>3 DEF Cache, TypeOK, desktopVars
    <2> QED BY <2>1 DEF VersionInv
  <1>4. ASSUME NEW c \in Applies, Read(c) PROVE a \in landed'
    <2>1. UNCHANGED <<doc, base, landed>> /\ snap'[b] \in {snap[b], doc}
      BY <1>4 DEF Read, TypeOK, desktopVars
    <2> QED BY <2>1 DEF VersionInv
  <1>5. ASSUME NEW c \in Applies,
               Fail(c) \/ Submit(c) \/ Post(c) \/ Ended(c) \/ GiveUp(c) \/ ReadBack(c)
        PROVE  a \in landed'
    <2>1. UNCHANGED <<doc, base, snap, landed>>
      BY <1>5 DEF Fail, Submit, Post, Ended, GiveUp, ReadBack, desktopVars, callVars
    <2> QED BY <2>1 DEF VersionInv
  <1>6. ASSUME UNCHANGED vars PROVE a \in landed'
    BY <1>6 DEF vars, desktopVars, callVars, VersionInv
  <1> QED BY <1>1, <1>2, <1>3, <1>4, <1>5, <1>6, NextCases

LEMMA NextDoneInv == TypeOK /\ DoneInv /\ [Next]_vars => DoneInv'
  <1> SUFFICES ASSUME TypeOK, DoneInv, [Next]_vars, NEW d \in Applies
               PROVE  /\ outcome'[d] # "" => pc'[d] = "done"
                      /\ d \in loose' => pc'[d] = "done"
    BY DEF DoneInv
  <1> DEFINE P == /\ outcome'[d] # "" => pc'[d] = "done"
                  /\ d \in loose' => pc'[d] = "done"
  <1> USE DEF DoneInv, TypeOK
  <1>1. UserEdit => P
    BY DEF UserEdit, callVars
  <1>2. ASSUME NEW c \in Applies
        PROVE  /\ Land(c) => P
               /\ Fail(c) => P
               /\ Cache(c) => P
               /\ Submit(c) => P
    BY DEF Land, Fail, Cache, Submit, callVars, historyVars
  <1>3. ASSUME NEW c \in Applies
        PROVE  /\ Read(c) => P
               /\ Post(c) => P
    <2>1. Read(c) => P
      <3>1. ASSUME NEW r, Leave(c, r) PROVE P
        BY <3>1 DEF Leave
      <3>2. ASSUME pc[c] = "waiting", pc' = [pc EXCEPT ![c] = "posting"],
                   UNCHANGED <<outcome, loose>>
            PROVE  P
        BY <3>2
      <3> QED BY <3>1, <3>2 DEF Read
    <2>2. Post(c) => P
      BY DEF Post, Leave
    <2> QED BY <2>1, <2>2
  <1>4. ASSUME NEW c \in Applies
        PROVE  /\ Ended(c) => P
               /\ GiveUp(c) => P
               /\ ReadBack(c) => P
    BY DEF Ended, GiveUp, ReadBack, Leave
  <1>5. UNCHANGED vars => P
    BY DEF vars, callVars, historyVars
  <1> QED BY <1>1, <1>2, <1>3, <1>4, <1>5, NextCases

LEMMA NextOutcome ==
    ASSUME TypeOK, SentInv, VersionInv, DoneInv, OutcomeHolds, [Next]_vars
    PROVE  OutcomeHolds'
  <1> DEFINE Unsent(c) == outcome[c] \in {"read-error", "drift", "rejected", "failed"}
                            => c \notin inflight \union landed
             Kept(c) == outcome[c] = "applied" /\ Route[c] # "workbook" => c \in landed \ loose
  <1> SUFFICES ASSUME NEW d \in Applies PROVE Unsent(d)' /\ Kept(d)'
    BY DEF OutcomeHolds
  <1>0. Unsent(d) /\ Kept(d)
    BY DEF OutcomeHolds
  <1> DEFINE P == Unsent(d)' /\ Kept(d)'
  <1> USE DEF TypeOK
  <1>1. UserEdit => P
    BY <1>0 DEF UserEdit, callVars
  <1>2. ASSUME NEW c \in Applies
        PROVE  /\ Land(c) => P
               /\ Fail(c) => P
               /\ Cache(c) => P
               /\ Submit(c) => P
    BY <1>0 DEF Land, Fail, Cache, Submit, callVars, historyVars
  <1>3. ASSUME NEW c \in Applies, Read(c) PROVE P
    <2>1. c \notin inflight \union landed
      BY <1>3 DEF Read, SentInv
    <2>2. UNCHANGED <<inflight, landed>>
      BY <1>3 DEF Read
    <2>3. \/ outcome' = outcome /\ loose' = loose
          \/ outcome' = [outcome EXCEPT ![c] = "drift"] /\ loose' = loose
          \/ outcome' = [outcome EXCEPT ![c] = "read-error"] /\ loose' = loose
      BY <1>3, <2>1 DEF Read, Leave
    <2> QED BY <1>0, <2>1, <2>2, <2>3
  <1>4. ASSUME NEW c \in Applies, Post(c) PROVE P
    <2>1. c \notin inflight \union landed /\ outcome[c] = ""
      BY <1>4 DEF Post, SentInv, DoneInv
    <2>2. \/ outcome' = outcome /\ loose' = loose /\ inflight' = inflight \union {c}
          \/ outcome' = [outcome EXCEPT ![c] = "rejected"] /\ loose' = loose /\ inflight' = inflight
      BY <1>4, <2>1 DEF Post, Leave
    <2>3. landed' = landed
      BY <1>4 DEF Post
    <2> QED BY <1>0, <2>1, <2>2, <2>3
  <1>5. ASSUME NEW c \in Applies, Ended(c) PROVE P
    BY <1>0, <1>5 DEF Ended, Leave
  <1>6. ASSUME NEW c \in Applies, GiveUp(c) PROVE P
    BY <1>0, <1>6 DEF GiveUp, Leave
  <1>7. ASSUME NEW c \in Applies, ReadBack(c) PROVE P
    <2>1. UNCHANGED <<inflight, landed>> /\ c \notin loose
      BY <1>7 DEF ReadBack, DoneInv
    <2>2. CASE Leave(c, "unsettled")
      BY <1>0, <2>1, <2>2 DEF Leave
    <2>3. CASE doc[Target[c]] = ApplyVersion(c) /\ Leave(c, "applied")
      <3>1. c \in landed /\ c \notin inflight
        BY <2>3, TargetAssumption DEF VersionInv
      <3> QED BY <1>0, <2>1, <2>3, <3>1 DEF Leave
    <2> QED BY <1>7, <2>2, <2>3 DEF ReadBack
  <1>8. UNCHANGED vars => P
    BY <1>0 DEF vars, callVars, historyVars
  <1> QED BY <1>1, <1>2, <1>3, <1>4, <1>5, <1>6, <1>7, <1>8, NextCases

\* What the caller is told not to have been sent never lands, and what was read
\* back landed while its apply held the lock: drift, rejection and read-back
\* outcomes of the three routes, for any number of applies.
THEOREM OutcomesHold == Spec => []OutcomeHolds
  <1> DEFINE I == TypeOK /\ LockInv /\ SentInv
             J == VersionInv /\ DoneInv /\ OutcomeHolds
  <1>1. Init => J
    <2> SUFFICES ASSUME Init PROVE J
      OBVIOUS
    <2>1. \A d \in Applies : \A s \in Sheets :
            doc[s] = UserVersion(0) /\ base[d][s] = UserVersion(0) /\ snap[d][s] = UserVersion(0)
      BY DEF Init
    <2>2. VersionInv
      BY <2>1, VersionsDiffer DEF VersionInv
    <2>3. DoneInv /\ OutcomeHolds
      BY DEF Init, DoneInv, OutcomeHolds
    <2> QED BY <2>2, <2>3
  <1>2. I /\ J /\ [Next]_vars => J'
    BY NextVersionInv, NextDoneInv, NextOutcome
  <1>3. J => OutcomeHolds
    OBVIOUS
  <1>4. Spec => []I
    BY LockHeldByHead
  <1> HIDE DEF I, J
  <1> QED BY <1>1, <1>2, <1>3, <1>4, PTL DEF Spec
=============================================================================
