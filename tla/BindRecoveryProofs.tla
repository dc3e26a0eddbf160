-------------------------- MODULE BindRecoveryProofs --------------------------
(***************************************************************************)
(* Theorems about BindRecovery, for any calls, asks, proposals and caps:   *)
(*   OpenRecoveriesStay   an open recovery loses its place to nobody       *)
(*   TypeCorrect          the types                                        *)
(*   OutcomesAreFiled     an outcome is filed under its own call           *)
(*   NoChartTwice         a finished chart is not built again              *)
(*   CorrectedOnce        one bare call, one proposal, one correction      *)
(*   OffersStand          what an answer invites passes the gate           *)
(*                                                                         *)
(* Each operation on the map of records is described once (TouchListed,    *)
(* ReservedFields, RecordedFields, GatedIs, ...) and cited from there.     *)
(* Sound is the invariant of the types and of who filed what, GateOK that  *)
(* of what a call under way finds in the record of its ask.                *)
(***************************************************************************)
EXTENDS BindRecovery, SequenceTheorems, FiniteSetTheorems, TLAPS

\* A map of records, whatever it holds.
IsMap(map) ==
    /\ map = [of |-> map.of, order |-> map.order]
    /\ map.of = [a \in Asks |-> map.of[a]]

\* What two maps have in common for the ask b: its record is the same, or it was over and
\* has gone.
Spares(map, next, b) ==
    \/ next.of[b] = map.of[b]
    \/ next.of[b] = None /\ map.of[b].phase = "terminal"

\* From one map to the other only the ask a may have lost an open record.
Keeps(map, next, a) == IsMap(next) /\ \A b \in Asks \ {a} : Spares(map, next, b)

LEMMA KeepsSame ==
    ASSUME NEW map, NEW a, IsMap(map)
    PROVE  Keeps(map, map, a)
  BY DEF Keeps, Spares

LEMMA KeepsBoth ==
    ASSUME NEW map, NEW middle, NEW next, NEW a, Keeps(map, middle, a), Keeps(middle, next, a)
    PROVE  Keeps(map, next, a)
  BY DEF Keeps, Spares

LEMMA KeepsMap ==
    ASSUME NEW map, NEW next, NEW a, Keeps(map, next, a)
    PROVE  IsMap(next)
  BY DEF Keeps

LEMMA ForgetKeeps ==
    ASSUME NEW map, NEW a \in Asks, IsMap(map)
    PROVE  Keeps(map, Forget(map, a), a)
  BY DEF Forget, Keeps, Spares, IsMap

LEMMA TouchKeeps ==
    ASSUME NEW map, NEW a \in Asks, NEW r, IsMap(map)
    PROVE  Keeps(map, Touch(map, a, r), a)
  <1> DEFINE moved == [of |-> [map.of EXCEPT ![a] = r], order |-> Append(RemoveFirst(map.order, a), a)]
             spare == Evictable(moved, a)
             oldest == {i \in spare : \A j \in spare : i <= j}
             gone == IF oldest = {} THEN a ELSE moved.order[CHOOSE i \in oldest : TRUE]
  <1>1. Keeps(map, moved, a)
    BY DEF Keeps, Spares, IsMap
  <1>2. ASSUME NEW b \in Asks \ {a}, gone = b PROVE moved.of[b].phase = "terminal"
    <2>1. oldest # {}
      BY <1>2
    <2>2. PICK i \in oldest : gone = moved.order[i]
      BY <2>1
    <2>3. moved.of[moved.order[i]].phase = "terminal"
      BY <2>2 DEF Evictable
    <2> QED BY <2>2, <2>3, <1>2
  <1>3. Keeps(moved, Forget(moved, gone), a)
    <2> HIDE DEF gone
    <2>1. IsMap(moved)
      BY <1>1 DEF Keeps
    <2> HIDE DEF moved
    <2> QED BY <2>1, <1>2 DEF Forget, Keeps, Spares, IsMap
  <1>4. Touch(map, a, r) = IF Len(moved.order) <= MaxAsks THEN moved ELSE Forget(moved, gone)
    BY DEF Touch
  <1> HIDE DEF moved, gone
  <1> QED BY <1>1, <1>3, <1>4, KeepsBoth

LEMMA LookedKeeps ==
    ASSUME NEW map, NEW a \in Asks, IsMap(map)
    PROVE  Keeps(map, Looked(map, a), a)
  BY KeepsSame, TouchKeeps DEF Looked

LEMMA GatedKeeps ==
    ASSUME NEW map, NEW a \in Asks, NEW sig, NEW target, IsMap(map)
    PROVE  Keeps(map, Gated(map, a, sig, target), a)
  <1>1. \/ Gated(map, a, sig, target) = map
        \/ \E r : Gated(map, a, sig, target) = Touch(map, a, r)
    BY DEF Gated
  <1> QED BY <1>1, KeepsSame, TouchKeeps

LEMMA ReserveKeeps ==
    ASSUME NEW map, NEW a \in Asks, NEW c, NEW sig, IsMap(map)
    PROVE  Keeps(map, Reserve(map, a, c, sig), a)
  BY TouchKeeps DEF Reserve

LEMMA RecordKeeps ==
    ASSUME NEW map, NEW a \in Asks, NEW id, NEW sig, NEW outcome, NEW phase, NEW context, NEW invariant, IsMap(map)
    PROVE  Keeps(map, Record(map, a, id, sig, outcome, phase, context, invariant), a)
  <1>1. \E r : Record(map, a, id, sig, outcome, phase, context, invariant) = Touch(map, a, r)
    BY DEF Record
  <1> QED BY <1>1, TouchKeeps

LEMMA ReleaseKeeps ==
    ASSUME NEW map, NEW a \in Asks, NEW c, IsMap(map)
    PROVE  Keeps(map, Release(map, a, c), a)
  <1>1. \/ Release(map, a, c) = map
        \/ Release(map, a, c) = Forget(map, a)
        \/ \E r : Release(map, a, c) = [map EXCEPT !.of[a] = r]
    BY DEF Release
  <1>2. ASSUME NEW r PROVE Keeps(map, [map EXCEPT !.of[a] = r], a)
    BY DEF Keeps, Spares, IsMap
  <1> QED BY <1>1, <1>2, KeepsSame, ForgetKeeps

LEMMA GrantKeeps ==
    ASSUME NEW map, NEW a \in Asks, NEW sig, IsMap(map)
    PROVE  Keeps(map, Grant(map, a, sig), a)
  <1>1. \/ Grant(map, a, sig) = map
        \/ \E r : Grant(map, a, sig) = Touch(map, a, r)
    BY DEF Grant
  <1> QED BY <1>1, KeepsSame, TouchKeeps

-----------------------------------------------------------------------------
\* The store and the calls under way: every call that has begun has an ask.

Shapes ==
    /\ IsMap(recovery)
    /\ pc = [c \in Calls |-> pc[c]]
    /\ args = [c \in Calls |-> args[c]]
    /\ \A c \in Calls : pc[c] # "idle" => args[c].ask \in Asks

\* A step of call c works on the ask a.
WorksOn(c, a) ==
    /\ a \in Asks
    /\ args'[c].ask = a
    /\ pc'[c] # pc[c]
    /\ Keeps(recovery, recovery', a)
    /\ Shapes'

LEMMA Stepping ==
    ASSUME Shapes, NEW c \in Calls, NEW a \in Asks, Keeps(recovery, recovery', a),
           NEW place, pc' = [pc EXCEPT ![c] = place], place # pc[c],
           NEW in, args' = [args EXCEPT ![c] = in], in.ask = a
    PROVE  WorksOn(c, a)
  BY DEF Shapes, WorksOn, Keeps

LEMMA StartWorks ==
    ASSUME Shapes, NEW c \in Calls, Start(c)
    PROVE  \E a \in Asks : WorksOn(c, a)
  <1>1. PICK in \in Inputs[c] :
          Decline(c, in) \/ Violate(c, in) \/ Block(c, in) \/ Admit(c, in) \/ Mismatch(c, in)
    BY DEF Start
  <1>2. PICK a \in Asks : a = in.ask
    BY InputsAssumption DEF Arguments
  <1>3. IsMap(recovery)
    BY DEF Shapes
  <1>4. pc[c] = "idle" /\ args' = [args EXCEPT ![c] = in]
    BY <1>1 DEF Decline, Violate, Block, Admit, Mismatch, Admitted, Begin
  <1>5. pc' = [pc EXCEPT ![c] = "returned"] \/ pc' = [pc EXCEPT ![c] = "reading"]
    BY <1>1 DEF Decline, Violate, Block, Admit, Mismatch, Return
  <1>6. PICK looked : looked = Looked(recovery, a)
    OBVIOUS
  <1>7. Keeps(recovery, looked, a) /\ IsMap(looked)
    BY <1>3, <1>6, LookedKeeps, KeepsMap
  <1>8. PICK gated : gated = Gated(looked, a, SigOf(in.proposal), in.target)
    OBVIOUS
  <1>9. Keeps(recovery, gated, a) /\ IsMap(gated)
    BY <1>7, <1>8, GatedKeeps, KeepsBoth, KeepsMap
  <1>10. PICK admitted : admitted = AdmittedMap(c, in)
    OBVIOUS
  <1>11. admitted = gated \/ admitted = Reserve(gated, a, c, SigOf(in.proposal))
    BY <1>2, <1>6, <1>8, <1>10 DEF AdmittedMap
  <1>12. Keeps(recovery, admitted, a) /\ IsMap(admitted)
    <2>1. CASE admitted = gated
      BY <2>1, <1>9
    <2>2. CASE admitted = Reserve(gated, a, c, SigOf(in.proposal))
      BY <2>2, <1>9, ReserveKeeps, KeepsBoth, KeepsMap
    <2> QED BY <2>1, <2>2, <1>11
  <1>13. Keeps(recovery, recovery', a)
    <2>1. CASE Decline(c, in)
      BY <2>1, <1>2, <1>6, <1>7 DEF Decline
    <2>2. CASE Violate(c, in)
      <3>1. recovery' = Record(looked, a, None, SigOf(in.proposal), "escalate", "terminal", "none", {})
        BY <2>2, <1>2, <1>6 DEF Violate
      <3> QED BY <3>1, <1>7, RecordKeeps, KeepsBoth
    <2>3. CASE Block(c, in)
      BY <2>3, <1>2, <1>6, <1>8, <1>9 DEF Block
    <2>4. CASE Admit(c, in)
      BY <2>4, <1>10, <1>12 DEF Admit
    <2>5. CASE Mismatch(c, in)
      <3>1. \E id, phase, invariant :
              recovery' = Record(admitted, a, id, in.proposal.sig, "escalate", phase, "none", invariant)
        BY <2>5, <1>2, <1>10 DEF Mismatch
      <3> QED BY <3>1, <1>12, RecordKeeps, KeepsBoth
    <2> QED BY <2>1, <2>2, <2>3, <2>4, <2>5, <1>1
  <1> QED BY <1>2, <1>4, <1>5, <1>13, Stepping

LEMMA ContinueWorks ==
    ASSUME Shapes, NEW c \in Calls, Continue(c)
    PROVE  \E a \in Asks : WorksOn(c, a)
  <1>1. pc[c] \in {"reading", "binding", "applying", "verifying"} /\ args' = args
    BY DEF Continue, ReadFails, ReadBlocked, Preflight, TargetMissing, Bind, ReadPasses, BinderThrows,
          DeclineBound, Propose, Escalate, NotApplied, Reuse, Apply, Post, Applied, NotSent, SentFailed, SessionLost
  <1>2. PICK a \in Asks : a = Ask(c)
    BY <1>1 DEF Shapes, Ask
  <1>3. IsMap(recovery)
    BY DEF Shapes
  <1>4. \/ pc[c] = "reading" /\ pc' = [pc EXCEPT ![c] = "binding"]
        \/ pc[c] = "binding" /\ pc' = [pc EXCEPT ![c] = "applying"]
        \/ pc[c] = "applying" /\ pc' = [pc EXCEPT ![c] = "verifying"]
        \/ pc' = [pc EXCEPT ![c] = "returned"]
    BY DEF Continue, ReadFails, ReadBlocked, Preflight, TargetMissing, Bind, ReadPasses, BinderThrows,
          DeclineBound, Propose, Escalate, NotApplied, Reuse, Apply, Post, Applied, NotSent, SentFailed,
          SessionLost, Return
  <1>5. PICK looked : looked = Looked(recovery, a)
    OBVIOUS
  <1>6. Keeps(recovery, looked, a) /\ IsMap(looked)
    BY <1>3, <1>5, LookedKeeps, KeepsMap
  <1>7. PICK gated : gated = Gated(looked, a, Sig(c), args[c].target)
    OBVIOUS
  <1>8. Keeps(recovery, gated, a) /\ IsMap(gated)
    BY <1>6, <1>7, GatedKeeps, KeepsBoth, KeepsMap
  <1>9. PICK reserved : reserved = ReservedMap(c)
    OBVIOUS
  <1>10. reserved = recovery \/ reserved = Reserve(looked, a, c, Sig(c)) \/ reserved = Reserve(gated, a, c, Sig(c))
    BY <1>2, <1>5, <1>7, <1>9 DEF ReservedMap
  <1>11. Keeps(recovery, reserved, a) /\ IsMap(reserved)
    <2>1. ASSUME NEW map, Keeps(recovery, map, a), reserved = Reserve(map, a, c, Sig(c))
          PROVE  Keeps(recovery, reserved, a)
      BY <2>1, KeepsMap, ReserveKeeps, KeepsBoth
    <2>2. Keeps(recovery, reserved, a)
      BY <2>1, <1>3, <1>6, <1>8, <1>10, KeepsSame
    <2> QED BY <2>2, KeepsMap
  <1>12. ASSUME NEW done, NEW map, map = AfterResult(c, done)
         PROVE  Keeps(recovery, map, a) /\ IsMap(map)
    <2>1. CASE done
      BY <2>1, <1>2, <1>3, <1>12, ForgetKeeps, KeepsMap DEF AfterResult
    <2>2. CASE ~done
      <3>1. PICK phase : map = Record(recovery, a, Id(c), Sig(c), "bound", phase, "none", {})
        BY <2>2, <1>2, <1>12 DEF AfterResult
      <3> QED BY <3>1, <1>3, RecordKeeps, KeepsMap
    <2> QED BY <2>1, <2>2
  <1>13. ASSUME NEW outcome, NEW phase, NEW context, NEW invariant, Recorded(c, outcome, phase, context, invariant)
         PROVE  Keeps(recovery, recovery', a)
    <2>1. \E id, sig, p : recovery' = Record(recovery, a, id, sig, outcome, p, context, invariant)
      BY <1>2, <1>13 DEF Recorded
    <2> QED BY <2>1, <1>3, RecordKeeps
  <1>14. Keeps(recovery, recovery', a)
    <2>1. CASE recovery' = recovery
      BY <2>1, <1>3, KeepsSame
    <2>2. CASE ReadBlocked(c)
      BY <2>2, <1>2, <1>5, <1>7, <1>8 DEF ReadBlocked
    <2>3. CASE Preflight(c)
      BY <2>3, <1>2, <1>9, <1>11, ForgetKeeps, KeepsBoth DEF Preflight
    <2>4. CASE TargetMissing(c) \/ Bind(c)
      BY <2>4, <1>9, <1>11 DEF TargetMissing, Bind
    <2>5. CASE DeclineBound(c)
      BY <2>5, <1>2, <1>3, ReleaseKeeps, KeepsSame DEF DeclineBound
    <2>6. CASE Propose(c)
      BY <2>6, <1>13 DEF Propose
    <2>7. CASE Escalate(c)
      BY <2>7, <1>13 DEF Escalate
    <2>8. CASE NotApplied(c)
      BY <2>8, <1>2, <1>3, <1>13, ForgetKeeps DEF NotApplied
    <2>9. CASE Applied(c)
      BY <2>9, <1>12 DEF Applied
    <2>10. CASE NotSent(c)
      <3>1. PICK map : map = AfterResult(c, FALSE)
        OBVIOUS
      <3>2. recovery' = map \/ recovery' = Grant(map, Ask(c), Sig(c))
        BY <2>10, <3>1 DEF NotSent
      <3>3. Keeps(recovery, map, a) /\ IsMap(map)
        BY <3>1, <1>12
      <3>4. recovery' = map \/ recovery' = Grant(map, a, Sig(c))
        BY <3>2, <1>2
      <3> QED BY <3>3, <3>4, GrantKeeps, KeepsBoth
    <2>11. CASE SentFailed(c)
      BY <2>11, <1>12 DEF SentFailed
    <2>12. CASE ReadFails(c) \/ BinderThrows(c) \/ Reuse(c) \/ Apply(c) \/ Post(c) \/ SessionLost(c)
      BY <2>1, <2>12 DEF ReadFails, BinderThrows, Reuse, Apply, Post, SessionLost, storeVars
    <2> QED BY <2>2, <2>3, <2>4, <2>5, <2>6, <2>7, <2>8, <2>9, <2>10, <2>11, <2>12 DEF Continue
  <1>15. PICK in : in = args[c] /\ in.ask = a
    BY <1>2 DEF Ask
  <1>16. args' = [args EXCEPT ![c] = in]
    BY <1>1, <1>15 DEF Shapes
  <1> QED BY <1>1, <1>4, <1>14, <1>15, <1>16, Stepping

LEMMA ShapesHold == Spec => []Shapes
  <1>1. Init => Shapes
    BY DEF Init, Shapes, IsMap
  <1>2. Shapes /\ [Next]_vars => Shapes'
    <2> SUFFICES ASSUME Shapes, [Next]_vars PROVE Shapes'
      OBVIOUS
    <2>1. ASSUME NEW c \in Calls, Start(c) \/ Continue(c) PROVE Shapes'
      BY <2>1, StartWorks, ContinueWorks DEF WorksOn
    <2>2. CASE UserEdit \/ UNCHANGED vars
      BY <2>2 DEF UserEdit, vars, storeVars, callVars, Shapes
    <2> QED BY <2>1, <2>2 DEF Next
  <1> QED BY <1>1, <1>2, PTL DEF Spec

\* The record of an ask whose recovery is still open goes only in a step of a call on that
\* ask: bindRecoveryByAsk evicts finished records for the room another ask needs, and with
\* none to evict that ask goes without a record (touchBindRecovery).
THEOREM OpenRecoveriesStay == Spec => ActiveKeepsItsPlace
  <1> DEFINE Kept == \A a \in Asks :
                       /\ recovery.of[a] # None /\ recovery.of[a].phase # "terminal"
                       /\ recovery'.of[a] = None
                       => \E c \in Calls : pc'[c] # pc[c] /\ args'[c].ask = a
  <1>1. Shapes /\ [Next]_vars => [Kept]_vars
    <2> SUFFICES ASSUME Shapes, Next PROVE Kept
      OBVIOUS
    <2>1. ASSUME NEW c \in Calls, NEW a \in Asks, WorksOn(c, a) PROVE Kept
      <3>1. \A b \in Asks \ {a} : Spares(recovery, recovery', b)
        BY <2>1 DEF WorksOn, Keeps
      <3>2. args'[c].ask = a /\ pc'[c] # pc[c]
        BY <2>1 DEF WorksOn
      <3> QED BY <3>1, <3>2 DEF Spares
    <2>2. CASE UserEdit
      BY <2>2 DEF UserEdit, storeVars
    <2>3. ASSUME NEW c \in Calls, Start(c) \/ Continue(c) PROVE Kept
      <3>1. PICK a \in Asks : WorksOn(c, a)
        BY <2>3, StartWorks, ContinueWorks
      <3> QED BY <3>1, <2>1
    <2> QED BY <2>2, <2>3 DEF Next
  <1> QED BY <1>1, ShapesHold, PTL DEF Spec, ActiveKeepsItsPlace
-----------------------------------------------------------------------------
\* Sequences without one of their elements.

\* The sequence s without the element at i.
LEMMA WithoutOne ==
    ASSUME NEW S, NEW s \in Seq(S), NEW i \in 1..Len(s)
    PROVE  /\ RemoveAt(s, i) \in Seq(S)
           /\ Len(RemoveAt(s, i)) = Len(s) - 1
           /\ \A j \in 1..(Len(s) - 1) : RemoveAt(s, i)[j] = IF j < i THEN s[j] ELSE s[j + 1]
  <1> DEFINE front == SubSeq(s, 1, i - 1)
             back == SubSeq(s, i + 1, Len(s))
  <1>1. front \in Seq(S) /\ Len(front) = i - 1 /\ \A j \in 1..(i - 1) : front[j] = s[j]
    BY SubSeqProperties, Z3
  <1>2. /\ back \in Seq(S) /\ Len(back) = Len(s) - i
        /\ \A j \in 1..(Len(s) - i) : back[j] = s[i + j]
    BY SubSeqProperties, Z3
  <1>3. RemoveAt(s, i) = front \o back
    BY DEF RemoveAt
  <1> HIDE DEF front, back
  <1>4. /\ front \o back \in Seq(S) /\ Len(front \o back) = Len(front) + Len(back)
        /\ \A j \in 1..(Len(front) + Len(back)) :
             (front \o back)[j] = IF j <= Len(front) THEN front[j] ELSE back[j - Len(front)]
    BY <1>1, <1>2, ConcatProperties
  <1>5. Len(front) + Len(back) = Len(s) - 1 /\ Len(s) \in Nat /\ i \in Nat
    BY <1>1, <1>2
  <1>6. ASSUME NEW j \in 1..(Len(s) - 1) PROVE (front \o back)[j] = IF j < i THEN s[j] ELSE s[j + 1]
    BY <1>1, <1>2, <1>4, <1>5
  <1> QED BY <1>3, <1>4, <1>5, <1>6

\* RemoveFirst and RemoveFirstMatch, where one element is meant at most.
LEMMA KeyRemoved ==
    ASSUME NEW S, NEW s \in Seq(S), NEW e, \A i, j \in 1..Len(s) : s[i] = e /\ s[j] = e => i = j
    PROVE  \/ RemoveFirst(s, e) = s /\ \A i \in 1..Len(s) : s[i] # e
           \/ \E i \in 1..Len(s) : s[i] = e /\ RemoveFirst(s, e) = RemoveAt(s, i)
  <1> DEFINE I == {i \in 1..Len(s) : s[i] = e}
             first == CHOOSE x \in I : \A y \in I : x =< y
  <1>1. CASE I = {}
    BY <1>1 DEF RemoveFirst
  <1>2. CASE I # {}
    <2>1. RemoveFirst(s, e) = RemoveAt(s, first)
      BY <1>2 DEF RemoveFirst, SelectInSeq, Min
    <2>2. PICK least \in I : \A y \in I : least =< y
      BY <1>2
    <2>3. first \in I
      BY <2>2
    <2> QED BY <2>1, <2>3
  <1> QED BY <1>1, <1>2

LEMMA ReservationRemoved ==
    ASSUME NEW S, NEW s \in Seq(S), NEW c, \A i, j \in 1..Len(s) : s[i].id = c /\ s[j].id = c => i = j
    PROVE  LET rest == RemoveFirstMatch(s, LAMBDA t : t.id = c)
           IN \/ rest = s /\ \A i \in 1..Len(s) : s[i].id # c
              \/ \E i \in 1..Len(s) : s[i].id = c /\ rest = RemoveAt(s, i)
  <1> DEFINE I == {i \in 1..Len(s) : s[i].id = c}
             first == CHOOSE x \in I : \A y \in I : x =< y
             rest == RemoveFirstMatch(s, LAMBDA t : t.id = c)
  <1>1. rest = IF \E i \in 1..Len(s) : s[i].id = c THEN RemoveAt(s, first) ELSE s
    BY DEF RemoveFirstMatch, SelectInSeq, Min
  <1>2. I # {} => first \in I
    <2> SUFFICES ASSUME I # {} PROVE first \in I
      OBVIOUS
    <2>1. PICK least \in I : \A y \in I : least =< y
      OBVIOUS
    <2> QED BY <2>1
  <1> HIDE DEF rest, first
  <1>3. \/ rest = s /\ \A i \in 1..Len(s) : s[i].id # c
        \/ \E i \in 1..Len(s) : s[i].id = c /\ rest = RemoveAt(s, i)
    BY <1>1, <1>2
  <1> QED BY <1>3 DEF rest

LEMMA SheetRemoved ==
    ASSUME NEW S, sheets \in Seq(S), NEW k, \A i, j \in 1..Len(sheets) : sheets[i].chart = k /\ sheets[j].chart = k => i = j
    PROVE  \/ Others(k) = sheets /\ \A i \in 1..Len(sheets) : sheets[i].chart # k
           \/ \E i \in 1..Len(sheets) : sheets[i].chart = k /\ Others(k) = RemoveAt(sheets, i)
  <1> DEFINE I == {i \in 1..Len(sheets) : sheets[i].chart = k}
             first == CHOOSE x \in I : \A y \in I : x =< y
  <1>1. Others(k) = IF \E i \in 1..Len(sheets) : sheets[i].chart = k THEN RemoveAt(sheets, first) ELSE sheets
    BY DEF Others, RemoveFirstMatch, SelectInSeq, Min
  <1>2. I # {} => first \in I
    <2> SUFFICES ASSUME I # {} PROVE first \in I
      OBVIOUS
    <2>1. PICK least \in I : \A y \in I : least =< y
      OBVIOUS
    <2> QED BY <2>1
  <1> HIDE DEF first
  <1> QED BY <1>1, <1>2
-----------------------------------------------------------------------------
\* The map of records is what a Map with a cap can be: every ask with a record is in the
\* order, once.

Ordered(map) ==
    /\ map.of \in [Asks -> Records \cup {None}]
    /\ map.order \in Seq(Asks)
    /\ \A i \in 1..Len(map.order) : map.of[map.order[i]] # None
    /\ \A a \in Asks : map.of[a] # None => \E i \in 1..Len(map.order) : map.order[i] = a
    /\ \A i, j \in 1..Len(map.order) : map.order[i] = map.order[j] => i = j

Listed(map) == IsMap(map) /\ Ordered(map) /\ Len(map.order) <= MaxAsks

\* What Forget and Touch take out of the order.
LEMMA KeyGone ==
    ASSUME NEW map, Ordered(map), NEW a \in Asks
    PROVE  LET rest == RemoveFirst(map.order, a)
           IN /\ rest \in Seq(Asks)
              /\ Len(rest) = Len(map.order) - IF map.of[a] = None THEN 0 ELSE 1
              /\ \A i \in 1..Len(rest) : rest[i] # a /\ map.of[rest[i]] # None
              /\ \A b \in Asks \ {a} : map.of[b] # None => \E i \in 1..Len(rest) : rest[i] = b
              /\ \A i, j \in 1..Len(rest) : rest[i] = rest[j] => i = j
  <1> DEFINE s == map.order
             rest == RemoveFirst(s, a)
  <1>1. /\ s \in Seq(Asks) /\ Len(s) \in Nat
        /\ \A i \in 1..Len(s) : map.of[s[i]] # None
        /\ \A b \in Asks : map.of[b] # None => \E i \in 1..Len(s) : s[i] = b
        /\ \A i, j \in 1..Len(s) : s[i] = s[j] => i = j
    BY DEF Ordered
  <1>2. \/ rest = s /\ \A i \in 1..Len(s) : s[i] # a
        \/ \E i \in 1..Len(s) : s[i] = a /\ rest = RemoveAt(s, i)
    <2>1. \A i, j \in 1..Len(s) : s[i] = a /\ s[j] = a => i = j
      BY <1>1
    <2> HIDE DEF s
    <2> QED BY <1>1, <2>1, KeyRemoved
  <1> HIDE DEF s, rest
  <1>3. ASSUME rest = s, \A i \in 1..Len(s) : s[i] # a
        PROVE  /\ rest \in Seq(Asks)
               /\ Len(rest) = Len(s) /\ map.of[a] = None
               /\ \A i \in 1..Len(rest) : rest[i] # a /\ map.of[rest[i]] # None
               /\ \A b \in Asks \ {a} : map.of[b] # None => \E i \in 1..Len(rest) : rest[i] = b
               /\ \A i, j \in 1..Len(rest) : rest[i] = rest[j] => i = j
    <2>1. map.of[a] = None
      BY <1>1, <1>3
    <2> QED BY <1>1, <1>3, <2>1
  <1>4. ASSUME NEW n \in 1..Len(s), s[n] = a, rest = RemoveAt(s, n)
        PROVE  /\ rest \in Seq(Asks)
               /\ Len(rest) = Len(s) - 1 /\ map.of[a] # None
               /\ \A i \in 1..Len(rest) : rest[i] # a /\ map.of[rest[i]] # None
               /\ \A b \in Asks \ {a} : map.of[b] # None => \E i \in 1..Len(rest) : rest[i] = b
               /\ \A i, j \in 1..Len(rest) : rest[i] = rest[j] => i = j
    <2>1. /\ rest \in Seq(Asks) /\ Len(rest) = Len(s) - 1
          /\ \A j \in 1..(Len(s) - 1) : rest[j] = IF j < n THEN s[j] ELSE s[j + 1]
      BY <1>1, <1>4, WithoutOne
    <2>2. ASSUME NEW i \in 1..Len(rest) PROVE rest[i] # a /\ map.of[rest[i]] # None
      BY <1>1, <1>4, <2>1
    <2>3. ASSUME NEW b \in Asks \ {a}, map.of[b] # None PROVE \E i \in 1..Len(rest) : rest[i] = b
      <3>1. PICK i \in 1..Len(s) : s[i] = b
        BY <1>1, <2>3
      <3>2. CASE i < n
        BY <1>1, <2>1, <3>1, <3>2
      <3>3. CASE i > n
        <4>1. i - 1 \in 1..Len(rest) /\ rest[i - 1] = b
          BY <1>1, <2>1, <3>1, <3>3
        <4> QED BY <4>1
      <3> QED BY <1>4, <2>3, <3>1, <3>2, <3>3
    <2>4. ASSUME NEW i \in 1..Len(rest), NEW j \in 1..Len(rest), rest[i] = rest[j] PROVE i = j
      <3> DEFINE Was(k) == IF k < n THEN k ELSE k + 1
      <3>1. Len(s) \in Nat /\ n \in Nat /\ i \in 1..(Len(s) - 1) /\ j \in 1..(Len(s) - 1)
        BY <1>1, <2>1
      <3>2. Was(i) \in 1..Len(s) /\ Was(j) \in 1..Len(s)
        BY <3>1
      <3>3. rest[i] = s[Was(i)] /\ rest[j] = s[Was(j)]
        BY <2>1, <3>1
      <3>4. Was(i) = Was(j)
        <4> HIDE DEF Was
        <4> QED BY <1>1, <2>4, <3>2, <3>3
      <3> QED BY <3>1, <3>4
    <2> QED BY <1>1, <1>4, <2>1, <2>2, <2>3, <2>4
  <1> QED BY <1>2, <1>3, <1>4 DEF s, rest

LEMMA ForgetOrdered ==
    ASSUME NEW map, IsMap(map), Ordered(map), NEW a \in Asks
    PROVE  /\ IsMap(Forget(map, a)) /\ Ordered(Forget(map, a))
           /\ Len(Forget(map, a).order) = Len(map.order) - IF map.of[a] = None THEN 0 ELSE 1
           /\ Forget(map, a).of = [map.of EXCEPT ![a] = None]
  <1> DEFINE rest == RemoveFirst(map.order, a)
  <1>1. Forget(map, a).of = [map.of EXCEPT ![a] = None] /\ Forget(map, a).order = rest
    BY DEF Forget
  <1>2. /\ rest \in Seq(Asks)
        /\ Len(rest) = Len(map.order) - IF map.of[a] = None THEN 0 ELSE 1
        /\ \A i \in 1..Len(rest) : rest[i] # a /\ map.of[rest[i]] # None
        /\ \A b \in Asks \ {a} : map.of[b] # None => \E i \in 1..Len(rest) : rest[i] = b
        /\ \A i, j \in 1..Len(rest) : rest[i] = rest[j] => i = j
    BY KeyGone
  <1>3. IsMap(Forget(map, a))
    BY ForgetKeeps, KeepsMap
  <1> HIDE DEF rest
  <1>4. \A i \in 1..Len(rest) : rest[i] \in Asks
    BY <1>2
  <1> QED BY <1>1, <1>2, <1>3, <1>4 DEF Ordered

\* Where Touch puts the record.
LEMMA MovedOrdered ==
    ASSUME NEW map, Ordered(map), NEW a \in Asks, NEW r \in Records,
           NEW moved, moved.of = [map.of EXCEPT ![a] = r], moved.order = Append(RemoveFirst(map.order, a), a)
    PROVE  /\ Ordered(moved)
           /\ map.of[a] = None => Len(moved.order) = Len(map.order) + 1
           /\ map.of[a] # None => Len(moved.order) = Len(map.order)
  <1> DEFINE rest == RemoveFirst(map.order, a)
             all == Append(rest, a)
  <1>1. moved.of = [map.of EXCEPT ![a] = r] /\ moved.order = all
    OBVIOUS
  <1>2. /\ rest \in Seq(Asks)
        /\ Len(rest) = Len(map.order) - IF map.of[a] = None THEN 0 ELSE 1
        /\ \A i \in 1..Len(rest) : rest[i] # a /\ map.of[rest[i]] # None
        /\ \A b \in Asks \ {a} : map.of[b] # None => \E i \in 1..Len(rest) : rest[i] = b
        /\ \A i, j \in 1..Len(rest) : rest[i] = rest[j] => i = j
    BY KeyGone
  <1> HIDE DEF rest
  <1>3. /\ all \in Seq(Asks) /\ Len(all) = Len(rest) + 1 /\ Len(rest) \in Nat
        /\ \A i \in 1..Len(rest) : all[i] = rest[i] /\ rest[i] \in Asks
        /\ all[Len(rest) + 1] = a
    <2>1. rest \in Seq(Asks) /\ Len(rest) \in Nat /\ \A i \in 1..Len(rest) : rest[i] \in Asks
      BY <1>2
    <2>2. /\ all \in Seq(Asks) /\ Len(all) = Len(rest) + 1
          /\ \A i \in 1..Len(rest) : all[i] = rest[i]
          /\ all[Len(rest) + 1] = a
      BY <2>1, AppendProperties
    <2> QED BY <2>1, <2>2
  <1> HIDE DEF all
  <1>4. map.of \in [Asks -> Records \cup {None}] /\ Len(map.order) \in Nat /\ r # None
    BY NoRecordAssumption DEF Ordered
  <1>6. ASSUME NEW i \in 1..Len(all) PROVE moved.of[all[i]] # None
    <2>1. CASE i \in 1..Len(rest)
      <3>1. all[i] = rest[i] /\ rest[i] \in Asks \ {a} /\ map.of[rest[i]] # None
        BY <1>2, <1>3, <2>1
      <3> QED BY <1>1, <1>4, <3>1
    <2>2. CASE i = Len(rest) + 1
      BY <1>1, <1>3, <1>4, <2>2
    <2> QED BY <1>3, <2>1, <2>2
  <1>7. ASSUME NEW b \in Asks, moved.of[b] # None PROVE \E i \in 1..Len(all) : all[i] = b
    <2>1. CASE b = a
      BY <1>3, <2>1
    <2>2. CASE b # a
      <3>1. PICK i \in 1..Len(rest) : rest[i] = b
        BY <1>1, <1>2, <1>4, <1>7, <2>2
      <3> QED BY <1>3, <3>1
    <2> QED BY <2>1, <2>2
  <1>8. ASSUME NEW i \in 1..Len(all), NEW j \in 1..Len(all), all[i] = all[j] PROVE i = j
    <2>1. ASSUME NEW k \in 1..Len(all)
          PROVE  \/ k \in 1..Len(rest) /\ all[k] = rest[k] /\ rest[k] # a
                 \/ k = Len(rest) + 1 /\ all[k] = a
      <3>1. k \in 1..Len(rest) \/ k = Len(rest) + 1
        BY <1>3
      <3> QED BY <1>2, <1>3, <3>1
    <2>2. \/ i \in 1..Len(rest) /\ all[i] = rest[i] /\ rest[i] # a
          \/ i = Len(rest) + 1 /\ all[i] = a
      BY <2>1
    <2>3. \/ j \in 1..Len(rest) /\ all[j] = rest[j] /\ rest[j] # a
          \/ j = Len(rest) + 1 /\ all[j] = a
      BY <2>1
    <2> QED BY <1>2, <1>8, <2>2, <2>3
  <1>9. Ordered(moved)
    <2>1. moved.of \in [Asks -> Records \cup {None}]
      BY <1>1, <1>4
    <2>2. moved.order = all
      BY DEF all, rest
    <2>3. \A b \in Asks : moved.of[b] # None => \E i \in 1..Len(all) : all[i] = b
      BY <1>7
    <2>4. \A i, j \in 1..Len(all) : all[i] = all[j] => i = j
      BY <1>8
    <2>5. all \in Seq(Asks) /\ \A i \in 1..Len(all) : moved.of[all[i]] # None
      BY <1>3, <1>6
    <2> HIDE DEF all, rest
    <2> QED BY <2>1, <2>2, <2>3, <2>4, <2>5 DEF Ordered
  <1>10. moved.order = all
    BY DEF all, rest
  <1>11. map.of[a] = None => Len(moved.order) = Len(map.order) + 1
    BY <1>2, <1>3, <1>4, <1>10
  <1>12. map.of[a] # None => Len(moved.order) = Len(map.order)
    BY <1>2, <1>3, <1>4, <1>10
  <1> QED BY <1>9, <1>11, <1>12

\* Touch leaves the record, unless there was none and there is no room.
LEMMA TouchListed ==
    ASSUME NEW map, Listed(map), NEW a \in Asks, NEW r \in Records
    PROVE  /\ Listed(Touch(map, a, r))
           /\ Touch(map, a, r).of[a] \in {r, None}
           /\ map.of[a] # None => Touch(map, a, r).of[a] = r
  <1> DEFINE moved == [of |-> [map.of EXCEPT ![a] = r], order |-> Append(RemoveFirst(map.order, a), a)]
             spare == Evictable(moved, a)
             oldest == {i \in spare : \A j \in spare : i <= j}
             gone == IF oldest = {} THEN a ELSE moved.order[CHOOSE i \in oldest : TRUE]
  <1>1. /\ IsMap(moved) /\ Ordered(moved)
        /\ map.of[a] = None => Len(moved.order) = Len(map.order) + 1
        /\ map.of[a] # None => Len(moved.order) = Len(map.order)
    <2>1. moved.of = [map.of EXCEPT ![a] = r] /\ moved.order = Append(RemoveFirst(map.order, a), a)
      OBVIOUS
    <2>2. IsMap(moved)
      BY DEF Listed, IsMap
    <2> HIDE DEF moved
    <2>3. Ordered(map)
      BY DEF Listed
    <2> QED BY <2>1, <2>2, <2>3, MovedOrdered
  <1>2. moved.of[a] = r /\ r # None
    BY NoRecordAssumption DEF Listed, Ordered
  <1>3. gone \in Asks /\ moved.of[gone] # None
    <2>1. CASE oldest = {}
      BY <2>1, <1>2
    <2>2. CASE oldest # {}
      <3>1. PICK i \in oldest : gone = moved.order[i]
        BY <2>2
      <3>2. i \in 1..Len(moved.order)
        <4>1. i \in DOMAIN moved.order
          BY <3>1 DEF Evictable
        <4> QED BY <4>1, <1>1 DEF Ordered
      <3> HIDE DEF moved, gone
      <3>3. /\ moved.order \in Seq(Asks)
            /\ \A j \in 1..Len(moved.order) : moved.of[moved.order[j]] # None
        BY <1>1 DEF Ordered
      <3>4. moved.order[i] \in Asks /\ moved.of[moved.order[i]] # None
        BY <3>2, <3>3
      <3> QED BY <3>1, <3>4
    <2> QED BY <2>1, <2>2
  <1>4. Touch(map, a, r) = IF Len(moved.order) <= MaxAsks THEN moved ELSE Forget(moved, gone)
    BY DEF Touch
  <1>5. Len(map.order) \in Nat /\ Len(map.order) <= MaxAsks /\ MaxAsks \in Nat
    BY BoundsAssumption DEF Listed, Ordered
  <1> HIDE DEF moved, gone
  <1>6. /\ IsMap(Forget(moved, gone)) /\ Ordered(Forget(moved, gone))
        /\ Len(Forget(moved, gone).order) = Len(moved.order) - 1
        /\ Forget(moved, gone).of = [moved.of EXCEPT ![gone] = None]
    BY <1>1, <1>3, ForgetOrdered
  <1>7. CASE Len(moved.order) <= MaxAsks
    BY <1>1, <1>2, <1>4, <1>7 DEF Listed
  <1>8. CASE ~(Len(moved.order) <= MaxAsks)
    <2>1. Len(moved.order) = Len(map.order) + 1 /\ map.of[a] = None
      <3>1. CASE map.of[a] # None
        BY <1>1, <1>5, <1>8, <3>1
      <3>2. CASE map.of[a] = None
        BY <1>1, <3>2
      <3> QED BY <3>1, <3>2
    <2>3. Len(Forget(moved, gone).order) <= MaxAsks
      BY <1>5, <1>6, <2>1
    <2>4. Listed(Forget(moved, gone))
      BY <1>6, <2>3 DEF Listed
    <2>2. Forget(moved, gone).of[a] \in {r, None}
      <3>1. moved.of \in [Asks -> Records \cup {None}]
        BY <1>1 DEF Ordered
      <3> QED BY <1>2, <1>3, <1>6, <3>1
    <2> QED BY <1>4, <1>8, <2>1, <2>2, <2>4
  <1> QED BY <1>7, <1>8
-----------------------------------------------------------------------------
\* Records, and what the operations make of them.

Phases == {"awaiting-proposal", "proposal-attempted", "retry-used", "terminal"}
Contexts == {"none", "workbook", "datasource"}
MaybeSignatures == Signatures \cup {None}

\* A record, or what is read where there is none.
Loose(r) == r = Empty \/ r \in Records

LooseRecords == [phase : Phases \cup {"none"}, attempts : Seq(Attempts), last : MaybeSignatures, context : Contexts,
                 invariant : SUBSET Proposals, bare : Nat, allowance : Allowances \cup {None}]

LEMMA LooseTyped ==
    ASSUME NEW r, Loose(r)
    PROVE  r \in LooseRecords
  <1>1. CASE r = Empty
    BY <1>1, EmptySeq DEF Empty, LooseRecords, MaybeSignatures, Contexts
  <1>2. CASE r \in Records
    BY <1>2 DEF Records, LooseRecords, MaybeSignatures, Contexts, Phases
  <1> QED BY <1>1, <1>2 DEF Loose

LEMMA LooseFields ==
    ASSUME NEW r, Loose(r)
    PROVE  /\ r.attempts \in Seq(Attempts) /\ r.last \in MaybeSignatures /\ r.context \in Contexts
           /\ r.invariant \in SUBSET Proposals /\ r.bare \in Nat /\ r.allowance \in Allowances \cup {None}
  BY LooseTyped DEF LooseRecords

LEMMA FoundLoose ==
    ASSUME NEW r \in Records \cup {None}
    PROVE  Loose(Found(r))
  BY DEF Loose, Found

LEMMA PhaseTyped ==
    ASSUME NEW r, NEW sig
    PROVE  Phase(r, sig) \in Phases \ {"terminal"}
  BY DEF Phase, Phases

LEMMA SteppedTyped ==
    ASSUME NEW r, Loose(r), NEW phase \in Phases, NEW attempts \in Seq(Attempts), NEW last \in MaybeSignatures, NEW sig
    PROVE  LET next == Stepped(r, phase, attempts, last, sig)
           IN /\ next \in Records
              /\ next.phase = phase /\ next.attempts = attempts /\ next.last = last
              /\ next.context = r.context /\ next.invariant = r.invariant
              /\ next.allowance = KeptAllowance(r, last)
  <1> DEFINE next == Stepped(r, phase, attempts, last, sig)
             bare == IF sig = None THEN r.bare ELSE 0
             allowance == KeptAllowance(r, last)
  <1>1. r \in LooseRecords
    BY LooseTyped
  <1>2. allowance \in Allowances \cup {None} /\ bare \in Nat
    BY LooseFields DEF KeptAllowance
  <1>3. next = [r EXCEPT !.phase = phase, !.attempts = attempts, !.last = last, !.bare = bare, !.allowance = allowance]
    BY DEF Stepped
  <1> HIDE DEF bare, allowance, next
  <1>4. /\ next \in Records
        /\ next.phase = phase /\ next.attempts = attempts /\ next.last = last
        /\ next.context = r.context /\ next.invariant = r.invariant
        /\ next.allowance = allowance
    BY <1>1, <1>2, <1>3 DEF LooseRecords, Records, Phases, Contexts, MaybeSignatures
  <1> QED BY <1>4 DEF next, allowance

\* What Reserve puts in the map.
ReservedRecord(r, c, sig) ==
    Stepped(r, Phase(r, sig), Append(r.attempts, [id |-> c, sig |-> sig, outcome |-> None]),
            IF sig = None THEN r.last ELSE sig, sig)

LEMMA ReserveIs ==
    ASSUME NEW map, NEW a, NEW c, NEW sig
    PROVE  Reserve(map, a, c, sig) = Touch(map, a, ReservedRecord(Found(map.of[a]), c, sig))
  BY DEF Reserve, ReservedRecord

IsReserved(next, r, c, sig) ==
    /\ next \in Records
    /\ next.phase = Phase(r, sig)
    /\ next.attempts = Append(r.attempts, [id |-> c, sig |-> sig, outcome |-> None])
    /\ next.last = IF sig = None THEN r.last ELSE sig
    /\ next.context = r.context /\ next.invariant = r.invariant
    /\ next.allowance = KeptAllowance(r, next.last)

LEMMA ReservedFields ==
    ASSUME NEW r, Loose(r), NEW c \in Calls, NEW sig \in MaybeSignatures
    PROVE  IsReserved(ReservedRecord(r, c, sig), r, c, sig)
  <1>1. r.attempts \in Seq(Attempts) /\ r.last \in MaybeSignatures
    BY LooseFields
  <1>2. [id |-> c, sig |-> sig, outcome |-> None] \in Attempts
    BY DEF Attempts, MaybeSignatures
  <1>3. Append(r.attempts, [id |-> c, sig |-> sig, outcome |-> None]) \in Seq(Attempts)
    BY <1>1, <1>2, AppendProperties
  <1>4. Phase(r, sig) \in Phases
    BY PhaseTyped
  <1> DEFINE last == IF sig = None THEN r.last ELSE sig
             all == Append(r.attempts, [id |-> c, sig |-> sig, outcome |-> None])
             next == ReservedRecord(r, c, sig)
  <1>5. last \in MaybeSignatures /\ all \in Seq(Attempts)
    BY <1>1, <1>3
  <1>6. next = Stepped(r, Phase(r, sig), all, last, sig)
    BY DEF ReservedRecord
  <1> HIDE DEF last, all, next
  <1>7. /\ next \in Records
        /\ next.phase = Phase(r, sig) /\ next.attempts = all /\ next.last = last
        /\ next.context = r.context /\ next.invariant = r.invariant
        /\ next.allowance = KeptAllowance(r, last)
    BY <1>4, <1>5, <1>6, SteppedTyped
  <1> QED BY <1>7 DEF last, all, next, IsReserved

\* What Record makes of the attempts.
RecordedAttempts(r, id, sig, outcome) ==
    IF id = None THEN UpgradedOrAppended(r, sig, outcome)
    ELSE [i \in DOMAIN r.attempts |->
            IF i \in Upgradable(r, id) THEN [r.attempts[i] EXCEPT !.outcome = outcome] ELSE r.attempts[i]]

\* What Record puts in the map.
RecordedRecord(old, id, sig, outcome, phase, context, invariant) ==
    LET r == Found(old)
        next == Stepped(r, IF id # None /\ Upgradable(r, id) = {} /\ old # None THEN old.phase ELSE phase,
                        RecordedAttempts(r, id, sig, outcome),
                        IF id # None \/ sig = None THEN r.last ELSE sig, sig)
    IN [next EXCEPT !.context = IF context = "none" THEN @ ELSE context,
                    !.invariant = IF invariant = {} THEN @ ELSE invariant]

LEMMA RecordIs ==
    ASSUME NEW map, NEW a, NEW id, NEW sig, NEW outcome, NEW phase, NEW context, NEW invariant
    PROVE  Record(map, a, id, sig, outcome, phase, context, invariant) =
             Touch(map, a, RecordedRecord(map.of[a], id, sig, outcome, phase, context, invariant))
  <1>1. CASE id = None
    BY <1>1 DEF Record, RecordedRecord, RecordedAttempts
  <1>2. CASE id # None
    BY <1>2 DEF Record, RecordedRecord, RecordedAttempts
  <1> QED BY <1>1, <1>2

\* How an outcome is recorded: it is given to an attempt that had none, or is an attempt of
\* its own.
Follows(old, all, id, sig, outcome) ==
    /\ \A i \in 1..Len(old) :
         /\ all[i].id = old[i].id /\ all[i].sig = old[i].sig
         /\ \/ all[i].outcome = old[i].outcome
            \/ /\ old[i].outcome = None /\ all[i].outcome = outcome
               /\ id # None => old[i].id = id
               /\ id = None => i = Len(old) /\ old[i].sig = sig
    /\ \/ Len(all) = Len(old)
       \/ /\ id = None /\ Len(all) = Len(old) + 1
          /\ all[Len(all)] = [id |-> None, sig |-> sig, outcome |-> outcome]
          /\ \A i \in 1..Len(old) : all[i] = old[i]

LEMMA AttemptsRecorded ==
    ASSUME NEW r, Loose(r), NEW id \in Calls \cup {None}, NEW sig \in MaybeSignatures, NEW outcome \in Outcomes
    PROVE  /\ RecordedAttempts(r, id, sig, outcome) \in Seq(Attempts)
           /\ Follows(r.attempts, RecordedAttempts(r, id, sig, outcome), id, sig, outcome)
  <1> DEFINE old == r.attempts
             all == RecordedAttempts(r, id, sig, outcome)
  <1>1. old \in Seq(Attempts) /\ Len(old) \in Nat /\ DOMAIN old = 1..Len(old)
    BY LooseFields
  <1>2. \A i \in 1..Len(old) : old[i] \in Attempts
    BY <1>1
  <1>3. None \notin Calls
    BY NoneAssumption
  <1>4. CASE id # None
    <2>1. all = [i \in 1..Len(old) |-> IF i \in Upgradable(r, id) THEN [old[i] EXCEPT !.outcome = outcome] ELSE old[i]]
      BY <1>1, <1>4 DEF RecordedAttempts
    <2>2. ASSUME NEW i \in 1..Len(old)
          PROVE  /\ all[i] \in Attempts
                 /\ all[i].id = old[i].id /\ all[i].sig = old[i].sig
                 /\ \/ all[i].outcome = old[i].outcome
                    \/ old[i].outcome = None /\ all[i].outcome = outcome /\ old[i].id = id
      <3>1. CASE i \in Upgradable(r, id)
        <4>1. all[i] = [old[i] EXCEPT !.outcome = outcome] /\ old[i].outcome = None /\ old[i].id = id
          BY <2>1, <3>1 DEF Upgradable
        <4> QED BY <1>2, <4>1 DEF Attempts
      <3>2. CASE i \notin Upgradable(r, id)
        <4>1. all[i] = old[i]
          BY <2>1, <3>2
        <4> QED BY <1>2, <4>1
      <3> QED BY <3>1, <3>2
    <2>3. all \in Seq(Attempts) /\ Len(all) = Len(old)
      <3>1. all \in [1..Len(old) -> Attempts]
        BY <2>1, <2>2
      <3> HIDE DEF all
      <3> QED BY <1>1, <3>1
    <2> QED BY <1>4, <2>2, <2>3 DEF Follows
  <1>5. CASE id = None /\ old # <<>> /\ Last(old).outcome = None /\ Last(old).sig = sig
    <2>1. Len(old) \in 1..Len(old) /\ old[Len(old)].outcome = None /\ old[Len(old)].sig = sig
      BY <1>1, <1>5 DEF Last
    <2>2. all = [old EXCEPT ![Len(old)].outcome = outcome]
      BY <1>5 DEF RecordedAttempts, UpgradedOrAppended
    <2>3. [old[Len(old)] EXCEPT !.outcome = outcome] \in Attempts
      BY <1>2, <2>1 DEF Attempts
    <2>4. all = [old EXCEPT ![Len(old)] = [old[Len(old)] EXCEPT !.outcome = outcome]]
      BY <2>2
    <2>5. /\ all \in Seq(Attempts) /\ Len(all) = Len(old)
          /\ \A i \in 1..Len(old) : all[i] = IF i = Len(old) THEN [old[Len(old)] EXCEPT !.outcome = outcome] ELSE old[i]
      <3> HIDE DEF all, old
      <3> QED BY <1>1, <2>1, <2>3, <2>4, ExceptSeq
    <2>6. old[Len(old)] \in Attempts
      BY <1>2, <2>1
    <2>7. LET last == [old[Len(old)] EXCEPT !.outcome = outcome]
          IN last.id = old[Len(old)].id /\ last.sig = old[Len(old)].sig /\ last.outcome = outcome
      BY <2>6 DEF Attempts
    <2> HIDE DEF all, old
    <2>8. Follows(old, all, id, sig, outcome)
      BY <1>1, <1>5, <2>1, <2>5, <2>7 DEF Follows
    <2> QED BY <2>5, <2>8 DEF all, old
  <1>6. CASE id = None /\ ~(old # <<>> /\ Last(old).outcome = None /\ Last(old).sig = sig)
    <2>1. all = Append(old, [id |-> None, sig |-> sig, outcome |-> outcome])
      BY <1>6 DEF RecordedAttempts, UpgradedOrAppended
    <2>2. [id |-> None, sig |-> sig, outcome |-> outcome] \in Attempts
      BY DEF Attempts, MaybeSignatures
    <2>3. /\ all \in Seq(Attempts) /\ Len(all) = Len(old) + 1
          /\ \A i \in 1..Len(old) : all[i] = old[i]
          /\ all[Len(old) + 1] = [id |-> None, sig |-> sig, outcome |-> outcome]
      <3> HIDE DEF all, old
      <3> QED BY <1>1, <2>1, <2>2, AppendProperties
    <2> QED BY <1>6, <2>3 DEF Follows
  <1> QED BY <1>4, <1>5, <1>6

IsRecorded(next, old, id, sig, outcome, phase, context, invariant) ==
    LET r == Found(old)
    IN /\ next \in Records
       /\ next.phase = IF id # None /\ Upgradable(r, id) = {} /\ old # None THEN old.phase ELSE phase
       /\ next.attempts = RecordedAttempts(r, id, sig, outcome)
       /\ next.last = IF id # None \/ sig = None THEN r.last ELSE sig
       /\ next.context = IF context = "none" THEN r.context ELSE context
       /\ next.invariant = IF invariant = {} THEN r.invariant ELSE invariant
       /\ next.allowance = KeptAllowance(r, next.last)

LEMMA RecordedFields ==
    ASSUME NEW old \in Records \cup {None}, NEW id \in Calls \cup {None}, NEW sig \in MaybeSignatures,
           NEW outcome \in Outcomes, NEW phase \in Phases, NEW context \in Contexts, NEW invariant \in SUBSET Proposals
    PROVE  IsRecorded(RecordedRecord(old, id, sig, outcome, phase, context, invariant),
                      old, id, sig, outcome, phase, context, invariant)
  <1> DEFINE r == Found(old)
             kept == IF id # None /\ Upgradable(r, id) = {} /\ old # None THEN old.phase ELSE phase
             all == RecordedAttempts(r, id, sig, outcome)
             last == IF id # None \/ sig = None THEN r.last ELSE sig
             stepped == Stepped(r, kept, all, last, sig)
             next == RecordedRecord(old, id, sig, outcome, phase, context, invariant)
  <1>1. Loose(r)
    BY FoundLoose
  <1>2. kept \in Phases
    BY DEF Records, Phases
  <1>3. all \in Seq(Attempts)
    BY <1>1, AttemptsRecorded
  <1>4. last \in MaybeSignatures
    BY <1>1, LooseFields
  <1>5. stepped \in Records
    <2> HIDE DEF kept, all, last, r
    <2> QED BY <1>1, <1>2, <1>3, <1>4, SteppedTyped
  <1>6. /\ stepped.phase = kept /\ stepped.attempts = all /\ stepped.last = last
        /\ stepped.context = r.context /\ stepped.invariant = r.invariant
        /\ stepped.allowance = KeptAllowance(r, last)
    <2> HIDE DEF kept, all, last, r
    <2> QED BY <1>1, <1>2, <1>3, <1>4, SteppedTyped
  <1>7. next = [stepped EXCEPT !.context = IF context = "none" THEN @ ELSE context,
                               !.invariant = IF invariant = {} THEN @ ELSE invariant]
    BY DEF RecordedRecord
  <1> HIDE DEF stepped, next, r, kept, all, last
  <1>8. /\ next \in Records
        /\ next.phase = kept /\ next.attempts = all /\ next.last = last
        /\ next.context = (IF context = "none" THEN r.context ELSE context)
        /\ next.invariant = (IF invariant = {} THEN r.invariant ELSE invariant)
        /\ next.allowance = KeptAllowance(r, last)
    BY <1>5, <1>6, <1>7 DEF Records, Contexts
  <1> QED BY <1>8 DEF next, r, kept, all, last, IsRecorded

\* What the gate and an allowance leave of a record.
SameBind(r, next) ==
    /\ next.attempts = r.attempts /\ next.last = r.last
    /\ next.context = r.context /\ next.invariant = r.invariant

\* The gate writes what it counts, and in a second bare call the end.
LEMMA GatedIs ==
    ASSUME NEW map, Listed(map), NEW a \in Asks, NEW sig \in MaybeSignatures, NEW target
    PROVE  \/ Gated(map, a, sig, target) = map
           \/ \E next \in Records :
                /\ map.of[a] # None /\ Gated(map, a, sig, target) = Touch(map, a, next)
                /\ SameBind(map.of[a], next)
                /\ \/ next.phase = map.of[a].phase
                   \/ next.phase = "terminal" /\ ~Passes(map.of[a], sig, target)
                /\ \/ next.allowance = map.of[a].allowance
                   \/ map.of[a].allowance # None /\ next.allowance.sig = map.of[a].allowance.sig
  <1> DEFINE r == map.of[a]
             verdict == Verdict(r, sig, target)
  <1>1. r \in Records \cup {None}
    BY DEF Listed, Ordered
  <1>2. CASE r = None
    BY <1>2 DEF Gated, Verdict
  <1>3. CASE r # None /\ verdict \in {"open", "closed"}
    BY <1>3 DEF Gated
  <1>4. CASE r # None /\ verdict = "bare"
    <2> DEFINE phase == IF r.bare + 1 >= 2 THEN "terminal" ELSE r.phase
               next == [r EXCEPT !.bare = r.bare + 1, !.phase = phase]
    <2>1. Gated(map, a, sig, target) = Touch(map, a, next)
      BY <1>4 DEF Gated
    <2>2. r.bare + 1 \in Nat /\ phase \in Phases
      BY <1>1, <1>4 DEF Records, Phases
    <2>3. /\ next \in Records /\ next.phase = phase
          /\ SameBind(r, next)
          /\ next.allowance = r.allowance
      <3> HIDE DEF r, phase
      <3> QED BY <1>1, <1>4, <2>2 DEF Records, Phases, SameBind
    <2>4. ~Passes(r, sig, target)
      BY <1>4 DEF Passes
    <2> HIDE DEF next
    <2> QED BY <1>4, <2>1, <2>3, <2>4
  <1>5. CASE r # None /\ verdict = "retry"
    <2> DEFINE used == [r.allowance EXCEPT !.remaining = 0]
               next == [r EXCEPT !.bare = 0, !.allowance = used]
    <2>1. Gated(map, a, sig, target) = Touch(map, a, next)
      BY <1>5 DEF Gated
    <2>2. r.allowance = [sig |-> sig, remaining |-> 1]
      BY <1>5 DEF Verdict
    <2>3. used \in Allowances /\ used.sig = r.allowance.sig /\ r.allowance # None
      <3>1. r.allowance \in Allowances \cup {None}
        BY <1>1, <1>5 DEF Records
      <3>2. r.allowance \in Allowances
        <4>1. CASE r.allowance = None
          <5>1. sig \in Signatures
            BY <1>5 DEF Verdict, MaybeSignatures
          <5> QED BY <2>2, <5>1 DEF Allowances
        <4> QED BY <3>1, <4>1
      <3>3. r.allowance # None
        BY <3>2, NoRecordAssumption
      <3> QED BY <3>2, <3>3 DEF Allowances
    <2>4. /\ next \in Records /\ next.phase = r.phase
          /\ SameBind(r, next)
          /\ next.allowance = used
      <3> HIDE DEF r, used
      <3> QED BY <1>1, <1>5, <2>3 DEF Records, SameBind
    <2> HIDE DEF next, verdict, used
    <2> QED BY <1>5, <2>1, <2>3, <2>4
  <1>6. CASE r # None /\ verdict \notin {"open", "closed", "bare", "retry"}
    <2> DEFINE next == [r EXCEPT !.bare = 0]
    <2>1. Gated(map, a, sig, target) = Touch(map, a, next)
      BY <1>6 DEF Gated
    <2>2. /\ next \in Records /\ next.phase = r.phase
          /\ SameBind(r, next)
          /\ next.allowance = r.allowance
      <3> HIDE DEF r
      <3> QED BY <1>1, <1>6 DEF Records, SameBind
    <2> HIDE DEF next, verdict
    <2> QED BY <1>6, <2>1, <2>2
  <1> QED BY <1>2, <1>3, <1>4, <1>5, <1>6

LEMMA GrantIs ==
    ASSUME NEW map, Listed(map), NEW a \in Asks, NEW sig \in Signatures
    PROVE  \/ Grant(map, a, sig) = map
           \/ \E next \in Records :
                /\ map.of[a] # None /\ Grant(map, a, sig) = Touch(map, a, next)
                /\ SameBind(map.of[a], next) /\ next.phase = map.of[a].phase
  <1> DEFINE r == map.of[a]
             next == [r EXCEPT !.allowance = [sig |-> sig, remaining |-> 1]]
  <1>1. r \in Records \cup {None}
    BY DEF Listed, Ordered
  <1>2. Grant(map, a, sig) = map \/ (r # None /\ Grant(map, a, sig) = Touch(map, a, next))
    <2> DEFINE kept == r = None \/ r.last # sig \/ (r.allowance # None /\ r.allowance.sig = sig)
    <2>1. Grant(map, a, sig) = IF kept THEN map ELSE Touch(map, a, next)
      BY DEF Grant
    <2> HIDE DEF next
    <2>2. CASE kept
      BY <2>2 DEF Grant
    <2>3. CASE ~kept
      BY <2>1, <2>3
    <2> QED BY <2>2, <2>3
  <1>3. CASE r # None
    <2>1. [sig |-> sig, remaining |-> 1] \in Allowances
      BY DEF Allowances
    <2>2. /\ next \in Records /\ next.phase = r.phase
          /\ SameBind(r, next)
      <3> HIDE DEF r
      <3> QED BY <1>1, <1>3, <2>1 DEF Records, SameBind
    <2> HIDE DEF next
    <2> QED BY <1>2, <1>3, <2>2
  <1> QED BY <1>2, <1>3

-----------------------------------------------------------------------------
\* Whose attempts are in a record.  S are the reservations, as calls with their
\* signatures, R the calls that have answered, and U what was sent by calls that answered
\* without a reservation.

Filing(r, S, R, U) ==
    LET tries == r.attempts
    IN /\ \A i \in 1..Len(tries) : tries[i].id # None =>
            /\ <<tries[i].id, tries[i].sig>> \in S
            /\ tries[i].outcome # None => tries[i].id \in R \/ tries[i].sig \in U
       /\ \A i, j \in 1..Len(tries) : tries[i].id # None /\ tries[i].id = tries[j].id => i = j

Filed(map, a, S, R, U) == Listed(map) /\ (map.of[a] # None => Filing(map.of[a], S, R, U))

LEMMA ListedRecord ==
    ASSUME NEW map, Listed(map), NEW a \in Asks
    PROVE  /\ map.of[a] \in Records \cup {None}
           /\ Loose(Found(map.of[a]))
           /\ map.of[a] # None => Found(map.of[a]) = map.of[a]
  BY FoundLoose DEF Listed, Ordered, Found

LEMMA FilingMore ==
    ASSUME NEW r, NEW S, NEW R, NEW U, NEW S1, NEW R1, NEW U1, Filing(r, S, R, U),
           S \subseteq S1, R \subseteq R1, U \subseteq U1
    PROVE  Filing(r, S1, R1, U1)
  BY DEF Filing

LEMMA TouchFiled ==
    ASSUME NEW map, Listed(map), NEW a \in Asks, NEW r \in Records, NEW S, NEW R, NEW U, Filing(r, S, R, U)
    PROVE  Filed(Touch(map, a, r), a, S, R, U)
  BY TouchListed DEF Filed

LEMMA EmptyFiling ==
    ASSUME NEW S, NEW R, NEW U
    PROVE  Filing(Empty, S, R, U)
  BY EmptySeq DEF Filing, Empty

LEMMA FoundFiling ==
    ASSUME NEW map, NEW a, NEW S, NEW R, NEW U, Filed(map, a, S, R, U)
    PROVE  Filing(Found(map.of[a]), S, R, U)
  BY EmptyFiling DEF Filed, Found

LEMMA LookedFiled ==
    ASSUME NEW map, NEW a \in Asks, NEW S, NEW R, NEW U, Filed(map, a, S, R, U)
    PROVE  Filed(Looked(map, a), a, S, R, U)
  <1>1. Listed(map) /\ map.of[a] \in Records \cup {None}
    BY ListedRecord DEF Filed
  <1>2. CASE map.of[a] = None
    BY <1>2 DEF Looked
  <1>3. CASE map.of[a] # None
    <2>1. Filing(map.of[a], S, R, U) /\ map.of[a] \in Records
      BY <1>1, <1>3 DEF Filed
    <2> QED BY <1>1, <1>3, <2>1, TouchFiled DEF Looked
  <1> QED BY <1>2, <1>3

LEMMA SameFiling ==
    ASSUME NEW r, NEW next, SameBind(r, next), NEW S, NEW R, NEW U, Filing(r, S, R, U)
    PROVE  Filing(next, S, R, U)
  BY DEF Filing, SameBind

LEMMA GatedFiled ==
    ASSUME NEW map, NEW a \in Asks, NEW sig \in MaybeSignatures, NEW target,
           NEW S, NEW R, NEW U, Filed(map, a, S, R, U)
    PROVE  Filed(Gated(map, a, sig, target), a, S, R, U)
  <1>1. Listed(map)
    BY DEF Filed
  <1>2. \/ Gated(map, a, sig, target) = map
        \/ \E next \in Records :
             map.of[a] # None /\ Gated(map, a, sig, target) = Touch(map, a, next) /\ SameBind(map.of[a], next)
    BY <1>1, GatedIs
  <1>3. ASSUME NEW next \in Records, map.of[a] # None, Gated(map, a, sig, target) = Touch(map, a, next),
               SameBind(map.of[a], next)
        PROVE  Filed(Gated(map, a, sig, target), a, S, R, U)
    <2>1. Filing(next, S, R, U)
      BY <1>3, SameFiling DEF Filed
    <2> QED BY <1>1, <1>3, <2>1, TouchFiled
  <1> QED BY <1>2, <1>3

LEMMA GrantFiled ==
    ASSUME NEW map, NEW a \in Asks, NEW sig \in Signatures,
           NEW S, NEW R, NEW U, Filed(map, a, S, R, U)
    PROVE  Filed(Grant(map, a, sig), a, S, R, U)
  <1>1. Listed(map)
    BY DEF Filed
  <1>2. \/ Grant(map, a, sig) = map
        \/ \E next \in Records :
             map.of[a] # None /\ Grant(map, a, sig) = Touch(map, a, next) /\ SameBind(map.of[a], next)
    BY <1>1, GrantIs
  <1>3. ASSUME NEW next \in Records, map.of[a] # None, Grant(map, a, sig) = Touch(map, a, next),
               SameBind(map.of[a], next)
        PROVE  Filed(Grant(map, a, sig), a, S, R, U)
    <2>1. Filing(next, S, R, U)
      BY <1>3, SameFiling DEF Filed
    <2> QED BY <1>1, <1>3, <2>1, TouchFiled
  <1> QED BY <1>2, <1>3

LEMMA ForgetListed ==
    ASSUME NEW map, Listed(map), NEW a \in Asks
    PROVE  Listed(Forget(map, a)) /\ Forget(map, a).of[a] = None
  <1>1. /\ IsMap(Forget(map, a)) /\ Ordered(Forget(map, a))
        /\ Len(Forget(map, a).order) = Len(map.order) - IF map.of[a] = None THEN 0 ELSE 1
        /\ Forget(map, a).of = [map.of EXCEPT ![a] = None]
    BY ForgetOrdered DEF Listed
  <1>2. Len(map.order) \in Nat /\ Len(map.order) <= MaxAsks /\ MaxAsks \in Nat
    BY BoundsAssumption DEF Listed, Ordered
  <1>3. Len(Forget(map, a).order) <= MaxAsks
    BY <1>1, <1>2
  <1>4. Forget(map, a).of[a] = None
    BY <1>1 DEF Listed, Ordered
  <1> QED BY <1>1, <1>3, <1>4 DEF Listed

LEMMA ReserveFiled ==
    ASSUME NEW map, NEW a \in Asks, NEW c \in Calls, NEW sig \in MaybeSignatures,
           NEW S, NEW R, NEW U, Filed(map, a, S, R, U), \A t : <<c, t>> \notin S
    PROVE  Filed(Reserve(map, a, c, sig), a, S \cup {<<c, sig>>}, R, U)
  <1> DEFINE r == Found(map.of[a])
             try == [id |-> c, sig |-> sig, outcome |-> None]
             next == ReservedRecord(r, c, sig)
  <1>1. Listed(map) /\ Loose(r) /\ Filing(r, S, R, U)
    BY FoundFiling, ListedRecord DEF Filed
  <1>2. next \in Records /\ next.attempts = Append(r.attempts, try)
    BY <1>1, ReservedFields DEF IsReserved
  <1>3. r.attempts \in Seq(Attempts) /\ try \in Attempts
    BY <1>1, LooseFields DEF Attempts, MaybeSignatures
  <1>4. /\ Len(next.attempts) = Len(r.attempts) + 1 /\ Len(r.attempts) \in Nat
        /\ \A i \in 1..Len(r.attempts) : next.attempts[i] = r.attempts[i]
        /\ next.attempts[Len(r.attempts) + 1] = try
    BY <1>2, <1>3, AppendProperties
  <1>5. Reserve(map, a, c, sig) = Touch(map, a, next)
    BY ReserveIs
  <1> HIDE DEF r, next
  <1>6. Filing(next, S \cup {<<c, sig>>}, R, U)
    <2>1. ASSUME NEW i \in 1..Len(next.attempts)
          PROVE  \/ i \in 1..Len(r.attempts) /\ next.attempts[i] = r.attempts[i]
                    /\ (r.attempts[i].id # None =>
                          <<r.attempts[i].id, r.attempts[i].sig>> \in S /\ r.attempts[i].id # c)
                 \/ i = Len(r.attempts) + 1 /\ next.attempts[i] = try
      <3>1. CASE i \in 1..Len(r.attempts)
        <4>1. r.attempts[i].id # None =>
                <<r.attempts[i].id, r.attempts[i].sig>> \in S /\ r.attempts[i].id # c
          BY <1>1, <3>1 DEF Filing
        <4> QED BY <1>4, <3>1, <4>1
      <3>2. CASE i = Len(r.attempts) + 1
        BY <1>4, <3>2
      <3> QED BY <1>4, <3>1, <3>2
    <2>2. try.id = c /\ try.sig = sig /\ try.outcome = None
      OBVIOUS
    <2> HIDE DEF try
    <2>3. ASSUME NEW i \in 1..Len(next.attempts), next.attempts[i].id # None
          PROVE  /\ <<next.attempts[i].id, next.attempts[i].sig>> \in S \cup {<<c, sig>>}
                 /\ next.attempts[i].outcome # None => next.attempts[i].id \in R \/ next.attempts[i].sig \in U
      BY <1>1, <2>1, <2>2, <2>3 DEF Filing
    <2>4. ASSUME NEW i \in 1..Len(next.attempts), NEW j \in 1..Len(next.attempts),
                 next.attempts[i].id # None, next.attempts[i].id = next.attempts[j].id
          PROVE  i = j
      BY <1>1, <2>1, <2>2, <2>4 DEF Filing
    <2> QED BY <2>3, <2>4 DEF Filing
  <1> QED BY <1>1, <1>2, <1>5, <1>6, TouchFiled

LEMMA RecordFiled ==
    ASSUME NEW map, NEW a \in Asks, NEW id \in Calls \cup {None}, NEW sig \in MaybeSignatures, NEW outcome \in Outcomes,
           NEW phase \in Phases, NEW context \in Contexts, NEW invariant \in SUBSET Proposals,
           NEW S, NEW R, NEW U, Filed(map, a, S, R, U), (id # None /\ id \in R) \/ (id = None /\ sig \in U)
    PROVE  Filed(Record(map, a, id, sig, outcome, phase, context, invariant), a, S, R, U)
  <1> DEFINE r == Found(map.of[a])
             old == r.attempts
             next == RecordedRecord(map.of[a], id, sig, outcome, phase, context, invariant)
             all == next.attempts
  <1>1. Listed(map) /\ Loose(r) /\ Filing(r, S, R, U) /\ map.of[a] \in Records \cup {None}
    BY FoundFiling, ListedRecord DEF Filed
  <1>2. next \in Records /\ all = RecordedAttempts(r, id, sig, outcome)
    <2>1. IsRecorded(next, map.of[a], id, sig, outcome, phase, context, invariant)
      BY <1>1, RecordedFields
    <2> QED BY <2>1 DEF IsRecorded
  <1>3. /\ \A i \in 1..Len(old) :
             /\ all[i].id = old[i].id /\ all[i].sig = old[i].sig
             /\ \/ all[i].outcome = old[i].outcome
                \/ /\ id # None => old[i].id = id
                   /\ id = None => old[i].sig = sig
        /\ \/ Len(all) = Len(old)
           \/ Len(all) = Len(old) + 1 /\ all[Len(all)] = [id |-> None, sig |-> sig, outcome |-> outcome]
        /\ Len(old) \in Nat
    <2>1. Len(old) \in Nat
      BY <1>1, LooseFields
    <2>2. Follows(old, RecordedAttempts(r, id, sig, outcome), id, sig, outcome)
      BY <1>1, AttemptsRecorded
    <2> HIDE DEF r, next
    <2> QED BY <1>2, <2>1, <2>2 DEF Follows
  <1>4. Record(map, a, id, sig, outcome, phase, context, invariant) = Touch(map, a, next)
    BY RecordIs
  <1> HIDE DEF r, next
  <1>5. Filing(next, S, R, U)
    <2>1. ASSUME NEW i \in 1..Len(all), all[i].id # None
          PROVE  /\ i \in 1..Len(old) /\ all[i].id = old[i].id
                 /\ <<all[i].id, all[i].sig>> \in S
                 /\ all[i].outcome # None => all[i].id \in R \/ all[i].sig \in U
      <3>1. i \in 1..Len(old)
        BY <1>3, <2>1
      <3>2. all[i].id = old[i].id /\ all[i].sig = old[i].sig
        BY <1>3, <3>1
      <3>3. /\ <<old[i].id, old[i].sig>> \in S
            /\ old[i].outcome # None => old[i].id \in R \/ old[i].sig \in U
        BY <1>1, <2>1, <3>1, <3>2 DEF Filing
      <3>4. CASE all[i].outcome = old[i].outcome
        BY <3>1, <3>2, <3>3, <3>4
      <3>5. CASE all[i].outcome # old[i].outcome
        <4>1. (id # None => old[i].id = id) /\ (id = None => old[i].sig = sig)
          BY <1>3, <3>1, <3>5
        <4> QED BY <3>1, <3>2, <3>3, <4>1
      <3> QED BY <3>4, <3>5
    <2>2. ASSUME NEW i \in 1..Len(all), NEW j \in 1..Len(all), all[i].id # None, all[i].id = all[j].id PROVE i = j
      BY <1>1, <2>1, <2>2 DEF Filing
    <2> QED BY <2>1, <2>2 DEF Filing
  <1> QED BY <1>1, <1>2, <1>4, <1>5, TouchFiled

LEMMA ReleaseFiled ==
    ASSUME NEW map, NEW a \in Asks, NEW c \in Calls, NEW S, NEW R, NEW U, Filed(map, a, S, R, U)
    PROVE  Filed(Release(map, a, c), a, S, R, U)
  <1> DEFINE r == map.of[a]
             old == r.attempts
             rest == RemoveFirstMatch(old, LAMBDA t : t.id = c)
             next == [r EXCEPT !.attempts = rest]
             cut == [map EXCEPT !.of[a] = next]
  <1>1. Listed(map) /\ IsMap(map) /\ Ordered(map) /\ r \in Records \cup {None}
    BY ListedRecord DEF Filed, Listed
  <1>2. CASE Release(map, a, c) = map
    BY <1>2
  <1>3. CASE Release(map, a, c) = Forget(map, a)
    BY <1>1, <1>3, ForgetListed DEF Filed
  <1>4. CASE r # None /\ (\E i \in DOMAIN old : old[i].id = c) /\ Release(map, a, c) = cut
    <2>1. r \in Records /\ old \in Seq(Attempts) /\ Filing(r, S, R, U) /\ c # None
      BY <1>1, <1>4, NoneAssumption DEF Records, Filed
    <2>2. PICK n \in 1..Len(old) : rest = RemoveAt(old, n)
      <3>1. \A i, j \in 1..Len(old) : old[i].id = c /\ old[j].id = c => i = j
        BY <2>1 DEF Filing
      <3>2. DOMAIN old = 1..Len(old)
        BY <2>1
      <3> HIDE DEF r
      <3>3. \/ rest = old /\ \A i \in 1..Len(old) : old[i].id # c
            \/ \E i \in 1..Len(old) : old[i].id = c /\ rest = RemoveAt(old, i)
        BY <2>1, <3>1, ReservationRemoved
      <3> HIDE DEF rest, old
      <3> QED BY <1>4, <3>2, <3>3
    <2>3. /\ rest \in Seq(Attempts) /\ Len(rest) = Len(old) - 1 /\ Len(old) \in Nat
          /\ \A j \in 1..(Len(old) - 1) : rest[j] = IF j < n THEN old[j] ELSE old[j + 1]
      <3>1. Len(old) \in Nat
        BY <2>1
      <3> HIDE DEF rest, old
      <3> QED BY <2>1, <2>2, <3>1, WithoutOne
    <2>4. next \in Records /\ next.attempts = rest
      <3> HIDE DEF rest, r
      <3> QED BY <2>1, <2>3 DEF Records
    <2>5. Filing(next, S, R, U)
      <3> HIDE DEF rest, next, r
      <3>1. ASSUME NEW i \in 1..Len(rest) PROVE \E k \in 1..Len(old) : k = (IF i < n THEN i ELSE i + 1) /\ rest[i] = old[k]
        BY <2>3
      <3>2. ASSUME NEW i \in 1..Len(rest), rest[i].id # None
            PROVE  /\ <<rest[i].id, rest[i].sig>> \in S
                   /\ rest[i].outcome # None => rest[i].id \in R \/ rest[i].sig \in U
        BY <2>1, <3>1, <3>2 DEF Filing
      <3>3. ASSUME NEW i \in 1..Len(rest), NEW j \in 1..Len(rest), rest[i].id # None, rest[i].id = rest[j].id
            PROVE  i = j
        <4>1. PICK k \in 1..Len(old) : k = (IF i < n THEN i ELSE i + 1) /\ rest[i] = old[k]
          BY <3>1
        <4>2. PICK l \in 1..Len(old) : l = (IF j < n THEN j ELSE j + 1) /\ rest[j] = old[l]
          BY <3>1
        <4>3. k = l
          BY <2>1, <3>3, <4>1, <4>2 DEF Filing
        <4> QED BY <2>3, <4>1, <4>2, <4>3
      <3> QED BY <2>4, <3>2, <3>3 DEF Filing
    <2>6. cut.of = [map.of EXCEPT ![a] = next] /\ cut.order = map.order /\ IsMap(cut)
      <3> HIDE DEF next
      <3> QED BY <1>1 DEF IsMap
    <2>7. next # None
      BY <2>4, NoRecordAssumption
    <2> HIDE DEF next, cut
    <2>8. Listed(cut) /\ cut.of[a] = next
      <3>1. cut.of \in [Asks -> Records \cup {None}]
        BY <1>1, <2>4, <2>6 DEF Ordered
      <3>2. cut.of[a] = next /\ \A b \in Asks : cut.of[b] # None <=> map.of[b] # None
        BY <1>1, <1>4, <2>6, <2>7 DEF Ordered
      <3>3. \A i \in 1..Len(map.order) : map.order[i] \in Asks
        BY <1>1 DEF Ordered
      <3>4. Ordered(cut)
        BY <1>1, <2>6, <3>1, <3>2, <3>3 DEF Ordered
      <3> QED BY <1>1, <2>6, <3>2, <3>4 DEF Listed
    <2> QED BY <1>4, <2>5, <2>8 DEF Filed
  <1>5. \/ Release(map, a, c) = map
        \/ Release(map, a, c) = Forget(map, a)
        \/ r # None /\ (\E i \in DOMAIN old : old[i].id = c) /\ Release(map, a, c) = cut
    <2>1. CASE r = None \/ \A i \in DOMAIN old : old[i].id # c
      BY <2>1 DEF Release
    <2>2. CASE ~(r = None \/ \A i \in DOMAIN old : old[i].id # c)
      <3>1. Release(map, a, c) = IF rest = <<>> THEN Forget(map, a) ELSE cut
        BY <2>2 DEF Release
      <3> HIDE DEF rest, cut
      <3> QED BY <2>2, <3>1
    <2> QED BY <2>1, <2>2
  <1> HIDE DEF cut, rest, next
  <1> QED BY <1>2, <1>3, <1>4, <1>5

-----------------------------------------------------------------------------
\* The state of the calls, and what they have to do with the records.

Stages == {"idle", "reading", "binding", "applying", "verifying", "returned"}
Views == [Titles -> Charts \cup {None}]

CallOK(c) ==
    /\ pc[c] = "idle" => ~held[c]
    /\ pc[c] # "idle" => args[c] \in Arguments
    /\ pc[c] = "reading" /\ Narrowed(args[c], prior[c]) => ~held[c]
    /\ pc[c] \in {"binding", "applying", "verifying"} => read[c] \in Views
    /\ pc[c] \in {"applying", "verifying"} => chart[c] \in Charts

CallsOK ==
    /\ pc \in [Calls -> Stages]
    /\ args \in [Calls -> Arguments \cup {None}]
    /\ prior \in [Calls -> Records \cup {None}]
    /\ held \in [Calls -> BOOLEAN]
    /\ read \in [Calls -> Views \cup {None}]
    /\ chart \in [Calls -> Charts \cup {None}]
    /\ doc \in Views
    /\ \A c \in Calls : CallOK(c)

Reservations(a) == {<<d, Sig(d)>> : d \in {e \in Calls : pc[e] # "idle" /\ held[e] /\ Ask(e) = a}}
Answered == {d \in Calls : pc[d] = "returned"}
Unfiled(a) == {Sig(d) : d \in {e \in Answered : ~held[e] /\ Ask(e) = a}}

FilesOK ==
    /\ Listed(recovery)
    /\ \A a \in Asks : Filed(recovery, a, Reservations(a), Answered, Unfiled(a))

SheetsOK ==
    /\ sheets \in Seq([chart : Charts, title : Titles])
    /\ Len(sheets) <= MaxSheets
    /\ \A i, j \in 1..Len(sheets) : sheets[i].chart = sheets[j].chart => i = j

\* What a call that begins does to its own state.
Started(c, in) ==
    /\ pc[c] = "idle" /\ in \in Arguments
    /\ args' = [args EXCEPT ![c] = in]
    /\ doc' = doc /\ sheets' = sheets
    /\ \E h \in BOOLEAN :
         /\ held' = [held EXCEPT ![c] = h]
         /\ \/ /\ pc' = [pc EXCEPT ![c] = "returned"] /\ prior' = [prior EXCEPT ![c] = None]
               /\ read' = [read EXCEPT ![c] = None] /\ chart' = [chart EXCEPT ![c] = None]
            \/ /\ pc' = [pc EXCEPT ![c] = "reading"] /\ prior' = [prior EXCEPT ![c] = recovery.of[in.ask]]
               /\ read' = read /\ chart' = chart
               /\ Narrowed(in, recovery.of[in.ask]) => ~h

LEMMA StartStarts ==
    ASSUME CallsOK, NEW c \in Calls, NEW in \in Inputs[c],
           Decline(c, in) \/ Violate(c, in) \/ Block(c, in) \/ Admit(c, in) \/ Mismatch(c, in)
    PROVE  Started(c, in)
  <1>1. in \in Arguments
    BY InputsAssumption
  <1>2. held = [held EXCEPT ![c] = held[c]] /\ held[c] \in BOOLEAN
    BY DEF CallsOK
  <1>3. CASE Decline(c, in)
    BY <1>1, <1>2, <1>3 DEF Decline, Begin, Return, Started
  <1>4. CASE Violate(c, in)
    BY <1>1, <1>2, <1>4 DEF Violate, Begin, Return, Started
  <1>5. CASE Block(c, in)
    BY <1>1, <1>2, <1>5 DEF Block, Begin, Return, Started
  <1>6. CASE Admitted(c, in)
    <2>1. PICK h \in BOOLEAN : h = (/\ ~Narrowed(in, recovery.of[in.ask])
                                   /\ AdmittedMap(c, in).of[in.ask] # None)
      OBVIOUS
    <2>2. held' = [held EXCEPT ![c] = h] /\ (Narrowed(in, recovery.of[in.ask]) => ~h)
      BY <1>6, <2>1 DEF Admitted
    <2>3. CASE Admit(c, in)
      BY <1>1, <1>6, <2>2, <2>3 DEF Admit, Admitted, Begin, Started
    <2>4. CASE Mismatch(c, in)
      <3>1. Return(c)
        BY <2>4 DEF Mismatch
      <3> QED BY <1>1, <1>6, <2>2, <3>1 DEF Admitted, Begin, Return, Started
    <2>5. ~(Decline(c, in) \/ Violate(c, in) \/ Block(c, in)) => Admit(c, in) \/ Mismatch(c, in)
      OBVIOUS
    <2> QED BY <1>3, <1>4, <1>5, <2>3, <2>4
  <1> QED BY <1>3, <1>4, <1>5, <1>6 DEF Admit, Mismatch

\* The other calls stay where they are.
OthersStay(c) ==
    \A d \in Calls \ {c} :
      /\ pc'[d] = pc[d] /\ args'[d] = args[d] /\ prior'[d] = prior[d] /\ held'[d] = held[d]
      /\ read'[d] = read[d] /\ chart'[d] = chart[d]

LEMMA StartStays ==
    ASSUME CallsOK, NEW c \in Calls, NEW in, Started(c, in)
    PROVE  /\ pc[c] = "idle" /\ pc'[c] \in {"returned", "reading"} /\ args'[c] = in
           /\ OthersStay(c)
  <1>1. PICK h \in BOOLEAN : held' = [held EXCEPT ![c] = h]
    BY DEF Started
  <1>2. \/ /\ pc' = [pc EXCEPT ![c] = "returned"] /\ prior' = [prior EXCEPT ![c] = None]
           /\ read' = [read EXCEPT ![c] = None] /\ chart' = [chart EXCEPT ![c] = None]
        \/ /\ pc' = [pc EXCEPT ![c] = "reading"] /\ prior' = [prior EXCEPT ![c] = recovery.of[in.ask]]
           /\ read' = read /\ chart' = chart
    BY DEF Started
  <1>3. args' = [args EXCEPT ![c] = in] /\ pc[c] = "idle"
    BY DEF Started
  <1>4. /\ pc = [d \in Calls |-> pc[d]] /\ args = [d \in Calls |-> args[d]] /\ prior = [d \in Calls |-> prior[d]]
        /\ held = [d \in Calls |-> held[d]] /\ read = [d \in Calls |-> read[d]] /\ chart = [d \in Calls |-> chart[d]]
    BY DEF CallsOK
  <1>5. \A d \in Calls \ {c} : args'[d] = args[d] /\ held'[d] = held[d]
    BY <1>1, <1>3, <1>4
  <1>6. \A d \in Calls \ {c} : pc'[d] = pc[d] /\ prior'[d] = prior[d] /\ read'[d] = read[d] /\ chart'[d] = chart[d]
    BY <1>2, <1>4
  <1>7. args'[c] = in /\ pc'[c] \in {"returned", "reading"}
    BY <1>2, <1>3, <1>4
  <1> QED BY <1>3, <1>5, <1>6, <1>7 DEF OthersStay

LEMMA StartCalls ==
    ASSUME CallsOK, FilesOK, NEW c \in Calls, NEW in, Started(c, in)
    PROVE  CallsOK'
  <1>1. PICK h \in BOOLEAN :
         /\ held' = [held EXCEPT ![c] = h]
         /\ \/ /\ pc' = [pc EXCEPT ![c] = "returned"] /\ prior' = [prior EXCEPT ![c] = None]
               /\ read' = [read EXCEPT ![c] = None] /\ chart' = [chart EXCEPT ![c] = None]
            \/ /\ pc' = [pc EXCEPT ![c] = "reading"] /\ prior' = [prior EXCEPT ![c] = recovery.of[in.ask]]
               /\ read' = read /\ chart' = chart
               /\ Narrowed(in, recovery.of[in.ask]) => ~h
    BY DEF Started
  <1>2. /\ pc[c] = "idle" /\ in \in Arguments /\ args' = [args EXCEPT ![c] = in] /\ doc' = doc
        /\ in.ask \in Asks
    BY DEF Started, Arguments
  <1>3. recovery.of[in.ask] \in Records \cup {None}
    BY <1>2 DEF FilesOK, Listed, Ordered
  <1>4. /\ pc' \in [Calls -> Stages] /\ args' \in [Calls -> Arguments \cup {None}]
        /\ prior' \in [Calls -> Records \cup {None}] /\ held' \in [Calls -> BOOLEAN]
        /\ read' \in [Calls -> Views \cup {None}] /\ chart' \in [Calls -> Charts \cup {None}]
        /\ doc' \in Views
    <2>1. held' \in [Calls -> BOOLEAN]
      BY <1>1 DEF CallsOK
    <2>2. args' \in [Calls -> Arguments \cup {None}] /\ doc' \in Views
      BY <1>2 DEF CallsOK
    <2>3. \/ /\ pc' = [pc EXCEPT ![c] = "returned"] /\ prior' = [prior EXCEPT ![c] = None]
             /\ read' = [read EXCEPT ![c] = None] /\ chart' = [chart EXCEPT ![c] = None]
          \/ /\ pc' = [pc EXCEPT ![c] = "reading"] /\ prior' = [prior EXCEPT ![c] = recovery.of[in.ask]]
             /\ read' = read /\ chart' = chart
      BY <1>1
    <2>4. /\ pc' \in [Calls -> Stages] /\ prior' \in [Calls -> Records \cup {None}]
          /\ read' \in [Calls -> Views \cup {None}] /\ chart' \in [Calls -> Charts \cup {None}]
      <3>1. /\ pc \in [Calls -> Stages] /\ prior \in [Calls -> Records \cup {None}]
            /\ read \in [Calls -> Views \cup {None}] /\ chart \in [Calls -> Charts \cup {None}]
        BY DEF CallsOK
      <3>2. "returned" \in Stages /\ "reading" \in Stages
        BY DEF Stages
      <3> QED BY <1>3, <2>3, <3>1, <3>2
    <2> QED BY <2>1, <2>2, <2>4
  <1>5. ASSUME NEW d \in Calls PROVE CallOK(d)'
    <2>1. CASE d = c
      <3>1. pc'[c] \in {"returned", "reading"} /\ args'[c] = in
        BY StartStays
      <3>2. held'[c] = h
        BY <1>1 DEF CallsOK
      <3>3. ASSUME pc'[c] = "reading", Narrowed(args'[c], prior'[c])
            PROVE  ~held'[c]
        <4>1. pc' # [pc EXCEPT ![c] = "returned"]
          BY <3>3 DEF CallsOK
        <4>2. prior'[c] = recovery.of[in.ask] /\ (Narrowed(in, recovery.of[in.ask]) => ~h)
          BY <1>1, <4>1 DEF CallsOK
        <4> QED BY <3>1, <3>2, <3>3, <4>2
      <3> QED BY <1>2, <2>1, <3>1, <3>3 DEF CallOK
    <2>2. CASE d # c
      <3>1. /\ pc'[d] = pc[d] /\ args'[d] = args[d] /\ held'[d] = held[d] /\ prior'[d] = prior[d]
            /\ read'[d] = read[d] /\ chart'[d] = chart[d]
        BY <2>2, StartStays DEF OthersStay
      <3>2. CallOK(d)
        BY DEF CallsOK
      <3> QED BY <3>1, <3>2 DEF CallOK
    <2> QED BY <2>1, <2>2
  <1> QED BY <1>4, <1>5 DEF CallsOK

\* What a call under way does to its own state.
Continued(c) ==
    /\ pc[c] \in {"reading", "binding", "applying", "verifying"}
    /\ args' = args
    /\ \E h \in BOOLEAN :
         /\ held' = [held EXCEPT ![c] = h] /\ (held[c] => h)
         /\ pc[c] # "reading" => h = held[c]
    /\ \/ /\ pc' = [pc EXCEPT ![c] = "returned"]
          /\ prior' = [prior EXCEPT ![c] = None] /\ read' = [read EXCEPT ![c] = None]
          /\ chart' = [chart EXCEPT ![c] = None] /\ doc' = doc
       \/ /\ pc[c] = "reading" /\ pc' = [pc EXCEPT ![c] = "binding"]
          /\ read' = [read EXCEPT ![c] = doc] /\ UNCHANGED <<prior, chart, doc>>
       \/ /\ pc[c] = "binding" /\ pc' = [pc EXCEPT ![c] = "applying"]
          /\ \E k \in Charts : chart' = [chart EXCEPT ![c] = k]
          /\ UNCHANGED <<prior, read, doc>>
       \/ /\ pc[c] = "applying" /\ pc' = [pc EXCEPT ![c] = "verifying"]
          /\ doc' = [doc EXCEPT ![Title(c)] = chart[c]]
          /\ UNCHANGED <<prior, read, chart>>

LEMMA ContinueContinues ==
    ASSUME CallsOK, NEW c \in Calls, Continue(c)
    PROVE  Continued(c)
  <1>1. held = [held EXCEPT ![c] = held[c]] /\ held[c] \in BOOLEAN
    BY DEF CallsOK
  <1>2. CASE held' = held /\ Return(c) /\ args' = args /\ doc' = doc
             /\ pc[c] \in {"reading", "binding", "applying", "verifying"}
    BY <1>1, <1>2 DEF Return, Continued
  <1>3. CASE ReadPasses(c)
    <2>1. PICK h \in BOOLEAN : h = (held[c] \/ (Narrowed(args[c], prior[c]) /\ ReservedMap(c).of[Ask(c)] # None))
      OBVIOUS
    <2>2. held' = [held EXCEPT ![c] = h]
      BY <1>3, <2>1 DEF ReadPasses, CallsOK
    <2>3. held[c] => h
      BY <2>1
    <2>4. pc[c] = "reading"
      BY <1>3 DEF ReadPasses
    <2>5. CASE Return(c) /\ args' = args /\ doc' = doc
      BY <2>2, <2>3, <2>4, <2>5 DEF Return, Continued
    <2>6. CASE Bind(c)
      BY <2>2, <2>3, <2>4, <2>6 DEF Bind, Continued
    <2>7. CASE Preflight(c) \/ TargetMissing(c)
      BY <2>5, <2>7 DEF Preflight, TargetMissing
    <2>8. CASE ~(Preflight(c) \/ TargetMissing(c) \/ Bind(c))
      <3>1. held' = held /\ Return(c) /\ args' = args /\ doc' = doc
        BY <2>8, <2>4 DEF Continue, ReadFails, ReadBlocked, BinderThrows, DeclineBound, Propose, Escalate, NotApplied,
              Reuse, Apply, Post, Applied, NotSent, SentFailed, SessionLost, history
      <3> QED BY <1>2, <2>4, <3>1
    <2> QED BY <2>6, <2>7, <2>8
  <1>4. CASE Apply(c)
    BY <1>1, <1>4 DEF Apply, Continued
  <1>5. CASE Post(c)
    BY <1>1, <1>5 DEF Post, Continued
  <1>6. CASE ~ReadPasses(c) /\ ~Apply(c) /\ ~Post(c)
    <2>1. \/ ReadFails(c) \/ ReadBlocked(c) \/ BinderThrows(c) \/ DeclineBound(c) \/ Propose(c) \/ Escalate(c)
          \/ NotApplied(c) \/ Reuse(c) \/ Applied(c) \/ NotSent(c) \/ SentFailed(c) \/ SessionLost(c)
      BY <1>6 DEF Continue, Preflight, TargetMissing, Bind
    <2>2. held' = held /\ Return(c) /\ args' = args /\ doc' = doc
      BY <2>1 DEF ReadFails, ReadBlocked, BinderThrows, DeclineBound, Propose, Escalate, NotApplied,
            Reuse, Applied, NotSent, SentFailed, SessionLost
    <2>3. pc[c] \in {"reading", "binding", "applying", "verifying"}
      BY <2>1 DEF ReadFails, ReadBlocked, BinderThrows, DeclineBound, Propose, Escalate, NotApplied,
            Reuse, Applied, NotSent, SentFailed, SessionLost
    <2> QED BY <1>2, <2>2, <2>3
  <1> QED BY <1>3, <1>4, <1>5, <1>6

LEMMA TitleTyped ==
    ASSUME NEW c \in Calls, args[c] \in Arguments
    PROVE  Title(c) \in Titles
  BY DEF Title, Titles, Ask, Arguments

LEMMA ContinueCalls ==
    ASSUME CallsOK, NEW c \in Calls, Continued(c)
    PROVE  CallsOK'
  <1>1. PICK h \in BOOLEAN :
          held' = [held EXCEPT ![c] = h] /\ (held[c] => h) /\ (pc[c] # "reading" => h = held[c])
    BY DEF Continued
  <1>2. pc[c] \in {"reading", "binding", "applying", "verifying"} /\ args' = args /\ CallOK(c)
    BY DEF Continued, CallsOK
  <1>3. \/ /\ pc' = [pc EXCEPT ![c] = "returned"]
           /\ prior' = [prior EXCEPT ![c] = None] /\ read' = [read EXCEPT ![c] = None]
           /\ chart' = [chart EXCEPT ![c] = None] /\ doc' = doc
        \/ /\ pc[c] = "reading" /\ pc' = [pc EXCEPT ![c] = "binding"]
           /\ read' = [read EXCEPT ![c] = doc] /\ prior' = prior /\ chart' = chart /\ doc' = doc
        \/ /\ pc[c] = "binding" /\ pc' = [pc EXCEPT ![c] = "applying"]
           /\ \E k \in Charts : chart' = [chart EXCEPT ![c] = k]
           /\ prior' = prior /\ read' = read /\ doc' = doc
        \/ /\ pc[c] = "applying" /\ pc' = [pc EXCEPT ![c] = "verifying"]
           /\ doc' = [doc EXCEPT ![Title(c)] = chart[c]]
           /\ prior' = prior /\ read' = read /\ chart' = chart
    BY DEF Continued
  <1>4. /\ pc' \in [Calls -> Stages] /\ args' \in [Calls -> Arguments \cup {None}]
        /\ prior' \in [Calls -> Records \cup {None}] /\ held' \in [Calls -> BOOLEAN]
        /\ read' \in [Calls -> Views \cup {None}] /\ chart' \in [Calls -> Charts \cup {None}]
    BY <1>1, <1>2, <1>3 DEF CallsOK, Stages
  <1>5. doc' \in Views
    <2>1. CASE pc[c] = "applying" /\ doc' = [doc EXCEPT ![Title(c)] = chart[c]]
      <3>1. Title(c) \in Titles /\ chart[c] \in Charts
        BY <1>2, <2>1, TitleTyped DEF CallOK
      <3> QED BY <2>1, <3>1 DEF CallsOK, Views
    <2>2. CASE doc' = doc
      BY <2>2 DEF CallsOK
    <2> QED BY <1>3, <2>1, <2>2
  <1>6. ASSUME NEW d \in Calls PROVE CallOK(d)'
    <2>1. CASE d = c
      <3>1. pc'[c] \in {"binding", "applying", "verifying", "returned"} /\ args'[c] \in Arguments
        BY <1>2, <1>3 DEF CallsOK, CallOK
      <3>2. pc'[c] \in {"binding", "applying", "verifying"} => read'[c] \in Views
        BY <1>2, <1>3 DEF CallsOK, CallOK
      <3>3. pc'[c] \in {"applying", "verifying"} => chart'[c] \in Charts
        BY <1>2, <1>3 DEF CallsOK, CallOK
      <3> QED BY <2>1, <3>1, <3>2, <3>3 DEF CallOK
    <2>2. CASE d # c
      <3>1. /\ pc'[d] = pc[d] /\ args'[d] = args[d] /\ held'[d] = held[d] /\ prior'[d] = prior[d]
            /\ read'[d] = read[d] /\ chart'[d] = chart[d]
        BY <1>1, <1>2, <1>3, <2>2 DEF CallsOK
      <3>2. CallOK(d)
        BY DEF CallsOK
      <3> QED BY <3>1, <3>2 DEF CallOK
    <2> QED BY <2>1, <2>2
  <1> QED BY <1>4, <1>5, <1>6 DEF CallsOK

\* Reservations, answers and what was sent without a reservation are never taken back.
LEMMA StartGrows ==
    ASSUME CallsOK, NEW c \in Calls, NEW in, Started(c, in), NEW b
    PROVE  /\ Reservations(b) \subseteq Reservations(b)'
           /\ Answered \subseteq Answered' /\ Unfiled(b) \subseteq Unfiled(b)'
           /\ \A t : <<c, t>> \notin Reservations(b)
  <1>1. /\ pc[c] = "idle" /\ pc'[c] # "idle"
        /\ \A d \in Calls \ {c} : pc'[d] = pc[d] /\ args'[d] = args[d] /\ held'[d] = held[d]
    BY StartStays DEF OthersStay
  <1>2. \A d \in Calls \ {c} : (Ask(d) = Ask(d)') /\ (Sig(d) = Sig(d)')
    BY <1>1 DEF Ask, Sig
  <1>3. Reservations(b) \subseteq Reservations(b)'
    <2>1. ASSUME NEW d \in Calls, pc[d] # "idle", held[d], Ask(d) = b PROVE <<d, Sig(d)>> \in Reservations(b)'
      <3>1. d # c
        BY <1>1, <2>1
      <3>2. pc'[d] # "idle" /\ held'[d] /\ Ask(d)' = b /\ Sig(d)' = Sig(d)
        BY <1>1, <1>2, <2>1, <3>1
      <3> QED BY <3>2 DEF Reservations
    <2> QED BY <2>1 DEF Reservations
  <1>4. Answered \subseteq Answered'
    BY <1>1 DEF Answered
  <1>5. Unfiled(b) \subseteq Unfiled(b)'
    <2>1. ASSUME NEW d \in Calls, pc[d] = "returned", ~held[d], Ask(d) = b PROVE Sig(d) \in Unfiled(b)'
      <3>1. d # c
        BY <1>1, <2>1
      <3>2. pc'[d] = "returned" /\ ~held'[d] /\ Ask(d)' = b /\ Sig(d)' = Sig(d)
        BY <1>1, <1>2, <2>1, <3>1
      <3> QED BY <3>2 DEF Unfiled, Answered
    <2> QED BY <2>1 DEF Unfiled, Answered
  <1> QED BY <1>1, <1>3, <1>4, <1>5 DEF Reservations

LEMMA ContinueGrows ==
    ASSUME CallsOK, NEW c \in Calls, Continued(c), NEW b
    PROVE  /\ Reservations(b) \subseteq Reservations(b)'
           /\ Answered \subseteq Answered' /\ Unfiled(b) \subseteq Unfiled(b)'
  <1>1. /\ pc[c] \notin {"idle", "returned"} /\ pc'[c] # "idle" /\ args' = args
        /\ held[c] => held'[c]
        /\ \A d \in Calls \ {c} : pc'[d] = pc[d] /\ held'[d] = held[d]
    BY DEF Continued, CallsOK
  <1>2. \A d : (Ask(d) = Ask(d)') /\ (Sig(d) = Sig(d)')
    BY <1>1 DEF Ask, Sig
  <1>3. Reservations(b) \subseteq Reservations(b)'
    <2>1. ASSUME NEW d \in Calls, pc[d] # "idle", held[d], Ask(d) = b PROVE <<d, Sig(d)>> \in Reservations(b)'
      <3>1. pc'[d] # "idle" /\ held'[d] /\ Ask(d)' = b /\ Sig(d)' = Sig(d)
        BY <1>1, <1>2, <2>1
      <3> QED BY <3>1 DEF Reservations
    <2> QED BY <2>1 DEF Reservations
  <1>4. Answered \subseteq Answered'
    BY <1>1 DEF Answered
  <1>5. Unfiled(b) \subseteq Unfiled(b)'
    <2>1. ASSUME NEW d \in Calls, pc[d] = "returned", ~held[d], Ask(d) = b PROVE Sig(d) \in Unfiled(b)'
      <3>1. d # c
        BY <1>1, <2>1
      <3>2. pc'[d] = "returned" /\ ~held'[d] /\ Ask(d)' = b /\ Sig(d)' = Sig(d)
        BY <1>1, <1>2, <2>1, <3>1
      <3> QED BY <3>2 DEF Unfiled, Answered
    <2> QED BY <2>1 DEF Unfiled, Answered
  <1> QED BY <1>3, <1>4, <1>5

LEMMA FiledMore ==
    ASSUME NEW map, NEW a, NEW S, NEW R, NEW U, NEW S1, NEW R1, NEW U1, Filed(map, a, S, R, U),
           S \subseteq S1, R \subseteq R1, U \subseteq U1
    PROVE  Filed(map, a, S1, R1, U1)
  BY FilingMore DEF Filed

LEMMA FilesKept ==
    ASSUME FilesOK, NEW a \in Asks, Keeps(recovery, recovery', a),
           \A b \in Asks : /\ Reservations(b) \subseteq Reservations(b)'
                           /\ Answered \subseteq Answered' /\ Unfiled(b) \subseteq Unfiled(b)',
           Filed(recovery', a, Reservations(a)', Answered', Unfiled(a)')
    PROVE  FilesOK'
  <1>1. Listed(recovery')
    BY DEF Filed
  <1>2. ASSUME NEW b \in Asks PROVE Filed(recovery', b, Reservations(b)', Answered', Unfiled(b)')
    <2>1. CASE b = a
      BY <2>1
    <2>2. CASE b # a
      <3>1. Filed(recovery, b, Reservations(b)', Answered', Unfiled(b)')
        BY FiledMore DEF FilesOK
      <3>2. Spares(recovery, recovery', b)
        BY <2>2 DEF Keeps
      <3> QED BY <1>1, <3>1, <3>2 DEF Spares, Filed
    <2> QED BY <2>1, <2>2
  <1> QED BY <1>1, <1>2 DEF FilesOK

LEMMA SigTyped ==
    ASSUME NEW in \in Arguments
    PROVE  SigOf(in.proposal) \in MaybeSignatures /\ in.ask \in Asks
  BY DEF SigOf, MaybeSignatures, Signatures, Arguments

\* What the reservation at the end of the gate leaves of the record.
LEMMA AdmittedFiled ==
    ASSUME FilesOK, NEW c \in Calls, NEW in \in Arguments, NEW S, NEW R, NEW U,
           Filed(recovery, in.ask, S, R, U), \A t : <<c, t>> \notin S
    PROVE  /\ Filed(AdmittedMap(c, in), in.ask, S \cup {<<c, SigOf(in.proposal)>>}, R, U)
           /\ Narrowed(in, recovery.of[in.ask]) => Filed(AdmittedMap(c, in), in.ask, S, R, U)
  <1> DEFINE a == in.ask
             sig == SigOf(in.proposal)
             looked == Looked(recovery, a)
             gated == Gated(looked, a, sig, in.target)
  <1>1. a \in Asks /\ sig \in MaybeSignatures
    BY SigTyped
  <1>2. AdmittedMap(c, in) = IF Narrowed(in, recovery.of[a]) THEN gated ELSE Reserve(gated, a, c, sig)
    BY DEF AdmittedMap
  <1> HIDE DEF sig
  <1>3. Filed(looked, a, S, R, U)
    BY <1>1, LookedFiled
  <1> HIDE DEF looked
  <1>4. Filed(gated, a, S, R, U)
    BY <1>1, <1>3, GatedFiled
  <1> HIDE DEF gated
  <1>5. Filed(Reserve(gated, a, c, sig), a, S \cup {<<c, sig>>}, R, U)
    BY <1>1, <1>4, ReserveFiled
  <1>6. Filed(gated, a, S \cup {<<c, sig>>}, R, U)
    BY <1>4, FiledMore
  <1> QED BY <1>2, <1>4, <1>5, <1>6 DEF sig

\* The own ask of a call that begins.
LEMMA StartFiled ==
    ASSUME CallsOK, FilesOK, NEW c \in Calls, NEW in \in Inputs[c],
           Decline(c, in) \/ Violate(c, in) \/ Block(c, in) \/ Admit(c, in) \/ Mismatch(c, in)
    PROVE  Filed(recovery', in.ask, Reservations(in.ask)', Answered', Unfiled(in.ask)')
  <1> DEFINE a == in.ask
             sig == SigOf(in.proposal)
             S == Reservations(a)
             R == Answered
             U == Unfiled(a)
             S1 == Reservations(a)'
             R1 == Answered'
             U1 == Unfiled(a)'
             looked == Looked(recovery, a)
             gated == Gated(looked, a, sig, in.target)
             admitted == AdmittedMap(c, in)
  <1>1. in \in Arguments /\ a \in Asks /\ sig \in MaybeSignatures
    BY InputsAssumption, SigTyped
  <1>2. Started(c, in)
    BY StartStarts
  <1>3. S \subseteq S1 /\ R \subseteq R1 /\ U \subseteq U1 /\ \A t : <<c, t>> \notin S
    BY <1>2, StartGrows
  <1>4. /\ held'[c] => <<c, sig>> \in S1
        /\ pc'[c] = "returned" => c \in R1
        /\ pc'[c] = "returned" /\ ~held'[c] => sig \in U1
    <2>1. pc'[c] # "idle" /\ Ask(c)' = a /\ Sig(c)' = sig
      BY <1>2, StartStays DEF Ask, Sig
    <2> QED BY <2>1 DEF Reservations, Unfiled, Answered
  <1>5. Filed(recovery, a, S, R, U)
    BY <1>1 DEF FilesOK
  <1> HIDE DEF S, R, U, S1, R1, U1, sig
  <1>6. Filed(looked, a, S, R, U)
    BY <1>1, <1>5, LookedFiled
  <1>7. Filed(gated, a, S, R, U)
    <2> HIDE DEF looked
    <2> QED BY <1>1, <1>6, GatedFiled
  <1>8. /\ Filed(admitted, a, S \cup {<<c, sig>>}, R, U)
        /\ Narrowed(in, recovery.of[a]) => Filed(admitted, a, S, R, U)
    BY <1>1, <1>3, <1>5, AdmittedFiled DEF sig
  <1>9. None \notin Calls /\ c # None
    BY NoneAssumption
  <1>10. CASE Decline(c, in)
    <2>1. recovery' = looked
      BY <1>10 DEF Decline
    <2> HIDE DEF looked
    <2> QED BY <2>1, <1>3, <1>6, FiledMore DEF S1, R1, U1
  <1>11. CASE Violate(c, in)
    <2>1. recovery' = Record(looked, a, None, sig, "escalate", "terminal", "none", {})
      BY <1>11 DEF Violate, sig
    <2>2. pc'[c] = "returned" /\ ~held'[c]
      BY <1>11 DEF Violate, Begin, Return, CallsOK, CallOK
    <2>3. "escalate" \in Outcomes /\ "terminal" \in Phases /\ "none" \in Contexts /\ {} \in SUBSET Proposals
      BY DEF Outcomes, Phases, Contexts
    <2> HIDE DEF looked
    <2>4. Filed(looked, a, S1, R1, U1)
      BY <1>3, <1>6, FiledMore
    <2>5. Filed(Record(looked, a, None, sig, "escalate", "terminal", "none", {}), a, S1, R1, U1)
      BY <1>1, <1>4, <2>2, <2>3, <2>4, RecordFiled
    <2> QED BY <2>1, <2>5 DEF S1, R1, U1
  <1>12. CASE Block(c, in)
    <2>1. recovery' = gated
      BY <1>12 DEF Block, sig
    <2> HIDE DEF gated
    <2> QED BY <2>1, <1>3, <1>7, FiledMore DEF S1, R1, U1
  <1>13. CASE Admitted(c, in)
    <2>1. PICK h \in BOOLEAN : h = (~Narrowed(in, recovery.of[a]) /\ admitted.of[a] # None)
      OBVIOUS
    <2>2. held'[c] = h
      BY <1>13, <2>1 DEF Admitted, CallsOK
    <2> HIDE DEF admitted
    <2>3. Filed(admitted, a, S1, R1, U1)
      <3>1. CASE h
        <4>1. S \cup {<<c, sig>>} \subseteq S1
          BY <3>1, <2>2, <1>3, <1>4
        <4> QED BY <4>1, <1>3, <1>8, FiledMore
      <3>2. CASE Narrowed(in, recovery.of[a])
        BY <3>2, <1>3, <1>8, FiledMore
      <3>3. CASE admitted.of[a] = None
        BY <3>3, <1>8 DEF Filed
      <3> QED BY <2>1, <3>1, <3>2, <3>3
    <2>4. CASE Admit(c, in)
      <3>1. recovery' = admitted
        BY <2>4 DEF Admit, admitted
      <3> QED BY <3>1, <2>3 DEF S1, R1, U1
    <2>5. CASE Mismatch(c, in)
      <3>1. PICK invariant \in Invariants(in.proposal) :
              \E phase : /\ recovery' = Record(admitted, a, IF held'[c] THEN c ELSE None, in.proposal.sig, "escalate",
                                               phase, "none", invariant)
                         /\ phase = IF Available(recovery.of[a], invariant)
                                    THEN Phase(Found(admitted.of[a]), in.proposal.sig) ELSE "terminal"
        BY <2>5 DEF Mismatch, admitted
      <3>2. PICK phase : /\ recovery' = Record(admitted, a, IF held'[c] THEN c ELSE None, in.proposal.sig, "escalate",
                                               phase, "none", invariant)
                         /\ phase \in Phases
        <4>1. Phase(Found(admitted.of[a]), in.proposal.sig) \in Phases /\ "terminal" \in Phases
          BY PhaseTyped DEF Phases
        <4> QED BY <3>1, <4>1
      <3>3. in.proposal.sig = sig
        BY <2>5 DEF Mismatch, SigOf, sig
      <3>4. pc'[c] = "returned"
        BY <2>5 DEF Mismatch, Return, CallsOK
      <3>5. invariant \in SUBSET Proposals
        BY <3>1 DEF Invariants
      <3>6. "escalate" \in Outcomes /\ "none" \in Contexts
        BY DEF Outcomes, Contexts
      <3>7. PICK id : id = (IF held'[c] THEN c ELSE None)
        OBVIOUS
      <3>8. id \in Calls \cup {None} /\ ((id # None /\ id \in R1) \/ (id = None /\ sig \in U1))
        BY <1>4, <1>9, <3>4, <3>7
      <3>9. Filed(Record(admitted, a, id, sig, "escalate", phase, "none", invariant), a, S1, R1, U1)
        BY <1>1, <2>3, <3>2, <3>5, <3>6, <3>8, RecordFiled
      <3> QED BY <3>2, <3>3, <3>7, <3>9 DEF S1, R1, U1
    <2>6. CASE Decline(c, in) \/ Violate(c, in) \/ Block(c, in)
      BY <2>6, <1>10, <1>11, <1>12
    <2> QED BY <2>4, <2>5, <2>6
  <1> QED BY <1>10, <1>11, <1>12, <1>13 DEF Admit, Mismatch

\* The own ask of a call under way.
LEMMA ContinueFiled ==
    ASSUME CallsOK, FilesOK, NEW c \in Calls, Continue(c), NEW a, a = Ask(c)
    PROVE  Filed(recovery', a, Reservations(a)', Answered', Unfiled(a)')
  <1> DEFINE sig == Sig(c)
             S == Reservations(a)
             R == Answered
             U == Unfiled(a)
             S1 == Reservations(a)'
             R1 == Answered'
             U1 == Unfiled(a)'
             looked == Looked(recovery, a)
             gated == Gated(looked, a, sig, args[c].target)
             reserved == ReservedMap(c)
  <1>1. /\ Continued(c) /\ args[c] \in Arguments /\ args' = args
        /\ pc[c] \in {"reading", "binding", "applying", "verifying"}
    BY ContinueContinues DEF Continued, CallsOK, CallOK
  <1>2. a \in Asks /\ sig \in MaybeSignatures
    BY <1>1, SigTyped DEF Ask, Sig
  <1>3. S \subseteq S1 /\ R \subseteq R1 /\ U \subseteq U1
    BY <1>1, ContinueGrows
  <1>4. /\ held'[c] => <<c, sig>> \in S1
        /\ pc'[c] = "returned" => c \in R1
        /\ pc'[c] = "returned" /\ ~held'[c] => sig \in U1
    <2>1. pc'[c] # "idle" /\ Ask(c)' = a /\ Sig(c)' = sig
      BY <1>1 DEF Continued, CallsOK, Ask, Sig
    <2> QED BY <2>1 DEF Reservations, Unfiled, Answered
  <1>5. Filed(recovery, a, S, R, U)
    BY <1>2 DEF FilesOK
  <1>6. ~held[c] => \A t : <<c, t>> \notin S
    BY DEF Reservations
  <1> HIDE DEF S, R, U, S1, R1, U1
  <1>7. Filed(looked, a, S, R, U)
    <2> QED BY <1>2, <1>5, LookedFiled
  <1>8. Filed(gated, a, S, R, U)
    <2> HIDE DEF looked, sig
    <2> QED BY <1>2, <1>7, GatedFiled
  <1>9. Filed(recovery, a, S1, R1, U1)
    BY <1>3, <1>5, FiledMore
  <1>10. c \in Calls /\ c # None
    BY NoneAssumption
  <1>11. CASE Preflight(c) \/ TargetMissing(c) \/ Bind(c)
    <2>0. ReadPasses(c)
      BY <1>11 DEF Preflight, TargetMissing, Bind
    <2>1. PICK h \in BOOLEAN : h = (held[c] \/ (Narrowed(args[c], prior[c]) /\ reserved.of[a] # None))
      OBVIOUS
    <2>2. held'[c] = h
      BY <2>0, <2>1 DEF ReadPasses, CallsOK
    <2>3. pc[c] = "reading" /\ (Narrowed(args[c], prior[c]) => ~held[c])
      BY <2>0 DEF ReadPasses, CallsOK, CallOK
    <2>4. Filed(reserved, a, S1, R1, U1)
      <3>1. CASE ~Narrowed(args[c], prior[c])
        BY <3>1, <1>9 DEF ReservedMap
      <3>2. CASE Narrowed(args[c], prior[c])
        <4>1. PICK map : map = IF Changed(c) THEN gated ELSE looked
          OBVIOUS
        <4>2. reserved = Reserve(map, a, c, sig)
          BY <3>2, <4>1 DEF ReservedMap
        <4> HIDE DEF looked, gated, sig
        <4>3. Filed(map, a, S, R, U)
          BY <4>1, <1>7, <1>8
        <4>4. Filed(reserved, a, S \cup {<<c, sig>>}, R, U)
          BY <1>2, <1>6, <2>3, <3>2, <4>2, <4>3, ReserveFiled
        <4> HIDE DEF reserved
        <4>5. CASE h
          <5>1. S \cup {<<c, sig>>} \subseteq S1
            BY <1>3, <1>4, <2>2, <4>5
          <5> QED BY <1>3, <4>4, <5>1, FiledMore
        <4>6. CASE ~h
          <5>1. reserved.of[a] = None
            BY <2>1, <3>2, <4>6
          <5> QED BY <4>4, <5>1 DEF Filed
        <4> QED BY <4>5, <4>6
      <3> QED BY <3>1, <3>2
    <2>5. CASE Preflight(c)
      <3>1. recovery' = Forget(reserved, a)
        BY <2>5 DEF Preflight
      <3> HIDE DEF reserved
      <3>2. Listed(Forget(reserved, a)) /\ Forget(reserved, a).of[a] = None
        BY <1>2, <2>4, ForgetListed DEF Filed
      <3>3. Filed(Forget(reserved, a), a, S1, R1, U1)
        BY <3>2 DEF Filed
      <3>4. Filed(recovery', a, S1, R1, U1)
        BY <3>1, <3>3
      <3> QED BY <3>4 DEF S1, R1, U1
    <2>6. CASE TargetMissing(c) \/ Bind(c)
      <3>1. recovery' = reserved
        BY <2>6 DEF TargetMissing, Bind
      <3> HIDE DEF reserved
      <3> QED BY <3>1, <2>4 DEF S1, R1, U1
    <2> QED BY <2>5, <2>6, <1>11
  <1>12. ASSUME NEW outcome \in Outcomes, NEW phase \in Phases, NEW context \in Contexts, NEW invariant \in SUBSET Proposals,
                pc'[c] = "returned", held' = held
         PROVE  Filed(Record(recovery, a, Id(c), sig, outcome, phase, context, invariant), a, S1, R1, U1)
    <2>1. PICK id : id = Id(c)
      OBVIOUS
    <2>2. id \in Calls \cup {None} /\ ((id # None /\ id \in R1) \/ (id = None /\ sig \in U1))
      BY <1>4, <1>10, <1>12, <2>1 DEF Id
    <2> HIDE DEF sig
    <2>3. Filed(Record(recovery, a, id, sig, outcome, phase, context, invariant), a, S1, R1, U1)
      BY <1>2, <1>9, <1>12, <2>2, RecordFiled
    <2> QED BY <2>1, <2>3
  <1>13. ASSUME NEW outcome \in Outcomes, NEW phase, NEW context \in Contexts, NEW invariant \in SUBSET Proposals,
                Return(c), held' = held, Recorded(c, outcome, phase, context, invariant)
         PROVE  Filed(recovery', a, S1, R1, U1)
    <2>1. PICK p : p = IF phase = "terminal" THEN phase ELSE Phase(Found(recovery.of[a]), sig)
      OBVIOUS
    <2>2. p \in Phases
      BY <2>1, PhaseTyped DEF Phases
    <2>3. pc'[c] = "returned"
      BY <1>13 DEF Return, CallsOK
    <2>4. recovery' = Record(recovery, a, Id(c), sig, outcome, p, context, invariant)
      BY <1>13, <2>1 DEF Recorded
    <2> HIDE DEF sig
    <2> QED BY <1>12, <1>13, <2>2, <2>3, <2>4
  <1>14. Filed(Forget(recovery, a), a, S1, R1, U1)
    <2> QED BY <1>2, ForgetListed DEF FilesOK, Filed
  <1>15. ASSUME NEW done \in BOOLEAN, Return(c), held' = held
         PROVE  Filed(AfterResult(c, done), a, S1, R1, U1)
    <2>1. CASE done
      BY <2>1, <1>14 DEF AfterResult
    <2>2. CASE ~done
      <3>1. PICK p : p = IF Structured(c) THEN "terminal" ELSE Phase(Found(recovery.of[a]), sig)
        OBVIOUS
      <3>2. p \in Phases /\ "bound" \in Outcomes /\ "none" \in Contexts /\ {} \in SUBSET Proposals
        BY <3>1, PhaseTyped DEF Phases, Outcomes, Contexts
      <3>3. AfterResult(c, done) = Record(recovery, a, Id(c), sig, "bound", p, "none", {})
        BY <2>2, <3>1 DEF AfterResult
      <3>4. pc'[c] = "returned"
        BY <1>15 DEF Return, CallsOK
      <3> HIDE DEF sig
      <3> QED BY <1>12, <1>15, <3>2, <3>3, <3>4
    <2> QED BY <2>1, <2>2
  <1>16. Filed(recovery', a, S1, R1, U1)
    <2>1. CASE recovery' = recovery
      BY <2>1, <1>9
    <2>2. CASE ReadBlocked(c)
      <3>1. recovery' = gated
        BY <2>2 DEF ReadBlocked
      <3> HIDE DEF gated
      <3>2. Filed(gated, a, S1, R1, U1)
        BY <1>3, <1>8, FiledMore
      <3> QED BY <3>1, <3>2
    <2>3. CASE Preflight(c) \/ TargetMissing(c) \/ Bind(c)
      BY <2>3, <1>11 DEF S1, R1, U1
    <2>4. CASE DeclineBound(c)
      <3>1. recovery' = recovery \/ recovery' = Release(recovery, a, c)
        BY <2>4 DEF DeclineBound
      <3>2. Filed(Release(recovery, a, c), a, S1, R1, U1)
        <4> QED BY <1>2, <1>9, ReleaseFiled
      <3> QED BY <3>1, <3>2, <1>9
    <2>5. CASE Propose(c)
      <3>1. PICK context \in Contexts : Recorded(c, "propose", "open", context, {})
        BY <2>5 DEF Propose, Contexts
      <3>2. Return(c) /\ held' = held /\ "propose" \in Outcomes /\ {} \in SUBSET Proposals
        BY <2>5 DEF Propose, Outcomes
      <3> QED BY <1>13, <3>1, <3>2
    <2>6. CASE Escalate(c)
      <3>1. PICK invariant \in SUBSET Proposals : \E phase : Recorded(c, "escalate", phase, "none", invariant)
        BY <2>6 DEF Escalate, Invariants
      <3>2. Return(c) /\ held' = held /\ "escalate" \in Outcomes /\ "none" \in Contexts
        BY <2>6 DEF Escalate, Outcomes, Contexts
      <3> QED BY <1>13, <3>1, <3>2
    <2>7. CASE NotApplied(c)
      <3>1. recovery' = Forget(recovery, a) \/ Recorded(c, "bound", "terminal", "none", {})
        BY <2>7 DEF NotApplied
      <3>2. /\ Return(c) /\ held' = held /\ "bound" \in Outcomes /\ "none" \in Contexts
            /\ {} \in SUBSET Proposals
        BY <2>7 DEF NotApplied, Outcomes, Contexts
      <3> QED BY <1>13, <1>14, <3>1, <3>2
    <2>8. CASE Applied(c) \/ SentFailed(c)
      <3>1. PICK done \in BOOLEAN : recovery' = AfterResult(c, done)
        BY <2>8 DEF Applied, SentFailed
      <3>2. Return(c) /\ held' = held
        BY <2>8 DEF Applied, SentFailed
      <3> QED BY <1>15, <3>1, <3>2
    <2>9. CASE NotSent(c)
      <3>1. PICK map : map = AfterResult(c, FALSE)
        OBVIOUS
      <3>2. Return(c) /\ held' = held
        BY <2>9 DEF NotSent
      <3>3. Filed(map, a, S1, R1, U1)
        <4> QED BY <1>15, <3>1, <3>2
      <3>4. recovery' = map \/ (sig # None /\ recovery' = Grant(map, a, sig))
        BY <2>9, <3>1 DEF NotSent
      <3>5. CASE sig # None /\ recovery' = Grant(map, a, sig)
        <4> HIDE DEF sig
        <4>1. sig \in Signatures
          BY <1>2, <3>5 DEF MaybeSignatures
        <4>2. Filed(Grant(map, a, sig), a, S1, R1, U1)
          BY <1>2, <3>3, <4>1, GrantFiled
        <4> QED BY <3>5, <4>2
      <3> QED BY <3>3, <3>4, <3>5
    <2>10. CASE ReadFails(c) \/ BinderThrows(c) \/ Reuse(c) \/ Apply(c) \/ Post(c) \/ SessionLost(c)
      BY <2>1, <2>10 DEF ReadFails, BinderThrows, Reuse, Apply, Post, SessionLost, storeVars
    <2> QED BY <2>2, <2>3, <2>4, <2>5, <2>6, <2>7, <2>8, <2>9, <2>10 DEF Continue
  <1> QED BY <1>16 DEF S1, R1, U1

-----------------------------------------------------------------------------
\* The remembered sheets.

DistinctCharts(list) == \A i, j \in 1..Len(list) : list[i].chart = list[j].chart => i = j

\* The sheets of other charts are all there, and that of k is not.
IsWithout(rest, list, k) ==
    /\ rest \in Seq([chart : Charts, title : Titles]) /\ DistinctCharts(rest)
    /\ \A i \in 1..Len(rest) : rest[i].chart # k /\ \E j \in 1..Len(list) : list[j] = rest[i]
    /\ \A j \in 1..Len(list) : list[j].chart # k => \E i \in 1..Len(rest) : rest[i] = list[j]
    /\ Len(rest) = Len(list) - IF \E j \in 1..Len(list) : list[j].chart = k THEN 1 ELSE 0

LEMMA OthersAre ==
    ASSUME SheetsOK, NEW k \in Charts
    PROVE  IsWithout(Others(k), sheets, k)
  <1> DEFINE T == [chart : Charts, title : Titles]
             rest == Others(k)
  <1>1. /\ sheets \in Seq(T) /\ Len(sheets) \in Nat
        /\ \A i, j \in 1..Len(sheets) : sheets[i].chart = sheets[j].chart => i = j
    BY DEF SheetsOK
  <1>2. \/ rest = sheets /\ \A i \in 1..Len(sheets) : sheets[i].chart # k
        \/ \E i \in 1..Len(sheets) : sheets[i].chart = k /\ rest = RemoveAt(sheets, i)
    <2>1. \A i, j \in 1..Len(sheets) : sheets[i].chart = k /\ sheets[j].chart = k => i = j
      BY <1>1
    <2> HIDE DEF T
    <2> QED BY <1>1, <2>1, SheetRemoved
  <1> HIDE DEF rest
  <1>3. ASSUME rest = sheets, \A i \in 1..Len(sheets) : sheets[i].chart # k
        PROVE  IsWithout(rest, sheets, k)
    <2> HIDE DEF T
    <2>1. DistinctCharts(sheets)
      BY <1>1 DEF DistinctCharts
    <2> QED BY <1>1, <1>3, <2>1 DEF IsWithout, T
  <1>4. ASSUME NEW n \in 1..Len(sheets), sheets[n].chart = k, rest = RemoveAt(sheets, n)
        PROVE  IsWithout(rest, sheets, k)
    <2>1. /\ rest \in Seq(T) /\ Len(rest) = Len(sheets) - 1
          /\ \A j \in 1..(Len(sheets) - 1) : rest[j] = IF j < n THEN sheets[j] ELSE sheets[j + 1]
      <3> HIDE DEF T
      <3> QED BY <1>1, <1>4, WithoutOne
    <2>2. ASSUME NEW i \in 1..Len(rest)
          PROVE  \E j \in 1..Len(sheets) : j = (IF i < n THEN i ELSE i + 1) /\ j # n /\ rest[i] = sheets[j]
      BY <1>1, <2>1
    <2>3. ASSUME NEW i \in 1..Len(rest) PROVE rest[i].chart # k /\ \E j \in 1..Len(sheets) : sheets[j] = rest[i]
      <3>1. PICK j \in 1..Len(sheets) : j # n /\ rest[i] = sheets[j]
        BY <2>2
      <3> QED BY <1>1, <1>4, <3>1
    <2>4. ASSUME NEW j \in 1..Len(sheets), sheets[j].chart # k PROVE \E i \in 1..Len(rest) : rest[i] = sheets[j]
      <3>1. CASE j < n
        <4>1. j \in 1..Len(rest) /\ rest[j] = sheets[j]
          BY <1>1, <2>1, <3>1
        <4> QED BY <4>1
      <3>2. CASE j > n
        <4>1. j - 1 \in 1..Len(rest) /\ rest[j - 1] = sheets[j]
          BY <1>1, <2>1, <3>2
        <4> QED BY <4>1
      <3> QED BY <1>4, <2>4, <3>1, <3>2
    <2>5. ASSUME NEW i \in 1..Len(rest), NEW j \in 1..Len(rest), rest[i].chart = rest[j].chart PROVE i = j
      <3>1. PICK p \in 1..Len(sheets) : p = (IF i < n THEN i ELSE i + 1) /\ rest[i] = sheets[p]
        BY <2>2
      <3>2. PICK q \in 1..Len(sheets) : q = (IF j < n THEN j ELSE j + 1) /\ rest[j] = sheets[q]
        BY <2>2
      <3>3. p = q
        BY <1>1, <2>5, <3>1, <3>2
      <3> QED BY <2>1, <3>1, <3>2, <3>3
    <2> QED BY <1>4, <2>1, <2>3, <2>4, <2>5 DEF IsWithout, DistinctCharts
  <1>5. IsWithout(rest, sheets, k)
    BY <1>2, <1>3, <1>4
  <1> QED BY <1>5 DEF rest

\* The sheets after one of a chart that was not there is appended.
LEMMA Appended ==
    ASSUME NEW list \in Seq([chart : Charts, title : Titles]), DistinctCharts(list),
           NEW s \in [chart : Charts, title : Titles], \A i \in 1..Len(list) : list[i].chart # s.chart
    PROVE  /\ Append(list, s) \in Seq([chart : Charts, title : Titles])
           /\ Len(Append(list, s)) = Len(list) + 1
           /\ DistinctCharts(Append(list, s))
           /\ \A i \in 1..Len(list) : Append(list, s)[i] = list[i]
           /\ Append(list, s)[Len(list) + 1] = s
  <1> DEFINE T == [chart : Charts, title : Titles]
             all == Append(list, s)
  <1>1. /\ all \in Seq(T) /\ Len(all) = Len(list) + 1 /\ Len(list) \in Nat
        /\ \A i \in 1..Len(list) : all[i] = list[i]
        /\ all[Len(list) + 1] = s
    <2>1. list \in Seq(T) /\ s \in T
      OBVIOUS
    <2> HIDE DEF T
    <2> QED BY <2>1, AppendProperties
  <1> HIDE DEF all
  <1>2. ASSUME NEW i \in 1..Len(all)
        PROVE  (i \in 1..Len(list) /\ all[i] = list[i]) \/ (i = Len(list) + 1 /\ all[i] = s)
    BY <1>1
  <1>3. DistinctCharts(all)
    <2>1. ASSUME NEW i \in 1..Len(all), NEW j \in 1..Len(all), all[i].chart = all[j].chart PROVE i = j
      BY <1>2, <2>1 DEF DistinctCharts
    <2> QED BY <2>1 DEF DistinctCharts
  <1> QED BY <1>1, <1>3 DEF all

LEMMA TailDistinct ==
    ASSUME NEW list \in Seq([chart : Charts, title : Titles]), DistinctCharts(list), Len(list) > 0
    PROVE  /\ Tail(list) \in Seq([chart : Charts, title : Titles])
           /\ Len(Tail(list)) = Len(list) - 1 /\ DistinctCharts(Tail(list))
  <1> DEFINE T == [chart : Charts, title : Titles]
             rest == Tail(list)
  <1>1. Len(list) \in Nat /\ list # <<>>
    BY EmptySeq
  <1>2. rest \in Seq(T) /\ Len(rest) = Len(list) - 1 /\ \A i \in 1..(Len(list) - 1) : rest[i] = list[i + 1]
    <2>1. list \in Seq(T)
      OBVIOUS
    <2> HIDE DEF T
    <2> QED BY <1>1, <2>1, HeadTailProperties
  <1> HIDE DEF rest
  <1>3. ASSUME NEW i \in 1..Len(rest), NEW j \in 1..Len(rest), rest[i].chart = rest[j].chart PROVE i = j
    <2>1. /\ i + 1 \in 1..Len(list) /\ j + 1 \in 1..Len(list)
          /\ rest[i] = list[i + 1] /\ rest[j] = list[j + 1]
      BY <1>1, <1>2
    <2>2. i + 1 = j + 1
      BY <1>3, <2>1 DEF DistinctCharts
    <2> QED BY <1>1, <1>2, <2>2
  <1> QED BY <1>2, <1>3 DEF DistinctCharts, rest

LEMMA SheetsContinue ==
    ASSUME CallsOK, SheetsOK, NEW c \in Calls, Continue(c)
    PROVE  SheetsOK'
  <1> DEFINE T == [chart : Charts, title : Titles]
  <1>1. sheets \in Seq(T) /\ Len(sheets) \in Nat /\ Len(sheets) <= MaxSheets /\ DistinctCharts(sheets)
    BY DEF SheetsOK, DistinctCharts
  <1>2. MaxSheets \in Nat
    BY BoundsAssumption
  <1>3. ASSUME NEW rest, rest \in Seq(T), Len(rest) <= MaxSheets, DistinctCharts(rest), sheets' = rest
        PROVE  SheetsOK'
    BY <1>3 DEF SheetsOK, DistinctCharts
  <1>4. CASE sheets' = sheets
    BY <1>1, <1>3, <1>4
  <1>5. ASSUME NEW k \in Charts, NEW s \in T, s.chart = k
        PROVE  LET all == Append(Others(k), s)
               IN /\ all \in Seq(T) /\ DistinctCharts(all)
                  /\ Len(all) = Len(Others(k)) + 1
    <2>1. IsWithout(Others(k), sheets, k)
      BY OthersAre
    <2>2. Others(k) \in Seq(T) /\ DistinctCharts(Others(k)) /\ \A i \in 1..Len(Others(k)) : Others(k)[i].chart # k
      BY <2>1 DEF IsWithout
    <2> QED BY <1>5, <2>2, Appended
  <1>6. CASE Reuse(c)
    <2>1. PICK k \in Charts, i \in DOMAIN sheets : sheets[i].chart = k /\ sheets' = Append(Others(k), sheets[i])
      BY <1>6 DEF Reuse, StillPresent, Remembered
    <2>2. i \in 1..Len(sheets) /\ sheets[i] \in T
      <3> HIDE DEF T
      <3> QED BY <1>1, <2>1
    <2>3. Len(Others(k)) = Len(sheets) - 1
      <3>1. IsWithout(Others(k), sheets, k)
        BY OthersAre
      <3>2. \E j \in 1..Len(sheets) : sheets[j].chart = k
        BY <2>1, <2>2
      <3> QED BY <3>1, <3>2 DEF IsWithout
    <2> DEFINE all == Append(Others(k), sheets[i])
    <2> HIDE DEF T
    <2>4. all \in Seq(T) /\ DistinctCharts(all) /\ Len(all) = Len(Others(k)) + 1
      BY <1>5, <2>1, <2>2
    <2>5. sheets' = all
      BY <2>1
    <2> HIDE DEF all
    <2>6. Len(all) <= MaxSheets
      BY <1>1, <1>2, <2>3, <2>4
    <2> QED BY <1>3, <2>4, <2>5, <2>6
  <1>7. CASE Apply(c)
    <2>1. PICK k \in Charts : sheets' = Others(k) \/ sheets' = sheets
      BY <1>7 DEF Apply
    <2>2. IsWithout(Others(k), sheets, k)
      BY OthersAre
    <2>3. Others(k) \in Seq(T) /\ DistinctCharts(Others(k))
      BY <2>2 DEF IsWithout
    <2>4. Len(Others(k)) = Len(sheets) \/ Len(Others(k)) = Len(sheets) - 1
      BY <1>1, <2>2 DEF IsWithout
    <2>5. Len(Others(k)) <= MaxSheets
      BY <1>1, <1>2, <2>4
    <2> HIDE DEF T
    <2> QED BY <1>3, <1>4, <2>1, <2>3, <2>5
  <1>8. CASE Applied(c)
    <2>1. PICK done \in BOOLEAN : Remember(c, done) \/ sheets' = sheets
      BY <1>8 DEF Applied
    <2>2. CASE Remember(c, done)
      <3> DEFINE s == [chart |-> chart[c], title |-> Title(c)]
                 all == Append(Others(chart[c]), s)
      <3>1. chart[c] \in Charts /\ s \in T /\ s.chart = chart[c]
        <4>1. args[c] \in Arguments /\ chart[c] \in Charts
          BY <1>8 DEF Applied, CallsOK, CallOK
        <4> QED BY <4>1, TitleTyped
      <3>2. sheets' = IF Len(all) > MaxSheets THEN Tail(all) ELSE all
        BY <2>2 DEF Remember
      <3> HIDE DEF s
      <3>3. /\ all \in Seq(T) /\ DistinctCharts(all) /\ Len(all) = Len(Others(chart[c])) + 1
        <4> HIDE DEF T
        <4> QED BY <1>5, <3>1
      <3>4. Len(Others(chart[c])) = Len(sheets) \/ Len(Others(chart[c])) = Len(sheets) - 1
        BY <3>1, OthersAre DEF IsWithout
      <3>5. Len(all) \in Nat /\ Len(all) <= MaxSheets + 1
        BY <1>1, <1>2, <3>3, <3>4
      <3> HIDE DEF all
      <3>6. CASE Len(all) > MaxSheets
        <4>0. all \in Seq(T) /\ DistinctCharts(all) /\ Len(all) > 0
          BY <1>2, <3>3, <3>5, <3>6
        <4>1. Tail(all) \in Seq(T) /\ Len(Tail(all)) = Len(all) - 1 /\ DistinctCharts(Tail(all))
          BY <4>0, TailDistinct
        <4>2. Len(Tail(all)) <= MaxSheets
          BY <1>2, <3>5, <4>1
        <4> HIDE DEF T
        <4> QED BY <1>3, <3>2, <3>6, <4>1, <4>2
      <3>7. CASE ~(Len(all) > MaxSheets)
        <4> HIDE DEF T
        <4>1. Len(all) <= MaxSheets
          BY <1>2, <3>5, <3>7
        <4> QED BY <1>3, <3>2, <3>3, <3>7, <4>1
      <3> QED BY <3>6, <3>7
    <2> QED BY <1>4, <2>1, <2>2
  <1>9. CASE ~Reuse(c) /\ ~Apply(c) /\ ~Applied(c)
    <2>1. sheets' = sheets
      BY <1>9 DEF Continue, ReadFails, ReadBlocked, Preflight, TargetMissing, Bind, BinderThrows, DeclineBound,
            Propose, Escalate, NotApplied, Post, NotSent, SentFailed, SessionLost, storeVars
    <2> QED BY <1>4, <2>1
  <1> QED BY <1>6, <1>7, <1>8, <1>9

-----------------------------------------------------------------------------
\* The invariant under the types and under whose outcome is where.

Sound == Shapes /\ CallsOK /\ FilesOK /\ SheetsOK

LEMMA InitSound == Init => Sound
  <1> SUFFICES ASSUME Init PROVE Sound
    OBVIOUS
  <1>1. Shapes
    BY DEF Init, Shapes, IsMap
  <1>2. CallsOK
    BY DEF Init, CallsOK, CallOK, Stages, Views
  <1>3. Listed(recovery)
    BY EmptySeq, BoundsAssumption DEF Init, Listed, Ordered, IsMap
  <1>4. FilesOK
    BY <1>3 DEF Init, FilesOK, Filed
  <1>5. SheetsOK
    BY EmptySeq, BoundsAssumption DEF Init, SheetsOK
  <1> QED BY <1>1, <1>2, <1>4, <1>5 DEF Sound

LEMMA NextSound == Sound /\ [Next]_vars => Sound'
  <1> SUFFICES ASSUME Sound, [Next]_vars PROVE Sound'
    OBVIOUS
  <1>1. Shapes /\ CallsOK /\ FilesOK /\ SheetsOK
    BY DEF Sound
  <1>2. ASSUME NEW c \in Calls, Start(c) PROVE Sound'
    <2>1. PICK in \in Inputs[c] :
            Decline(c, in) \/ Violate(c, in) \/ Block(c, in) \/ Admit(c, in) \/ Mismatch(c, in)
      BY <1>2 DEF Start
    <2>2. Started(c, in) /\ in.ask \in Asks
      BY <1>1, <2>1, StartStarts, SigTyped DEF Started
    <2>3. CallsOK'
      BY <1>1, <2>2, StartCalls
    <2>4. PICK a \in Asks : WorksOn(c, a)
      BY <1>1, <1>2, StartWorks
    <2>5. a = in.ask
      BY <2>2, <2>4 DEF WorksOn, Started, CallsOK, Sound
    <2>6. Filed(recovery', a, Reservations(a)', Answered', Unfiled(a)')
      BY <1>1, <2>1, <2>5, StartFiled
    <2>7. FilesOK'
      BY <1>1, <2>2, <2>4, <2>6, StartGrows, FilesKept DEF WorksOn
    <2>8. SheetsOK'
      BY <1>1, <2>2 DEF Started, SheetsOK
    <2> QED BY <2>3, <2>4, <2>7, <2>8 DEF Sound, WorksOn
  <1>3. ASSUME NEW c \in Calls, Continue(c) PROVE Sound'
    <2>1. Continued(c)
      BY <1>1, <1>3, ContinueContinues
    <2>2. CallsOK'
      BY <1>1, <2>1, ContinueCalls
    <2>3. PICK a \in Asks : WorksOn(c, a)
      BY <1>1, <1>3, ContinueWorks
    <2>4. a = Ask(c)
      BY <2>1, <2>3 DEF WorksOn, Continued, Ask
    <2>5. Filed(recovery', a, Reservations(a)', Answered', Unfiled(a)')
      BY <1>1, <1>3, <2>4, ContinueFiled
    <2>6. FilesOK'
      BY <1>1, <2>1, <2>3, <2>5, ContinueGrows, FilesKept DEF WorksOn
    <2>7. SheetsOK'
      BY <1>1, <1>3, SheetsContinue
    <2> QED BY <2>2, <2>3, <2>6, <2>7 DEF Sound, WorksOn
  <1>4. CASE UserEdit
    <2>1. /\ recovery' = recovery /\ sheets' = sheets /\ pc' = pc /\ args' = args /\ prior' = prior
          /\ held' = held /\ read' = read /\ chart' = chart
          /\ \E t \in Titles : doc' = [doc EXCEPT ![t] = None]
      BY <1>4 DEF UserEdit, storeVars, callVars
    <2>2. CallsOK'
      BY <1>1, <2>1 DEF CallsOK, CallOK, Narrowed, Views
    <2>3. Shapes' /\ SheetsOK'
      BY <1>1, <2>1 DEF Shapes, SheetsOK
    <2>4. FilesOK'
      BY <1>1, <2>1 DEF FilesOK, Reservations, Answered, Unfiled, Ask, Sig
    <2> QED BY <2>2, <2>3, <2>4 DEF Sound
  <1>5. CASE UNCHANGED vars
    <2>1. /\ recovery' = recovery /\ sheets' = sheets /\ pc' = pc /\ args' = args /\ prior' = prior
          /\ held' = held /\ read' = read /\ chart' = chart /\ doc' = doc
      BY <1>5 DEF vars, storeVars, callVars
    <2>2. CallsOK' /\ Shapes' /\ SheetsOK'
      BY <1>1, <2>1 DEF CallsOK, CallOK, Narrowed, Shapes, SheetsOK
    <2>3. FilesOK'
      BY <1>1, <2>1 DEF FilesOK, Reservations, Answered, Unfiled, Ask, Sig
    <2> QED BY <2>2, <2>3 DEF Sound
  <1> QED BY <1>2, <1>3, <1>4, <1>5 DEF Next

LEMMA SoundHolds == Spec => []Sound
  BY InitSound, NextSound, PTL DEF Spec

\* The map of records is what a Map with a cap can be: each ask with a record is in its
\* order once, the records have their fields, and there are never more of them, or of
\* remembered sheets, than the caps allow (touchBindRecovery, recordAppliedSheet).
THEOREM TypeCorrect == Spec => []TypeOK
  <1>1. Sound => TypeOK
    <2> SUFFICES ASSUME Sound PROVE TypeOK
      OBVIOUS
    <2>1. Shapes /\ CallsOK /\ Listed(recovery) /\ SheetsOK
      BY DEF Sound, FilesOK
    <2>2. /\ recovery.of \in [Asks -> Records \cup {None}] /\ recovery.order \in Seq(Asks)
          /\ Len(recovery.order) <= MaxAsks /\ DOMAIN recovery.order = 1..Len(recovery.order)
      BY <2>1 DEF Listed, Ordered
    <2>3. ToSet(recovery.order) = {a \in Asks : recovery.of[a] # None}
      <3>1. ASSUME NEW i \in DOMAIN recovery.order
            PROVE  recovery.order[i] \in Asks /\ recovery.of[recovery.order[i]] # None
        BY <2>1, <2>2 DEF Listed, Ordered
      <3>2. ASSUME NEW a \in Asks, recovery.of[a] # None PROVE \E i \in DOMAIN recovery.order : recovery.order[i] = a
        BY <2>1, <2>2, <3>2 DEF Listed, Ordered
      <3>3. ToSet(recovery.order) = {recovery.order[i] : i \in DOMAIN recovery.order}
        BY DEF ToSet
      <3> QED BY <3>1, <3>2, <3>3
    <2>4. IsInjective(recovery.order)
      BY <2>1, <2>2 DEF IsInjective, Listed, Ordered
    <2>5. sheets \in Seq([chart : Charts, title : Titles]) /\ Len(sheets) <= MaxSheets
      BY <2>1 DEF SheetsOK
    <2> QED BY <2>1, <2>2, <2>3, <2>4, <2>5 DEF TypeOK, CallsOK, Stages, Views
  <1> QED BY <1>1, SoundHolds, PTL

\* An outcome is filed under the call whose outcome it is (upgradeReservedAttempt), but for
\* the outcome of a call without a reservation, which goes to the last attempt if that sent
\* the same proposal and has no outcome yet (upgradeOrAppendAttempt).
THEOREM OutcomesAreFiled == Spec => []OutcomeIsOwn
  <1>1. Sound => OutcomeIsOwn
    <2> SUFFICES ASSUME Sound, NEW a \in Asks, recovery.of[a] # None, NEW i \in DOMAIN recovery.of[a].attempts,
                        recovery.of[a].attempts[i].id # None, recovery.of[a].attempts[i].outcome # None
                 PROVE  \/ pc[recovery.of[a].attempts[i].id] = "returned"
                        \/ \E d \in Calls : /\ pc[d] = "returned" /\ ~held[d] /\ Ask(d) = a
                                            /\ Sig(d) = recovery.of[a].attempts[i].sig
      BY DEF OutcomeIsOwn
    <2>1. Filing(recovery.of[a], Reservations(a), Answered, Unfiled(a)) /\ Listed(recovery)
      BY DEF Sound, FilesOK, Filed
    <2>2. i \in 1..Len(recovery.of[a].attempts)
      BY <2>1 DEF Listed, Ordered, Records
    <2>3. \/ recovery.of[a].attempts[i].id \in Answered
          \/ recovery.of[a].attempts[i].sig \in Unfiled(a)
      BY <2>1, <2>2 DEF Filing
    <2> QED BY <2>3 DEF Answered, Unfiled
  <1> QED BY <1>1, SoundHolds, PTL

-----------------------------------------------------------------------------
\* Calls that run on their own, and what they finish.

Alone(c) == c \in UnderWay /\ c \notin crowded

\* A call that nothing ran beside has the workbook to itself, and at its write no sheet of
\* its chart is remembered.
AloneOK ==
    /\ \A c \in Calls : Alone(c) =>
         /\ UnderWay = {c}
         /\ pc[c] \in {"binding", "applying"} => read[c] = doc
         /\ pc[c] = "applying" /\ args[c].target = None => \A i \in 1..Len(sheets) : sheets[i].chart # chart[c]
         /\ pc[c] = "verifying" => doc[Title(c)] # None
    /\ UnderWay \cap crowded # {} => finished = {}

Room == IsFiniteSet(Charts) /\ Cardinality(Charts) <= MaxSheets

\* What was finished is remembered, with a sheet the workbook has.
FinishedOK ==
    Room => \A f \in finished : \E i \in 1..Len(sheets) : sheets[i].chart = f[1] /\ doc[sheets[i].title] # None

LEMMA RoomForAll ==
    ASSUME Room, NEW list \in Seq([chart : Charts, title : Titles]), DistinctCharts(list)
    PROVE  Len(list) <= MaxSheets
  <1> DEFINE f == [i \in 1..Len(list) |-> list[i].chart]
  <1>1. f \in Injection(1..Len(list), Charts)
    <2>1. f \in [1..Len(list) -> Charts]
      <3> DEFINE T == [chart : Charts, title : Titles]
      <3>1. ASSUME NEW i \in 1..Len(list)
            PROVE  list[i].chart \in Charts
        <4>1. list[i] \in T
          <5>1. list \in Seq(T)
            OBVIOUS
          <5> HIDE DEF T
          <5> QED BY <5>1
        <4> QED BY <4>1
      <3> QED BY <3>1
    <2>2. \A i, j \in 1..Len(list) : f[i] = f[j] => i = j
      BY DEF DistinctCharts
    <2> HIDE DEF f
    <2> QED BY <2>1, <2>2 DEF Injection, IsInjective
  <1>2. Cardinality(1..Len(list)) <= Cardinality(Charts)
    <2> HIDE DEF f
    <2> QED BY <1>1, FS_Injection DEF Room, ExistsInjection
  <1>3. Cardinality(1..Len(list)) = Len(list) /\ Len(list) \in Nat
    BY FS_Interval
  <1>4. Cardinality(Charts) \in Nat /\ MaxSheets \in Nat
    BY FS_CardinalityType, BoundsAssumption DEF Room
  <1> QED BY <1>2, <1>3, <1>4 DEF Room

LEMMA StartAlone ==
    ASSUME CallsOK, AloneOK, FinishedOK, NEW c \in Calls, NEW in, Started(c, in), Begin(c, in)
    PROVE  AloneOK' /\ FinishedOK'
  <1>1. /\ pc[c] = "idle" /\ doc' = doc /\ sheets' = sheets
        /\ crowded' = (IF UnderWay = {} THEN {} ELSE UnderWay \cup {c})
        /\ finished' = (IF UnderWay = {} THEN finished ELSE {})
    BY DEF Begin, Started
  <1>2. /\ pc'[c] \in {"reading", "returned"}
        /\ \A d \in Calls \ {c} : pc'[d] = pc[d]
    BY StartStays DEF OthersStay
  <1>3. UnderWay' \subseteq UnderWay \cup {c}
    BY <1>2 DEF UnderWay
  <1>4. ASSUME NEW d \in Calls, Alone(d)' PROVE d = c /\ UnderWay' = {c} /\ pc'[c] = "reading"
    <2>1. UnderWay = {}
      BY <1>1, <1>3, <1>4 DEF Alone
    <2> QED BY <1>2, <1>3, <1>4, <2>1 DEF Alone, UnderWay
  <1>5. UnderWay' \cap crowded' # {} => finished' = {}
    BY <1>1
  <1>6. AloneOK'
    BY <1>4, <1>5 DEF AloneOK
  <1>7. FinishedOK'
    BY <1>1 DEF FinishedOK
  <1> QED BY <1>6, <1>7

LEMMA EditAlone ==
    ASSUME AloneOK, FinishedOK, UserEdit
    PROVE  AloneOK' /\ FinishedOK'
  <1>1. UnderWay' = UnderWay /\ crowded' = UnderWay /\ finished' = {}
    BY DEF UserEdit, callVars, UnderWay
  <1>2. \A d \in Calls : ~Alone(d)'
    BY <1>1 DEF Alone
  <1> QED BY <1>1, <1>2 DEF AloneOK, FinishedOK

\* What a step of a call under way may do to what is remembered and finished.
SheetStep(c) ==
    \/ sheets' = sheets
    \/ \E k \in Charts : \E i \in StillPresent(c, k) :
         pc[c] = "binding" /\ sheets' = Append(Others(k), sheets[i])
    \/ \E done \in BOOLEAN : pc[c] = "verifying" /\ Remember(c, done)
    \/ Apply(c)

LEMMA ContinueSheets ==
    ASSUME CallsOK, NEW c \in Calls, Continue(c)
    PROVE  /\ crowded' = crowded
           /\ SheetStep(c)
           /\ pc'[c] = "applying" => Apply(c)
           /\ \/ finished' = finished
              \/ /\ pc[c] = "verifying" /\ c \notin crowded /\ doc' = doc /\ \E done \in BOOLEAN : Remember(c, done)
                 /\ finished' = finished \cup {<<chart[c], Title(c)>>}
  <1>1. CASE Apply(c)
    BY <1>1 DEF Apply, SheetStep, history
  <1>2. CASE Applied(c)
    BY <1>2 DEF Applied, SheetStep, Return, CallsOK
  <1>3. CASE Reuse(c)
    BY <1>3 DEF Reuse, SheetStep, Return, history, CallsOK
  <1>4. CASE ~Apply(c) /\ ~Applied(c) /\ ~Reuse(c)
    <2>1. sheets' = sheets /\ crowded' = crowded /\ finished' = finished
      BY <1>4 DEF Continue, ReadFails, ReadBlocked, Preflight, TargetMissing, Bind, BinderThrows, DeclineBound,
            Propose, Escalate, NotApplied, Post, NotSent, SentFailed, SessionLost, storeVars, history
    <2>2. \E place \in {"returned", "binding", "verifying"} : pc' = [pc EXCEPT ![c] = place]
      BY <1>4 DEF Continue, ReadFails, ReadBlocked, Preflight, TargetMissing, Bind, BinderThrows, DeclineBound,
            Propose, Escalate, NotApplied, Post, NotSent, SentFailed, SessionLost, Return
    <2> QED BY <2>1, <2>2 DEF SheetStep, CallsOK
  <1> QED BY <1>1, <1>2, <1>3, <1>4

LEMMA ContinueAlone ==
    ASSUME CallsOK, SheetsOK, AloneOK, FinishedOK, NEW c \in Calls, Continue(c)
    PROVE  AloneOK' /\ FinishedOK'
  <1> DEFINE T == [chart : Charts, title : Titles]
  <1>1. /\ Continued(c) /\ crowded' = crowded /\ args' = args
        /\ pc[c] \in {"reading", "binding", "applying", "verifying"} /\ CallOK(c)
    BY ContinueContinues, ContinueSheets DEF Continued, CallsOK
  <1>2. /\ pc'[c] \in Stages \ {"idle"} /\ \A d \in Calls \ {c} : pc'[d] = pc[d]
    BY <1>1 DEF Continued, CallsOK, Stages
  <1>3. c \in UnderWay /\ UnderWay' \subseteq UnderWay /\ UnderWay \subseteq UnderWay' \cup {c}
    BY <1>1, <1>2 DEF UnderWay
  <1>4. CASE c \in crowded
    <2>1. finished = {} /\ \A d \in Calls : ~Alone(d)
      BY <1>3, <1>4 DEF AloneOK, Alone
    <2>2. finished' = {}
      BY <1>4, <2>1, ContinueSheets
    <2>3. \A d \in Calls : ~Alone(d)'
      BY <1>1, <1>3, <2>1 DEF Alone
    <2> QED BY <2>2, <2>3 DEF AloneOK, FinishedOK
  <1>5. CASE c \notin crowded
    <2>1. /\ UnderWay = {c}
          /\ pc[c] \in {"binding", "applying"} => read[c] = doc
          /\ pc[c] = "applying" /\ args[c].target = None => \A i \in 1..Len(sheets) : sheets[i].chart # chart[c]
          /\ pc[c] = "verifying" => doc[Title(c)] # None
      BY <1>3, <1>5 DEF AloneOK, Alone
    <2>2. UnderWay' \cap crowded' = {}
      BY <1>1, <1>3, <1>5, <2>1
    <2>3. sheets \in Seq(T) /\ Len(sheets) \in Nat
      BY DEF SheetsOK
    <2>4. ASSUME NEW k \in Charts
          PROVE  /\ \A i \in 1..Len(Others(k)) : Others(k)[i].chart # k
                 /\ \A j \in 1..Len(sheets) : sheets[j].chart # k => \E i \in 1..Len(Others(k)) : Others(k)[i] = sheets[j]
                 /\ Others(k) \in Seq(T) /\ DistinctCharts(Others(k))
      BY OthersAre DEF IsWithout
    <2>5. AloneOK'
      <3>1. ASSUME NEW d \in Calls, Alone(d)' PROVE d = c /\ UnderWay' = {d}
        BY <1>3, <2>1, <3>1 DEF Alone
      <3>2. pc'[c] \in {"binding", "applying"} => read'[c] = doc'
        BY <1>1, <2>1 DEF Continued, CallsOK
      <3>3. pc'[c] = "applying" /\ args'[c].target = None => \A i \in 1..Len(sheets') : sheets'[i].chart # chart'[c]
        <4> SUFFICES ASSUME pc'[c] = "applying", args'[c].target = None
                     PROVE  \A i \in 1..Len(sheets') : sheets'[i].chart # chart'[c]
          OBVIOUS
        <4>1. Apply(c)
          BY ContinueSheets
        <4>2. PICK k \in Charts : sheets' = Others(k) /\ chart' = [chart EXCEPT ![c] = k]
          BY <1>1, <4>1 DEF Apply
        <4>3. chart'[c] = k
          BY <4>2 DEF CallsOK
        <4> QED BY <2>4, <4>2, <4>3
      <3>4. pc'[c] = "verifying" => doc'[Title(c)'] # None
        <4> SUFFICES ASSUME pc'[c] = "verifying" PROVE doc'[Title(c)'] # None
          OBVIOUS
        <4>1. pc[c] = "applying" /\ doc' = [doc EXCEPT ![Title(c)] = chart[c]]
          BY <1>1 DEF Continued, CallsOK
        <4>2. chart[c] \in Charts /\ chart[c] # None /\ Title(c) \in Titles
          BY <1>1, <4>1, NoneAssumption, TitleTyped DEF CallOK
        <4>3. Title(c)' = Title(c)
          BY <1>1 DEF Title, Ask
        <4> QED BY <4>1, <4>2, <4>3 DEF CallsOK, Views
      <3> QED BY <2>2, <3>1, <3>2, <3>3, <3>4 DEF AloneOK
    <2>6. FinishedOK'
      <3> SUFFICES ASSUME Room, NEW f \in finished'
                   PROVE  \E i \in 1..Len(sheets') : sheets'[i].chart = f[1] /\ doc'[sheets'[i].title] # None
        BY DEF FinishedOK, Room
      <3>1. \A t \in Titles : doc[t] # None => doc'[t] # None
        <4>1. pc[c] = "applying" => chart[c] # None
          BY <1>1, NoneAssumption DEF CallOK
        <4>2. doc' = doc \/ (pc[c] = "applying" /\ doc' = [doc EXCEPT ![Title(c)] = chart[c]])
          BY <1>1 DEF Continued
        <4> QED BY <4>1, <4>2 DEF CallsOK, Views
      <3>2. f \in finished \/ (f[1] = chart[c] /\ pc[c] = "verifying" /\ doc' = doc /\ \E done \in BOOLEAN : Remember(c, done))
        BY ContinueSheets
      <3>3. ASSUME f \in finished
            PROVE  \E i \in 1..Len(sheets) : sheets[i].chart = f[1] /\ doc[sheets[i].title] # None /\ sheets[i] \in T
        <4>1. PICK i \in 1..Len(sheets) : sheets[i].chart = f[1] /\ doc[sheets[i].title] # None
          BY <3>3 DEF FinishedOK
        <4>2. sheets[i] \in T
          <5> HIDE DEF T
          <5> QED BY <2>3
        <4> QED BY <4>1, <4>2
      <3>4. CASE sheets' = sheets /\ f \in finished
        BY <3>1, <3>3, <3>4
      <3>5. ASSUME NEW done \in BOOLEAN, pc[c] = "verifying", Remember(c, done)
            PROVE  \E i \in 1..Len(sheets') : sheets'[i].chart = f[1] /\ doc'[sheets'[i].title] # None
        <4> DEFINE s == [chart |-> chart[c], title |-> Title(c)]
                   all == Append(Others(chart[c]), s)
        <4>1. chart[c] \in Charts /\ s \in T /\ s.chart = chart[c] /\ s.title = Title(c) /\ Title(c) \in Titles
          BY <1>1, <3>5, TitleTyped DEF CallOK
        <4>2. sheets' = IF Len(all) > MaxSheets THEN Tail(all) ELSE all
          BY <3>5 DEF Remember
        <4> HIDE DEF s
        <4>3. /\ all \in Seq(T) /\ DistinctCharts(all) /\ Len(all) = Len(Others(chart[c])) + 1
              /\ \A i \in 1..Len(Others(chart[c])) : all[i] = Others(chart[c])[i]
              /\ all[Len(Others(chart[c])) + 1] = s
          <5>1. /\ Others(chart[c]) \in Seq(T) /\ DistinctCharts(Others(chart[c]))
                /\ \A i \in 1..Len(Others(chart[c])) : Others(chart[c])[i].chart # s.chart
            BY <2>4, <4>1
          <5> QED BY <4>1, <5>1, Appended
        <4>4. sheets' = all
          <5>1. Len(all) <= MaxSheets /\ Len(all) \in Nat /\ MaxSheets \in Nat
            <6>1. all \in Seq(T) /\ DistinctCharts(all)
              BY <4>3
            <6> HIDE DEF all
            <6>2. Len(all) <= MaxSheets
              BY <6>1, RoomForAll
            <6> QED BY <6>1, <6>2, BoundsAssumption
          <5> HIDE DEF all
          <5> QED BY <4>2, <5>1
        <4>5. Len(Others(chart[c])) \in Nat
          BY <2>4, <4>1
        <4> HIDE DEF all
        <4>6. CASE f[1] = chart[c]
          <5>1. Len(all) \in 1..Len(all) /\ all[Len(all)] = s
            BY <4>3, <4>5
          <5>2. doc'[Title(c)] # None
            BY <2>1, <3>1, <3>5, <4>1
          <5> QED BY <4>1, <4>4, <4>6, <5>1, <5>2
        <4>7. CASE f[1] # chart[c]
          <5>1. f \in finished
            BY <3>2, <4>7
          <5>2. PICK j \in 1..Len(sheets) : sheets[j].chart = f[1] /\ doc[sheets[j].title] # None /\ sheets[j] \in T
            BY <3>3, <5>1
          <5>3. PICK i \in 1..Len(Others(chart[c])) : Others(chart[c])[i] = sheets[j]
            BY <2>4, <4>1, <4>7, <5>2
          <5>4. i \in 1..Len(all) /\ all[i] = sheets[j]
            BY <4>3, <4>5, <5>3
          <5>5. sheets[j].title \in Titles
            BY <5>2
          <5> QED BY <3>1, <4>4, <5>2, <5>4, <5>5
        <4> QED BY <4>6, <4>7
      <3>6. CASE Apply(c) /\ f \in finished
        <4>1. PICK k \in Charts : /\ sheets' = Others(k) \/ sheets' = sheets
                                  /\ sheets' = Others(k) /\ sheets' # sheets => StillPresent(c, k) = {}
          <5>1. PICK k \in Charts : /\ args[c].target = None => StillPresent(c, k) = {}
                                    /\ sheets' = IF args[c].target = None THEN Others(k) ELSE sheets
            BY <3>6 DEF Apply
          <5> QED BY <5>1
        <4>2. PICK j \in 1..Len(sheets) : sheets[j].chart = f[1] /\ doc[sheets[j].title] # None /\ sheets[j] \in T
          BY <3>3, <3>6
        <4>3. CASE sheets' = sheets
          BY <3>4, <3>6, <4>3
        <4>4. CASE sheets' = Others(k) /\ sheets' # sheets
          <5>1. read[c] = doc
            BY <2>1, <3>6 DEF Apply
          <5>2. sheets[j].chart # k
            <6>1. DOMAIN sheets = 1..Len(sheets)
              BY <2>3
            <6> QED BY <4>1, <4>2, <4>4, <5>1, <6>1 DEF StillPresent, Remembered
          <5>3. PICK i \in 1..Len(Others(k)) : Others(k)[i] = sheets[j]
            BY <2>4, <4>2, <5>2
          <5>4. sheets[j].title \in Titles
            BY <4>2
          <5> QED BY <3>1, <4>2, <4>4, <5>3, <5>4
        <4> QED BY <4>1, <4>3, <4>4
      <3>7. ASSUME NEW k \in Charts, NEW n \in StillPresent(c, k), pc[c] = "binding", sheets' = Append(Others(k), sheets[n])
            PROVE  \E i \in 1..Len(sheets') : sheets'[i].chart = f[1] /\ doc'[sheets'[i].title] # None
        <4>1. n \in 1..Len(sheets) /\ sheets[n].chart = k /\ sheets[n] \in T
          <5>1. n \in 1..Len(sheets) /\ sheets[n].chart = k
            BY <2>3, <3>7 DEF StillPresent, Remembered
          <5> HIDE DEF T
          <5> QED BY <2>3, <5>1
        <4> DEFINE all == Append(Others(k), sheets[n])
        <4>2. /\ all \in Seq(T) /\ Len(all) = Len(Others(k)) + 1
              /\ \A i \in 1..Len(Others(k)) : all[i] = Others(k)[i]
              /\ all[Len(Others(k)) + 1] = sheets[n]
          BY <2>4, <4>1, Appended
        <4>3. sheets' = all /\ Len(Others(k)) \in Nat
          BY <2>4, <3>7
        <4> HIDE DEF all
        <4>4. f \in finished
          BY <3>2, <3>7
        <4>5. PICK j \in 1..Len(sheets) : sheets[j].chart = f[1] /\ doc[sheets[j].title] # None /\ sheets[j] \in T
          BY <3>3, <4>4
        <4>6. \E i \in 1..Len(all) : all[i] = sheets[j]
          <5>1. CASE sheets[j].chart = k
            <6>1. j = n
              BY <4>1, <5>1 DEF SheetsOK
            <6>2. Len(all) \in 1..Len(all) /\ all[Len(all)] = sheets[j]
              BY <4>2, <4>3, <6>1
            <6> QED BY <6>2
          <5>2. CASE sheets[j].chart # k
            <6>1. PICK i \in 1..Len(Others(k)) : Others(k)[i] = sheets[j]
              BY <2>4, <5>2
            <6>2. i \in 1..Len(all) /\ all[i] = sheets[j]
              BY <4>2, <4>3, <6>1
            <6> QED BY <6>2
          <5> QED BY <5>1, <5>2
        <4>7. sheets[j].title \in Titles
          BY <4>5
        <4> QED BY <3>1, <4>3, <4>5, <4>6, <4>7
      <3>8. CASE pc[c] # "verifying" \/ f \in finished
        BY <3>2, <3>4, <3>5, <3>6, <3>7, <3>8, ContinueSheets DEF SheetStep
      <3>9. CASE pc[c] = "verifying" /\ f \notin finished
        BY <3>2, <3>5, <3>9
      <3> QED BY <3>8, <3>9
    <2> QED BY <2>5, <2>6
  <1> QED BY <1>4, <1>5

\* A chart the session finished and the workbook still shows is not built again for a
\* reworded ask (getAppliedSheet, recordAppliedSheet), where the calls did not overlap and
\* the session has room to remember every chart: the look for a remembered sheet and the
\* write of a new one are steps apart, and what is remembered in between is only what was
\* finished.
THEOREM NoChartTwice == Spec => []NoTwins
  <1> DEFINE Inv == Sound /\ AloneOK /\ FinishedOK
  <1>1. Init => Inv
    <2> SUFFICES ASSUME Init PROVE AloneOK /\ FinishedOK
      BY InitSound
    <2> QED BY DEF Init, AloneOK, FinishedOK, Alone, UnderWay
  <1>2. Inv /\ [Next]_vars => Inv'
    <2> SUFFICES ASSUME Inv, [Next]_vars PROVE AloneOK' /\ FinishedOK'
      BY NextSound
    <2>1. CallsOK /\ SheetsOK /\ AloneOK /\ FinishedOK
      BY DEF Sound
    <2>2. ASSUME NEW c \in Calls, Start(c) PROVE AloneOK' /\ FinishedOK'
      <3>1. PICK in \in Inputs[c] :
              Decline(c, in) \/ Violate(c, in) \/ Block(c, in) \/ Admit(c, in) \/ Mismatch(c, in)
        BY <2>2 DEF Start
      <3>2. Started(c, in) /\ Begin(c, in)
        BY <2>1, <3>1, StartStarts DEF Decline, Violate, Block, Admit, Mismatch, Admitted
      <3> QED BY <2>1, <3>2, StartAlone
    <2>3. ASSUME NEW c \in Calls, Continue(c) PROVE AloneOK' /\ FinishedOK'
      BY <2>1, <2>3, ContinueAlone
    <2>4. CASE UserEdit
      BY <2>1, <2>4, EditAlone
    <2>5. CASE UNCHANGED vars
      BY <2>1, <2>5 DEF vars, storeVars, callVars, history, AloneOK, FinishedOK, Alone, UnderWay, Title, Ask, Room
    <2> QED BY <2>2, <2>3, <2>4, <2>5 DEF Next
  <1>3. Inv => NoTwins
    <2> SUFFICES ASSUME Inv, NEW c \in Calls, pc[c] = "applying", c \notin crowded, args[c].target = None, Room,
                        NEW t \in Titles, <<chart[c], t>> \in finished
                 PROVE  FALSE
      BY DEF NoTwins, Room
    <2>1. \A i \in 1..Len(sheets) : sheets[i].chart # chart[c]
      BY DEF AloneOK, Alone, UnderWay
    <2>2. \E i \in 1..Len(sheets) : sheets[i].chart = chart[c]
      BY DEF FinishedOK
    <2> QED BY <2>1, <2>2
  <1> QED BY <1>1, <1>2, <1>3, PTL DEF Spec

-----------------------------------------------------------------------------
\* How far the recovery of an ask can go.

Proposing(r) == {i \in DOMAIN r.attempts : r.attempts[i].id # None /\ r.attempts[i].sig # None}

BareIn(r, B) == {i \in DOMAIN r.attempts : r.attempts[i].id \in B /\ r.attempts[i].sig = None}

\* One bare call, and a rejection before a second proposal.  B are the calls without a target.
Admissible(r, B) ==
    /\ \A i, j \in BareIn(r, B) : i = j
    /\ \A i, j \in Proposing(r) : i = j \/ Rejected(r)

\* A record in whose time no two calls on its ask overlapped.
Straight(r) ==
    /\ r.last = None <=> Tried(r) = {}
    /\ r.phase \in {"none", "awaiting-proposal"} => Tried(r) = {} /\ r.invariant = {}
    /\ r.phase = "proposal-attempted" =>
         /\ r.last # None /\ Tried(r) = {r.last}
         /\ \A q \in r.invariant : q.sig # r.last
         /\ \A i, j \in Proposing(r) : i = j
    /\ r.phase = "retry-used" => Tried(r) # {}
    /\ \A i, j, k \in Proposing(r) : i = j \/ j = k \/ i = k

\* The record lets the request go on: nothing was proposed, or it corrects what was.
Welcome(r, in) ==
    \/ r.phase \in {"none", "awaiting-proposal"}
    \/ /\ r.phase = "proposal-attempted" /\ Rejected(r)
       /\ r.context # "none" /\ in.proposal \in r.invariant

LEMMA EmptyStraight ==
    ASSUME NEW B
    PROVE  Admissible(Empty, B) /\ Straight(Empty)
  <1>1. DOMAIN Empty.attempts = {}
    BY EmptySeq DEF Empty
  <1>2. BareIn(Empty, B) = {} /\ Proposing(Empty) = {} /\ Tried(Empty) = {}
    BY <1>1 DEF BareIn, Proposing, Tried
  <1>3. Empty.last = None /\ Empty.phase = "none" /\ Empty.invariant = {}
    BY DEF Empty
  <1> QED BY <1>2, <1>3 DEF Admissible, Straight

LEMMA SameTries ==
    ASSUME NEW r, NEW next, next.attempts = r.attempts, NEW B
    PROVE  /\ Tried(next) = Tried(r) /\ Proposing(next) = Proposing(r)
           /\ BareIn(next, B) = BareIn(r, B) /\ (Rejected(next) <=> Rejected(r))
           /\ Admissible(r, B) => Admissible(next, B)
  <1>1. Tried(next) = Tried(r) /\ Proposing(next) = Proposing(r) /\ BareIn(next, B) = BareIn(r, B)
    BY DEF Tried, Proposing, BareIn
  <1>2. Rejected(next) <=> Rejected(r)
    BY DEF Rejected
  <1> QED BY <1>1, <1>2 DEF Admissible

LEMMA SameStraight ==
    ASSUME NEW r, NEW next, SameBind(r, next), next.phase \in {r.phase, "terminal"}, Straight(r)
    PROVE  Straight(next)
  <1>1. /\ Tried(next) = Tried(r) /\ Proposing(next) = Proposing(r)
        /\ next.last = r.last /\ next.invariant = r.invariant
    BY SameTries DEF SameBind
  <1> QED BY <1>1 DEF Straight

LEMMA SameWelcome ==
    ASSUME NEW r, NEW next, SameBind(r, next), next.phase = r.phase, NEW in, Welcome(r, in)
    PROVE  Welcome(next, in)
  <1>1. Rejected(next) <=> Rejected(r)
    BY SameTries DEF SameBind
  <1> QED BY <1>1 DEF Welcome, SameBind

\* What passes the gate and is no violation is welcome, if the calls did not overlap.
LEMMA PassesWelcome ==
    ASSUME NEW r \in Records \cup {None}, r # None => Straight(r), NEW in \in Arguments,
           Passes(r, SigOf(in.proposal), in.target), ~Violates(in, r)
    PROVE  Welcome(Found(r), in)
  <1>1. CASE r = None
    BY <1>1 DEF Welcome, Found, Empty
  <1>2. CASE r # None
    <2>1. r \in Records /\ r.phase \in Phases /\ Found(r) = r /\ Straight(r)
      BY <1>2 DEF Records, Phases, Found
    <2>2. r.phase # "terminal" /\ (Tried(r) = {} \/ CorrectionPending(r))
      BY <1>2 DEF Passes, Verdict
    <2>3. CASE r.phase = "awaiting-proposal"
      BY <2>1, <2>3 DEF Welcome
    <2>4. CASE r.phase = "proposal-attempted"
      <3>1. CorrectionPending(r)
        BY <2>1, <2>2, <2>4 DEF Straight
      <3>2. SigOf(in.proposal) # None
        BY <1>2, <2>2, <3>1 DEF Passes, Verdict
      <3>3. in.proposal # None
        BY <3>2 DEF SigOf
      <3> QED BY <2>1, <2>4, <3>1, <3>3 DEF Violates, CorrectionPending, Welcome
    <2>5. CASE r.phase = "retry-used"
      BY <2>1, <2>2, <2>5 DEF Straight, CorrectionPending
    <2> QED BY <2>1, <2>2, <2>3, <2>4, <2>5 DEF Phases
  <1> QED BY <1>1, <1>2

\* What passes the gate finds no bare call, or brings something, and finds no proposal, or
\* one that was rejected.
LEMMA PassesAdmissible ==
    ASSUME NEW r, NEW sig, NEW target, Passes(r, sig, target)
    PROVE  /\ sig = None /\ target = None => r = None
           /\ r # None => Tried(r) = {} \/ Rejected(r)
  <1>1. sig = None /\ target = None => r = None
    BY DEF Passes, Verdict
  <1>2. r # None => Tried(r) = {} \/ Rejected(r)
    BY DEF Passes, Verdict, CorrectionPending
  <1> QED BY <1>1, <1>2

-----------------------------------------------------------------------------
\* A reservation.

LEMMA ReservedTries ==
    ASSUME NEW r, Loose(r), NEW c \in Calls, NEW sig \in MaybeSignatures, NEW next, IsReserved(next, r, c, sig), NEW B
    PROVE  LET n == Len(r.attempts) + 1
           IN /\ Tried(next) = Tried(r) \cup ({sig} \ {None})
              /\ Proposing(next) \subseteq Proposing(r) \cup {n}
              /\ sig = None => Proposing(next) = Proposing(r)
              /\ BareIn(next, B) \subseteq BareIn(r, B) \cup {n}
              /\ sig # None \/ c \notin B => BareIn(next, B) = BareIn(r, B)
              /\ Rejected(next) <=> Rejected(r)
              /\ n \in Upgradable(next, c)
  <1> DEFINE n == Len(r.attempts) + 1
             try == [id |-> c, sig |-> sig, outcome |-> None]
             old == r.attempts
             all == next.attempts
  <1>1. old \in Seq(Attempts) /\ try \in Attempts /\ all = Append(old, try)
    BY LooseFields DEF IsReserved, Attempts, MaybeSignatures
  <1>2. /\ all \in Seq(Attempts) /\ Len(all) = Len(old) + 1 /\ Len(old) \in Nat
        /\ \A i \in 1..Len(old) : all[i] = old[i]
        /\ all[Len(old) + 1] = try
    <2> HIDE DEF try, old, all
    <2> QED BY <1>1, AppendProperties
  <1>3. DOMAIN old = 1..Len(old) /\ DOMAIN all = 1..Len(all)
    BY <1>1, <1>2
  <1>4. DOMAIN all = DOMAIN old \cup {n} /\ n \notin DOMAIN old /\ all[n] = try
    BY <1>2, <1>3
  <1>5. \A i \in DOMAIN old : all[i] = old[i]
    BY <1>2, <1>3
  <1>6. try.id = c /\ try.sig = sig /\ try.outcome = None /\ c # None
    BY NoneAssumption
  <1> HIDE DEF n, try, old, all
  <1>7. Tried(next) = Tried(r) \cup ({sig} \ {None})
    <2>1. Tried(r) = {old[i].sig : i \in DOMAIN old} \ {None} /\ Tried(next) = {all[i].sig : i \in DOMAIN all} \ {None}
      BY DEF Tried, old, all
    <2> QED BY <2>1, <1>4, <1>5, <1>6
  <1>8. /\ Proposing(r) = {i \in DOMAIN old : old[i].id # None /\ old[i].sig # None}
        /\ Proposing(next) = {i \in DOMAIN all : all[i].id # None /\ all[i].sig # None}
        /\ BareIn(r, B) = {i \in DOMAIN old : old[i].id \in B /\ old[i].sig = None}
        /\ BareIn(next, B) = {i \in DOMAIN all : all[i].id \in B /\ all[i].sig = None}
    BY DEF Proposing, BareIn, old, all
  <1>9. Proposing(next) \subseteq Proposing(r) \cup {n} /\ (sig = None => Proposing(next) = Proposing(r))
    BY <1>4, <1>5, <1>6, <1>8
  <1>10. BareIn(next, B) \subseteq BareIn(r, B) \cup {n} /\ (sig # None \/ c \notin B => BareIn(next, B) = BareIn(r, B))
    BY <1>4, <1>5, <1>6, <1>8
  <1>11. Rejected(next) <=> Rejected(r)
    <2>1. Rejected(r) <=> \E i \in DOMAIN old : old[i].sig # None /\ old[i].outcome = "escalate"
      BY DEF Rejected, old
    <2>2. Rejected(next) <=> \E i \in DOMAIN all : all[i].sig # None /\ all[i].outcome = "escalate"
      BY DEF Rejected, all
    <2>3. try.outcome # "escalate"
      BY <1>6, NoRecordAssumption DEF Outcomes
    <2> QED BY <2>1, <2>2, <2>3, <1>4, <1>5
  <1>12. n \in Upgradable(next, c)
    BY <1>4, <1>6 DEF Upgradable, all
  <1> QED BY <1>7, <1>9, <1>10, <1>11, <1>12 DEF n

LEMMA ReservedAdmissible ==
    ASSUME NEW r, Loose(r), NEW c \in Calls, NEW sig \in MaybeSignatures, NEW next, IsReserved(next, r, c, sig),
           NEW B, Admissible(r, B),
           sig = None /\ c \in B => BareIn(r, B) = {},
           sig # None => Tried(r) = {} \/ Rejected(r)
    PROVE  Admissible(next, B)
  <1> DEFINE n == Len(r.attempts) + 1
  <1>1. /\ Proposing(next) \subseteq Proposing(r) \cup {n}
        /\ sig = None => Proposing(next) = Proposing(r)
        /\ BareIn(next, B) \subseteq BareIn(r, B) \cup {n}
        /\ sig # None \/ c \notin B => BareIn(next, B) = BareIn(r, B)
        /\ Rejected(next) <=> Rejected(r)
    BY ReservedTries
  <1>2. Tried(r) = {} => Proposing(r) = {}
    BY DEF Tried, Proposing
  <1> HIDE DEF n
  <1>3. \A i, j \in BareIn(next, B) : i = j
    <2>1. CASE sig = None /\ c \in B
      BY <1>1, <2>1
    <2>2. CASE sig # None \/ c \notin B
      BY <1>1, <2>2 DEF Admissible
    <2> QED BY <2>1, <2>2
  <1>4. \A i, j \in Proposing(next) : i = j \/ Rejected(next)
    <2>1. CASE sig = None
      BY <1>1, <2>1 DEF Admissible
    <2>2. CASE sig # None
      BY <1>1, <1>2, <2>2
    <2> QED BY <2>1, <2>2
  <1> QED BY <1>3, <1>4 DEF Admissible

LEMMA CardinalityOne ==
    ASSUME NEW x
    PROVE  Cardinality({x}) = 1 /\ IsFiniteSet({x})
  BY FS_Singleton

\* The second proposal is the last one.
LEMMA ReservedStraight ==
    ASSUME NEW r, Loose(r), Straight(r), NEW in \in Arguments, Welcome(r, in), NEW c \in Calls,
           NEW next, IsReserved(next, r, c, SigOf(in.proposal))
    PROVE  /\ Straight(next)
           /\ next.phase = IF SigOf(in.proposal) = None THEN "awaiting-proposal"
                           ELSE IF r.phase = "proposal-attempted" THEN "retry-used" ELSE "proposal-attempted"
  <1> DEFINE sig == SigOf(in.proposal)
             n == Len(r.attempts) + 1
  <1>1. sig \in MaybeSignatures
    BY SigTyped
  <1>2. /\ next.phase = Phase(r, sig)
        /\ next.last = (IF sig = None THEN r.last ELSE sig)
        /\ next.invariant = r.invariant
    BY DEF IsReserved
  <1>3. /\ Tried(next) = Tried(r) \cup ({sig} \ {None})
        /\ Proposing(next) \subseteq Proposing(r) \cup {n}
        /\ sig = None => Proposing(next) = Proposing(r)
    BY <1>1, ReservedTries
  <1>4. Tried(r) = {} => Proposing(r) = {}
    BY DEF Tried, Proposing
  <1>5. in.proposal \in r.invariant => sig # None /\ sig = in.proposal.sig
    <2>1. r.invariant \in SUBSET Proposals
      BY LooseFields
    <2> QED BY <2>1, NoneAssumption DEF SigOf, Signatures
  <1> HIDE DEF sig, n
  <1>6. CASE sig = None
    <2>1. r.phase \in {"none", "awaiting-proposal"} /\ Tried(r) = {} /\ r.invariant = {} /\ r.last = None
      BY <1>5, <1>6 DEF Welcome, Straight
    <2>2. next.phase = "awaiting-proposal"
      BY <1>2, <1>6 DEF Phase
    <2>3. next.last = None /\ Tried(next) = {} /\ next.invariant = {} /\ Proposing(next) = {}
      BY <1>2, <1>3, <1>4, <1>6, <2>1
    <2>4. Straight(next)
      BY <2>2, <2>3 DEF Straight
    <2> QED BY <1>6, <2>2, <2>4 DEF sig
  <1>7. CASE sig # None /\ r.phase \in {"none", "awaiting-proposal"}
    <2>1. Tried(r) = {} /\ r.invariant = {} /\ r.last = None
      BY <1>7 DEF Straight
    <2>2. next.phase = "proposal-attempted"
      BY <1>2, <1>7, <2>1 DEF Phase
    <2>3. next.last = sig /\ Tried(next) = {sig} /\ next.invariant = {} /\ Proposing(next) \subseteq {n}
      BY <1>2, <1>3, <1>4, <1>7, <2>1
    <2>4. Straight(next)
      BY <1>7, <2>2, <2>3 DEF Straight
    <2> QED BY <1>7, <2>2, <2>4 DEF sig
  <1>8. CASE sig # None /\ r.phase \notin {"none", "awaiting-proposal"}
    <2>1. r.phase = "proposal-attempted" /\ in.proposal \in r.invariant
      BY <1>8 DEF Welcome
    <2>2. /\ r.last # None /\ Tried(r) = {r.last} /\ sig # r.last
          /\ \A i, j \in Proposing(r) : i = j
      BY <1>5, <2>1 DEF Straight
    <2>3. Progress(r, sig) = "new"
      <3>1. Cardinality(Tried(r)) = 1 /\ ~(1 >= MaxProposals)
        BY <2>2, CardinalityOne, BoundsAssumption
      <3> QED BY <2>2, <3>1 DEF Progress
    <2>4. next.phase = "retry-used"
      BY <1>2, <1>8, <2>2, <2>3 DEF Phase
    <2>5. next.last = sig /\ Tried(next) # {} /\ Proposing(next) \subseteq Proposing(r) \cup {n}
      BY <1>2, <1>3, <1>8
    <2>6. \A i, j, k \in Proposing(next) : i = j \/ j = k \/ i = k
      BY <2>2, <2>5
    <2>7. Straight(next)
      BY <1>8, <2>4, <2>5, <2>6 DEF Straight
    <2> QED BY <1>8, <2>1, <2>4, <2>7 DEF sig
  <1> QED BY <1>6, <1>7, <1>8

-----------------------------------------------------------------------------
\* An outcome.

\* What an outcome leaves of the attempts of r.
Retains(next, r, id, sig) ==
    /\ Tried(next) = Tried(r) \cup (IF id = None THEN {sig} \ {None} ELSE {})
    /\ Proposing(next) = Proposing(r)
    /\ \A B \in SUBSET Calls : BareIn(next, B) = BareIn(r, B)
    /\ Rejected(r) => Rejected(next)

LEMMA RecordedTries ==
    ASSUME NEW old \in Records \cup {None}, NEW id \in Calls \cup {None}, NEW sig \in MaybeSignatures,
           NEW outcome \in Outcomes, NEW phase, NEW context, NEW invariant,
           NEW next, IsRecorded(next, old, id, sig, outcome, phase, context, invariant)
    PROVE  Retains(next, Found(old), id, sig)
  <1> DEFINE r == Found(old)
             tries == r.attempts
             all == next.attempts
  <1>1. Loose(r)
    BY FoundLoose
  <1>2. all = RecordedAttempts(r, id, sig, outcome)
    BY DEF IsRecorded
  <1>3. tries \in Seq(Attempts) /\ Len(tries) \in Nat /\ DOMAIN tries = 1..Len(tries)
    <2> HIDE DEF r
    <2> QED BY <1>1, LooseFields
  <1>4. all \in Seq(Attempts) /\ Follows(tries, all, id, sig, outcome)
    <2> HIDE DEF r
    <2> QED BY <1>1, <1>2, AttemptsRecorded
  <1>5. id = None => sig \in {all[i].sig : i \in DOMAIN all}
    <2> SUFFICES ASSUME id = None PROVE \E i \in DOMAIN all : all[i].sig = sig
      OBVIOUS
    <2>1. CASE tries # <<>> /\ Last(tries).outcome = None /\ Last(tries).sig = sig
      <3>1. all = [tries EXCEPT ![Len(tries)].outcome = outcome]
        BY <1>2, <2>1 DEF RecordedAttempts, UpgradedOrAppended
      <3>2. Len(tries) \in 1..Len(tries) /\ tries[Len(tries)].sig = sig
        BY <1>3, <2>1 DEF Last
      <3>3. DOMAIN all = 1..Len(tries) /\ all[Len(tries)].sig = tries[Len(tries)].sig
        <4>1. DOMAIN all = DOMAIN tries
          BY <3>1
        <4>2. all[Len(tries)].sig = tries[Len(tries)].sig
          BY <1>4, <3>2 DEF Follows
        <4> QED BY <1>3, <4>1, <4>2
      <3> QED BY <3>2, <3>3
    <2>2. CASE ~(tries # <<>> /\ Last(tries).outcome = None /\ Last(tries).sig = sig)
      <3> DEFINE try == [id |-> None, sig |-> sig, outcome |-> outcome]
      <3>1. all = Append(tries, try)
        BY <1>2, <2>2 DEF RecordedAttempts, UpgradedOrAppended
      <3>2. try \in Attempts /\ try.sig = sig
        BY DEF Attempts, MaybeSignatures
      <3>3. Len(all) = Len(tries) + 1 /\ all[Len(tries) + 1] = try
        <4> HIDE DEF try, tries, all
        <4> QED BY <1>3, <3>1, <3>2, AppendProperties
      <3> HIDE DEF try
      <3>4. Len(tries) + 1 \in DOMAIN all
        BY <1>3, <1>4, <3>3
      <3> QED BY <3>2, <3>3, <3>4
    <2> QED BY <2>1, <2>2
  <1>6. None \notin Calls /\ None \notin Outcomes
    BY NoneAssumption, NoRecordAssumption
  <1> HIDE DEF r, tries, all
  <1>7. /\ \A i \in DOMAIN tries : /\ i \in DOMAIN all /\ all[i].id = tries[i].id /\ all[i].sig = tries[i].sig
                                   /\ tries[i].outcome # None => all[i].outcome = tries[i].outcome
        /\ \A i \in DOMAIN all : i \in DOMAIN tries \/ (id = None /\ all[i].id = None /\ all[i].sig = sig)
    <2>1. DOMAIN all = 1..Len(all)
      BY <1>4
    <2>2. \/ Len(all) = Len(tries)
          \/ id = None /\ Len(all) = Len(tries) + 1 /\ all[Len(all)] = [id |-> None, sig |-> sig, outcome |-> outcome]
      BY <1>4 DEF Follows
    <2>3. \A i \in DOMAIN tries : /\ all[i].id = tries[i].id /\ all[i].sig = tries[i].sig
                                  /\ tries[i].outcome # None => all[i].outcome = tries[i].outcome
      BY <1>3, <1>4 DEF Follows
    <2>4. DOMAIN tries = 1..Len(tries) /\ Len(tries) \in Nat
      BY <1>3
    <2>5. \A i \in DOMAIN tries : i \in DOMAIN all
      <3>1. PICK n, m : n = Len(all) /\ m = Len(tries)
        OBVIOUS
      <3>2. n = m \/ n = m + 1
        BY <2>2, <3>1
      <3>3. m \in Nat /\ DOMAIN tries = 1..m /\ DOMAIN all = 1..n
        BY <2>1, <2>4, <3>1
      <3> QED BY <3>2, <3>3
    <2>6. \A i \in DOMAIN all : i \in DOMAIN tries \/ (id = None /\ all[i].id = None /\ all[i].sig = sig)
      <3>1. CASE Len(all) = Len(tries)
        BY <2>1, <2>4, <3>1
      <3>2. CASE id = None /\ Len(all) = Len(tries) + 1 /\ all[Len(all)] = [id |-> None, sig |-> sig, outcome |-> outcome]
        <4>1. all[Len(all)].id = None /\ all[Len(all)].sig = sig
          BY <3>2
        <4>2. \A i \in DOMAIN all : i \in DOMAIN tries \/ i = Len(all)
          BY <2>1, <2>4, <3>2
        <4> QED BY <3>2, <4>1, <4>2
      <3> QED BY <2>2, <3>1, <3>2
    <2> QED BY <2>3, <2>5, <2>6
  <1>8. /\ Tried(r) = {tries[i].sig : i \in DOMAIN tries} \ {None}
        /\ Tried(next) = {all[i].sig : i \in DOMAIN all} \ {None}
        /\ Proposing(r) = {i \in DOMAIN tries : tries[i].id # None /\ tries[i].sig # None}
        /\ Proposing(next) = {i \in DOMAIN all : all[i].id # None /\ all[i].sig # None}
        /\ Rejected(r) <=> \E i \in DOMAIN tries : tries[i].sig # None /\ tries[i].outcome = "escalate"
        /\ Rejected(next) <=> \E i \in DOMAIN all : all[i].sig # None /\ all[i].outcome = "escalate"
    BY DEF Tried, Proposing, Rejected, tries, all
  <1>9. Tried(next) = Tried(r) \cup (IF id = None THEN {sig} \ {None} ELSE {})
    <2>1. CASE id = None
      <3>1. \A t : t \in {all[i].sig : i \in DOMAIN all} <=> t \in {tries[i].sig : i \in DOMAIN tries} \/ t = sig
        BY <1>5, <1>7, <2>1
      <3> QED BY <1>8, <2>1, <3>1
    <2>2. CASE id # None
      <3>1. \A t : t \in {all[i].sig : i \in DOMAIN all} <=> t \in {tries[i].sig : i \in DOMAIN tries}
        BY <1>7, <2>2
      <3> QED BY <1>8, <2>2, <3>1
    <2> QED BY <2>1, <2>2
  <1>10. Proposing(next) = Proposing(r)
    BY <1>7, <1>8
  <1>11. ASSUME NEW B \in SUBSET Calls
         PROVE  BareIn(next, B) = BareIn(r, B)
    <2>1. /\ BareIn(r, B) = {i \in DOMAIN tries : tries[i].id \in B /\ tries[i].sig = None}
          /\ BareIn(next, B) = {i \in DOMAIN all : all[i].id \in B /\ all[i].sig = None}
      BY DEF BareIn, tries, all
    <2>2. None \notin B
      BY <1>6
    <2> QED BY <1>7, <2>1, <2>2
  <1>12. Rejected(r) => Rejected(next)
    <2>1. None # "escalate"
      BY <1>6 DEF Outcomes
    <2> QED BY <2>1, <1>7, <1>8
  <1> QED BY <1>9, <1>10, <1>11, <1>12 DEF r, Retains

LEMMA RecordedAdmissible ==
    ASSUME NEW old \in Records \cup {None}, NEW id \in Calls \cup {None}, NEW sig \in MaybeSignatures,
           NEW outcome \in Outcomes, NEW phase, NEW context, NEW invariant,
           NEW next, IsRecorded(next, old, id, sig, outcome, phase, context, invariant),
           NEW B \in SUBSET Calls, Admissible(Found(old), B)
    PROVE  Admissible(next, B)
  <1>1. /\ Proposing(next) = Proposing(Found(old)) /\ BareIn(next, B) = BareIn(Found(old), B)
        /\ Rejected(Found(old)) => Rejected(next)
    BY RecordedTries DEF Retains
  <1> QED BY <1>1 DEF Admissible

\* A rejection is in the record when its own attempt is.
LEMMA RejectedNow ==
    ASSUME NEW old \in Records \cup {None}, NEW id \in Calls, NEW sig \in MaybeSignatures,
           NEW phase, NEW context, NEW invariant,
           NEW next, IsRecorded(next, old, id, sig, "escalate", phase, context, invariant),
           NEW i \in Upgradable(Found(old), id), Found(old).attempts[i].sig # None
    PROVE  Rejected(next)
  <1> DEFINE r == Found(old)
  <1>1. Loose(r) /\ id # None
    BY FoundLoose, NoneAssumption
  <1>2. next.attempts = RecordedAttempts(r, id, sig, "escalate")
    BY DEF IsRecorded
  <1> HIDE DEF r
  <1>3. r.attempts \in Seq(Attempts) /\ i \in DOMAIN r.attempts /\ i \in Upgradable(r, id) /\ r.attempts[i].sig # None
    BY <1>1, LooseFields DEF Upgradable, r
  <1>4. r.attempts[i] \in Attempts
    BY <1>3
  <1>5. i \in DOMAIN next.attempts /\ next.attempts[i] = [r.attempts[i] EXCEPT !.outcome = "escalate"]
    BY <1>1, <1>2, <1>3 DEF RecordedAttempts
  <1>6. next.attempts[i].outcome = "escalate" /\ next.attempts[i].sig # None
    BY <1>3, <1>4, <1>5 DEF Attempts
  <1> QED BY <1>5, <1>6 DEF Rejected

LEMMA RejectedAnyhow ==
    ASSUME NEW old \in Records \cup {None}, NEW sig \in Signatures, NEW phase, NEW context, NEW invariant,
           NEW next, IsRecorded(next, old, None, sig, "escalate", phase, context, invariant)
    PROVE  Rejected(next)
  <1> DEFINE tries == Found(old).attempts
             all == next.attempts
  <1>1. all = UpgradedOrAppended(Found(old), sig, "escalate")
    BY DEF IsRecorded, RecordedAttempts
  <1>2. tries \in Seq(Attempts) /\ Len(tries) \in Nat /\ DOMAIN tries = 1..Len(tries) /\ sig # None
    BY FoundLoose, LooseFields, NoneAssumption
  <1>3. CASE tries # <<>> /\ Last(tries).outcome = None /\ Last(tries).sig = sig
    <2>1. all = [tries EXCEPT ![Len(tries)].outcome = "escalate"]
      BY <1>1, <1>3 DEF UpgradedOrAppended
    <2>2. Len(tries) \in DOMAIN tries /\ tries[Len(tries)].sig = sig /\ tries[Len(tries)] \in Attempts
      BY <1>2, <1>3 DEF Last
    <2>3. Len(tries) \in DOMAIN all /\ all[Len(tries)] = [tries[Len(tries)] EXCEPT !.outcome = "escalate"]
      BY <2>1, <2>2
    <2>4. all[Len(tries)].sig = sig /\ all[Len(tries)].outcome = "escalate"
      BY <2>2, <2>3 DEF Attempts
    <2> QED BY <1>2, <2>3, <2>4 DEF Rejected
  <1>4. CASE ~(tries # <<>> /\ Last(tries).outcome = None /\ Last(tries).sig = sig)
    <2> DEFINE try == [id |-> None, sig |-> sig, outcome |-> "escalate"]
    <2>1. all = Append(tries, try)
      BY <1>1, <1>4 DEF UpgradedOrAppended
    <2>2. try \in Attempts /\ try.sig = sig /\ try.outcome = "escalate"
      BY DEF Attempts, Outcomes
    <2>3. all \in Seq(Attempts) /\ Len(all) = Len(tries) + 1 /\ all[Len(tries) + 1] = try
      <3> HIDE DEF try, tries, all
      <3> QED BY <1>2, <2>1, <2>2, AppendProperties
    <2> HIDE DEF try
    <2>4. Len(tries) + 1 \in DOMAIN all
      BY <1>2, <2>3
    <2> QED BY <1>2, <2>2, <2>3, <2>4 DEF Rejected
  <1> QED BY <1>3, <1>4

\* Where an outcome of a call that none overlapped goes.
Fits(r, id, sig, phase, invariant) ==
    /\ id # None => Upgradable(r, id) # {}
    /\ \/ phase = "terminal"
       \/ /\ phase = Phase(r, sig)
          /\ \/ r.phase \in {"none", "awaiting-proposal"} /\ (id = None \/ sig = None)
             \/ sig # None /\ id # None /\ r.last = sig /\ r.phase \in {"proposal-attempted", "retry-used"}
    /\ \A q \in invariant : sig # None /\ q.sig # sig

LEMMA RecordedStraight ==
    ASSUME NEW old \in Records \cup {None}, NEW id \in Calls \cup {None}, NEW sig \in MaybeSignatures,
           NEW outcome \in Outcomes, NEW phase, NEW context, NEW invariant,
           NEW next, IsRecorded(next, old, id, sig, outcome, phase, context, invariant),
           Straight(Found(old)), Fits(Found(old), id, sig, phase, invariant)
    PROVE  Straight(next) /\ next.phase = phase
  <1> DEFINE r == Found(old)
  <1>1. /\ Tried(next) = Tried(r) \cup (IF id = None THEN {sig} \ {None} ELSE {})
        /\ Proposing(next) = Proposing(r)
    BY RecordedTries DEF Retains
  <1>2. /\ next.phase = phase
        /\ next.last = (IF id # None \/ sig = None THEN r.last ELSE sig)
        /\ next.invariant = (IF invariant = {} THEN r.invariant ELSE invariant)
    BY DEF IsRecorded, Fits
  <1>3. Straight(r) /\ Fits(r, id, sig, phase, invariant)
    OBVIOUS
  <1>4. Tried(r) = {} => Proposing(r) = {}
    BY DEF Tried, Proposing
  <1> HIDE DEF r
  <1>5. next.last = None <=> Tried(next) = {}
    BY <1>1, <1>2, <1>3 DEF Straight
  <1>6. \A i, j, k \in Proposing(next) : i = j \/ j = k \/ i = k
    BY <1>1, <1>3 DEF Straight
  <1>7. CASE phase = "terminal"
    BY <1>2, <1>5, <1>6, <1>7 DEF Straight
  <1>8. CASE phase # "terminal" /\ r.phase \in {"none", "awaiting-proposal"} /\ sig = None
    <2>1. Tried(next) = {} /\ next.invariant = {} /\ next.phase = "awaiting-proposal"
      BY <1>1, <1>2, <1>3, <1>8 DEF Straight, Fits, Phase
    <2> QED BY <1>5, <1>6, <2>1, <1>2 DEF Straight
  <1>9. CASE phase # "terminal" /\ r.phase \in {"none", "awaiting-proposal"} /\ sig # None
    <2>1. id = None /\ phase = Phase(r, sig) /\ r.last = None /\ Tried(r) = {} /\ r.invariant = {}
      BY <1>3, <1>9 DEF Fits, Straight
    <2>2. phase = "proposal-attempted"
      BY <1>9, <2>1 DEF Phase
    <2>3. next.last = sig /\ Tried(next) = {sig} /\ Proposing(next) = {} /\ next.invariant = invariant
      BY <1>1, <1>2, <1>4, <1>9, <2>1
    <2>4. \A q \in next.invariant : q.sig # next.last
      BY <1>3, <2>3 DEF Fits
    <2> QED BY <1>2, <1>5, <1>6, <1>9, <2>2, <2>3, <2>4 DEF Straight
  <1>10. CASE phase # "terminal" /\ r.phase \in {"proposal-attempted", "retry-used"}
    <2>1. id # None /\ sig # None /\ phase = Phase(r, sig) /\ r.last = sig
      BY <1>3, <1>10 DEF Fits
    <2>2. phase = r.phase
      BY <1>10, <2>1 DEF Phase
    <2>3. next.last = r.last /\ Tried(next) = Tried(r) /\ Proposing(next) = Proposing(r)
      BY <1>1, <1>2, <2>1
    <2>4. next.invariant = r.invariant \/ \A q \in next.invariant : q.sig # next.last
      BY <1>2, <1>3, <2>1, <2>3 DEF Fits
    <2> QED BY <1>2, <1>3, <1>10, <2>2, <2>3, <2>4 DEF Straight
  <1>11. phase = "terminal" \/ r.phase \in {"none", "awaiting-proposal", "proposal-attempted", "retry-used"}
    BY <1>3 DEF Fits
  <1> QED BY <1>2, <1>7, <1>8, <1>9, <1>10, <1>11

\* A reservation without a signature is released: nothing that was proposed goes with it.
LEMMA CutKept ==
    ASSUME NEW r \in Records, NEW n \in 1..Len(r.attempts), r.attempts[n].sig = None,
           NEW next, next.attempts = RemoveAt(r.attempts, n), next.last = r.last, next.phase = r.phase,
           next.invariant = r.invariant, NEW B, Admissible(r, B)
    PROVE  Admissible(next, B) /\ (Straight(r) => Straight(next))
  <1> DEFINE old == r.attempts
             all == next.attempts
             Was(k) == IF k < n THEN k ELSE k + 1
  <1>1. old \in Seq(Attempts) /\ Len(old) \in Nat /\ n \in 1..Len(old) /\ DOMAIN old = 1..Len(old)
    BY DEF Records
  <1>2. /\ all \in Seq(Attempts) /\ Len(all) = Len(old) - 1
        /\ \A j \in 1..(Len(old) - 1) : all[j] = IF j < n THEN old[j] ELSE old[j + 1]
    <2> HIDE DEF old, all
    <2>1. all = RemoveAt(old, n)
      BY DEF old, all
    <2> QED BY <1>1, <2>1, WithoutOne
  <1>3. DOMAIN all = 1..Len(all)
    BY <1>2
  <1>4. old[n].sig = None
    OBVIOUS
  <1> HIDE DEF old, all
  <1>5. \A j \in DOMAIN all : Was(j) \in DOMAIN old /\ all[j] = old[Was(j)]
    BY <1>1, <1>2, <1>3
  <1>6. \A i, j \in DOMAIN all : Was(i) = Was(j) => i = j
    BY <1>1, <1>2, <1>3
  <1>7. \A k \in DOMAIN old : k # n => \E j \in DOMAIN all : all[j] = old[k]
    <2>1. ASSUME NEW k \in DOMAIN old, k # n PROVE \E j \in DOMAIN all : all[j] = old[k]
      <3>1. CASE k < n
        BY <1>1, <1>2, <1>3, <3>1
      <3>2. CASE k > n
        <4>1. k - 1 \in DOMAIN all /\ all[k - 1] = old[k]
          BY <1>1, <1>2, <1>3, <3>2
        <4> QED BY <4>1
      <3> QED BY <1>1, <2>1, <3>1, <3>2
    <2> QED BY <2>1
  <1> HIDE DEF Was
  <1>8. /\ Tried(r) = {old[i].sig : i \in DOMAIN old} \ {None}
        /\ Tried(next) = {all[i].sig : i \in DOMAIN all} \ {None}
        /\ Proposing(r) = {i \in DOMAIN old : old[i].id # None /\ old[i].sig # None}
        /\ Proposing(next) = {i \in DOMAIN all : all[i].id # None /\ all[i].sig # None}
        /\ BareIn(r, B) = {i \in DOMAIN old : old[i].id \in B /\ old[i].sig = None}
        /\ BareIn(next, B) = {i \in DOMAIN all : all[i].id \in B /\ all[i].sig = None}
        /\ Rejected(r) <=> \E i \in DOMAIN old : old[i].sig # None /\ old[i].outcome = "escalate"
        /\ Rejected(next) <=> \E i \in DOMAIN all : all[i].sig # None /\ all[i].outcome = "escalate"
    BY DEF Tried, Proposing, BareIn, Rejected, old, all
  <1>9. Tried(next) = Tried(r)
    <2>1. \A t : t # None => (t \in {all[i].sig : i \in DOMAIN all} <=> t \in {old[i].sig : i \in DOMAIN old})
      BY <1>4, <1>5, <1>7
    <2> QED BY <1>8, <2>1
  <1>10. Rejected(r) => Rejected(next)
    BY <1>4, <1>7, <1>8
  <1>11. \A i \in Proposing(next) : Was(i) \in Proposing(r) /\ i \in DOMAIN all
    BY <1>5, <1>8
  <1>12. \A i \in BareIn(next, B) : Was(i) \in BareIn(r, B) /\ i \in DOMAIN all
    BY <1>5, <1>8
  <1>13. Admissible(next, B)
    BY <1>6, <1>10, <1>11, <1>12 DEF Admissible
  <1>14. ASSUME Straight(r) PROVE Straight(next)
    <2>1. \A i, j, k \in Proposing(next) : i = j \/ j = k \/ i = k
      BY <1>6, <1>11, <1>14 DEF Straight
    <2>2. r.phase = "proposal-attempted" => \A i, j \in Proposing(next) : i = j
      BY <1>6, <1>11, <1>14 DEF Straight
    <2> QED BY <1>9, <1>14, <2>1, <2>2 DEF Straight
  <1> QED BY <1>13, <1>14

-----------------------------------------------------------------------------
\* What the operations on the map of records make of the record of ask a.  B are the calls
\* without a target, and calm says that no two calls on a overlapped.

Kept(map, a, B, calm) ==
    /\ Listed(map)
    /\ Admissible(Found(map.of[a]), B)
    /\ calm => Straight(Found(map.of[a]))

\* The same record, but for what the gate counts.
Like(r, now) ==
    \/ r = None /\ now = None
    \/ r # None /\ now # None /\ SameBind(r, now) /\ now.phase = r.phase

LEMMA NoneKept ==
    ASSUME NEW map, Listed(map), NEW a, map.of[a] = None, NEW B, NEW calm
    PROVE  Kept(map, a, B, calm)
  BY EmptyStraight DEF Kept, Found

LEMMA TouchKept ==
    ASSUME NEW map, Listed(map), NEW a \in Asks, NEW r \in Records, NEW B, NEW calm,
           Admissible(r, B), calm => Straight(r)
    PROVE  Kept(Touch(map, a, r), a, B, calm)
  <1>1. Listed(Touch(map, a, r)) /\ Touch(map, a, r).of[a] \in {r, None} /\ r # None
    BY TouchListed, NoRecordAssumption
  <1>2. Found(Touch(map, a, r).of[a]) = r \/ Touch(map, a, r).of[a] = None
    BY <1>1 DEF Found
  <1> QED BY <1>1, <1>2, NoneKept DEF Kept

LEMMA LikeFound ==
    ASSUME NEW r, NEW now, Like(r, now), NEW B
    PROVE  /\ Admissible(Found(r), B) => Admissible(Found(now), B)
           /\ Straight(Found(r)) => Straight(Found(now))
           /\ \A in : Welcome(Found(r), in) => Welcome(Found(now), in)
           /\ Found(now).phase = Found(r).phase /\ Found(now).context = Found(r).context
           /\ Found(now).invariant = Found(r).invariant
           /\ Rejected(Found(now)) <=> Rejected(Found(r))
  <1>1. CASE r = None /\ now = None
    BY <1>1 DEF Found
  <1>2. CASE r # None /\ now # None /\ SameBind(r, now) /\ now.phase = r.phase
    <2>1. Found(r) = r /\ Found(now) = now
      BY <1>2 DEF Found
    <2>2. now.attempts = r.attempts
      BY <1>2 DEF SameBind
    <2> QED BY <1>2, <2>1, <2>2, SameTries, SameStraight, SameWelcome DEF SameBind
  <1> QED BY <1>1, <1>2 DEF Like

LEMMA LikeBoth ==
    ASSUME NEW r, NEW middle, NEW now, Like(r, middle), Like(middle, now)
    PROVE  Like(r, now)
  BY DEF Like, SameBind

LEMMA LookedSame ==
    ASSUME NEW map, Listed(map), NEW a \in Asks
    PROVE  Listed(Looked(map, a)) /\ Looked(map, a).of[a] = map.of[a]
  <1>1. map.of[a] \in Records \cup {None}
    BY ListedRecord
  <1>2. CASE map.of[a] = None
    BY <1>2 DEF Looked
  <1>3. CASE map.of[a] # None
    BY <1>1, <1>3, TouchListed DEF Looked
  <1> QED BY <1>2, <1>3

LEMMA GatedLike ==
    ASSUME NEW map, Listed(map), NEW a \in Asks, NEW sig \in MaybeSignatures, NEW target, Passes(map.of[a], sig, target)
    PROVE  Listed(Gated(map, a, sig, target)) /\ Like(map.of[a], Gated(map, a, sig, target).of[a])
  <1>1. CASE Gated(map, a, sig, target) = map
    BY <1>1 DEF Like, SameBind
  <1>2. ASSUME NEW next \in Records, map.of[a] # None, Gated(map, a, sig, target) = Touch(map, a, next),
               SameBind(map.of[a], next), next.phase = map.of[a].phase
        PROVE  Listed(Gated(map, a, sig, target)) /\ Like(map.of[a], Gated(map, a, sig, target).of[a])
    <2>1. Listed(Touch(map, a, next)) /\ Touch(map, a, next).of[a] = next /\ next # None
      BY <1>2, TouchListed, NoRecordAssumption
    <2> QED BY <1>2, <2>1 DEF Like
  <1> QED BY <1>1, <1>2, GatedIs

LEMMA GatedKept ==
    ASSUME NEW map, NEW a \in Asks, NEW sig \in MaybeSignatures, NEW target, NEW B, NEW calm, Kept(map, a, B, calm)
    PROVE  Kept(Gated(map, a, sig, target), a, B, calm)
  <1>1. Listed(map)
    BY DEF Kept
  <1>2. CASE Gated(map, a, sig, target) = map
    BY <1>2
  <1>3. ASSUME NEW next \in Records, map.of[a] # None, Gated(map, a, sig, target) = Touch(map, a, next),
               SameBind(map.of[a], next), next.phase \in {map.of[a].phase, "terminal"}
        PROVE  Kept(Gated(map, a, sig, target), a, B, calm)
    <2>1. Admissible(map.of[a], B) /\ (calm => Straight(map.of[a])) /\ next.attempts = map.of[a].attempts
      BY <1>3 DEF Kept, Found, SameBind
    <2>2. Admissible(next, B) /\ (calm => Straight(next))
      BY <1>3, <2>1, SameTries, SameStraight
    <2> QED BY <1>1, <1>3, <2>2, TouchKept
  <1> QED BY <1>1, <1>2, <1>3, GatedIs

LEMMA GrantKept ==
    ASSUME NEW map, NEW a \in Asks, NEW sig \in Signatures, NEW B, NEW calm, Kept(map, a, B, calm)
    PROVE  Kept(Grant(map, a, sig), a, B, calm)
  <1>1. Listed(map)
    BY DEF Kept
  <1>2. CASE Grant(map, a, sig) = map
    BY <1>2
  <1>3. ASSUME NEW next \in Records, map.of[a] # None, Grant(map, a, sig) = Touch(map, a, next),
               SameBind(map.of[a], next), next.phase = map.of[a].phase
        PROVE  Kept(Grant(map, a, sig), a, B, calm)
    <2>1. Admissible(map.of[a], B) /\ (calm => Straight(map.of[a])) /\ next.attempts = map.of[a].attempts
      BY <1>3 DEF Kept, Found, SameBind
    <2>2. Admissible(next, B) /\ (calm => Straight(next))
      BY <1>3, <2>1, SameTries, SameStraight
    <2> QED BY <1>1, <1>3, <2>2, TouchKept
  <1> QED BY <1>1, <1>2, <1>3, GrantIs

LEMMA ForgetKept ==
    ASSUME NEW map, Listed(map), NEW a \in Asks, NEW B, NEW calm
    PROVE  Kept(Forget(map, a), a, B, calm)
  BY ForgetListed, NoneKept

\* The record a call works on, with its reservation; old is what it found.
OwnRecord(r, c, sig, old) ==
    /\ Upgradable(r, c) # {}
    /\ sig = None => r.phase = "awaiting-proposal"
    /\ sig # None => r.last = sig /\ r.phase \in {"proposal-attempted", "retry-used"}
    /\ r.context = old.context
    /\ r.phase = "retry-used" => old.phase = "proposal-attempted" /\ Rejected(old)

LEMMA ReserveKept ==
    ASSUME NEW map, Listed(map), NEW a \in Asks, NEW c \in Calls, NEW in \in Arguments,
           NEW r \in Records \cup {None}, Like(r, map.of[a]), Passes(r, SigOf(in.proposal), in.target),
           NEW B \in SUBSET Calls, c \in B => in.target = None, Admissible(Found(r), B),
           NEW calm, calm => Straight(Found(r)) /\ Welcome(Found(r), in)
    PROVE  LET next == Reserve(map, a, c, SigOf(in.proposal))
           IN /\ Kept(next, a, B, calm)
              /\ next.of[a] = None => r = None
              /\ calm /\ next.of[a] # None => OwnRecord(next.of[a], c, SigOf(in.proposal), Found(r))
  <1> DEFINE sig == SigOf(in.proposal)
             g == Found(map.of[a])
             own == ReservedRecord(g, c, sig)
             next == Reserve(map, a, c, sig)
  <1>1. sig \in MaybeSignatures /\ map.of[a] \in Records \cup {None}
    BY SigTyped, ListedRecord
  <1>2. Loose(g) /\ Loose(Found(r))
    BY <1>1, FoundLoose
  <1>3. /\ Admissible(g, B)
        /\ calm => Straight(g) /\ Welcome(g, in)
        /\ g.phase = Found(r).phase /\ g.context = Found(r).context
        /\ Rejected(g) <=> Rejected(Found(r))
    BY LikeFound
  <1>4. IsReserved(own, g, c, sig)
    <2> HIDE DEF g, sig, own
    <2> QED BY <1>1, <1>2, ReservedFields DEF own
  <1>5. next = Touch(map, a, own)
    BY ReserveIs
  <1>6. r = None <=> map.of[a] = None
    BY DEF Like
  <1>7. sig = None /\ c \in B => BareIn(g, B) = {}
    <2> SUFFICES ASSUME sig = None, c \in B PROVE BareIn(g, B) = {}
      OBVIOUS
    <2>1. r = None
      BY PassesAdmissible
    <2>2. g = Empty
      BY <1>6, <2>1 DEF Found
    <2>3. DOMAIN Empty.attempts = {}
      BY EmptySeq DEF Empty
    <2> QED BY <2>2, <2>3 DEF BareIn
  <1>8. sig # None => Tried(g) = {} \/ Rejected(g)
    <2>1. CASE r = None
      <3>1. g = Empty /\ DOMAIN Empty.attempts = {}
        BY <1>6, <2>1, EmptySeq DEF Found, Empty
      <3> QED BY <3>1 DEF Tried
    <2>2. CASE r # None
      <3>1. Tried(r) = {} \/ Rejected(r)
        BY <2>2, PassesAdmissible
      <3>2. g = map.of[a] /\ g.attempts = r.attempts
        BY <2>2 DEF Like, SameBind, Found
      <3>3. Tried(g) = Tried(r) /\ (Rejected(g) <=> Rejected(r))
        BY <3>2, SameTries
      <3> QED BY <3>1, <3>3
    <2> QED BY <2>1, <2>2
  <1> HIDE DEF g, sig, own, next
  <1>9. Admissible(own, B)
    BY <1>1, <1>2, <1>3, <1>4, <1>7, <1>8, ReservedAdmissible
  <1>10. calm => /\ Straight(own)
                 /\ own.phase = IF sig = None THEN "awaiting-proposal"
                                ELSE IF g.phase = "proposal-attempted" THEN "retry-used" ELSE "proposal-attempted"
    BY <1>2, <1>3, <1>4, ReservedStraight DEF sig
  <1>11. own \in Records /\ own.last = (IF sig = None THEN g.last ELSE sig) /\ own.context = g.context
    BY <1>4 DEF IsReserved
  <1>12. Upgradable(own, c) # {}
    <2>1. Len(g.attempts) + 1 \in Upgradable(own, c)
      BY <1>1, <1>2, <1>4, ReservedTries
    <2> QED BY <2>1
  <1>13. Kept(next, a, B, calm)
    BY <1>5, <1>9, <1>10, <1>11, TouchKept
  <1>14. next.of[a] \in {own, None} /\ (map.of[a] # None => next.of[a] = own) /\ own # None
    BY <1>5, <1>11, TouchListed, NoRecordAssumption
  <1>15. calm => OwnRecord(own, c, sig, Found(r))
    <2> SUFFICES ASSUME calm PROVE OwnRecord(own, c, sig, Found(r))
      OBVIOUS
    <2>1. own.phase = "retry-used" => g.phase = "proposal-attempted"
      BY <1>10
    <2>2. g.phase = "proposal-attempted" => Rejected(g)
      BY <1>3 DEF Welcome
    <2> QED BY <1>3, <1>10, <1>11, <1>12, <2>1, <2>2 DEF OwnRecord
  <1>16. next.of[a] = None => r = None
    BY <1>6, <1>14
  <1>17. calm /\ next.of[a] # None => OwnRecord(next.of[a], c, sig, Found(r))
    BY <1>14, <1>15
  <1> QED BY <1>13, <1>16, <1>17 DEF next, sig

LEMMA RecordKept ==
    ASSUME NEW map, NEW a \in Asks, NEW id \in Calls \cup {None}, NEW sig \in MaybeSignatures, NEW outcome \in Outcomes,
           NEW phase \in Phases, NEW context \in Contexts, NEW invariant \in SUBSET Proposals,
           NEW B \in SUBSET Calls, NEW calm, Kept(map, a, B, calm),
           calm => Fits(Found(map.of[a]), id, sig, phase, invariant)
    PROVE  LET next == Record(map, a, id, sig, outcome, phase, context, invariant)
               r == RecordedRecord(map.of[a], id, sig, outcome, phase, context, invariant)
           IN /\ Kept(next, a, B, calm)
              /\ next.of[a] \in {r, None}
              /\ IsRecorded(r, map.of[a], id, sig, outcome, phase, context, invariant)
              /\ calm => r.phase = phase
  <1> DEFINE r == RecordedRecord(map.of[a], id, sig, outcome, phase, context, invariant)
             next == Record(map, a, id, sig, outcome, phase, context, invariant)
  <1>1. Listed(map) /\ map.of[a] \in Records \cup {None}
    BY ListedRecord DEF Kept
  <1>2. IsRecorded(r, map.of[a], id, sig, outcome, phase, context, invariant)
    BY <1>1, RecordedFields
  <1>3. next = Touch(map, a, r)
    BY RecordIs
  <1> HIDE DEF r, next
  <1>4. r \in Records
    BY <1>2 DEF IsRecorded
  <1>5. Admissible(r, B)
    BY <1>1, <1>2, RecordedAdmissible DEF Kept
  <1>6. calm => Straight(r) /\ r.phase = phase
    BY <1>1, <1>2, RecordedStraight DEF Kept
  <1>7. Kept(next, a, B, calm) /\ next.of[a] \in {r, None}
    BY <1>1, <1>3, <1>4, <1>5, <1>6, TouchKept, TouchListed
  <1> QED BY <1>2, <1>6, <1>7 DEF r, next

LEMMA ReleaseKept ==
    ASSUME NEW map, NEW a \in Asks, NEW c \in Calls, NEW B, NEW calm, Kept(map, a, B, calm),
           NEW S, NEW R, NEW U, Filed(map, a, S, R, U), \A t : <<c, t>> \in S => t = None
    PROVE  Kept(Release(map, a, c), a, B, calm)
  <1> DEFINE r == map.of[a]
             old == r.attempts
             rest == RemoveFirstMatch(old, LAMBDA t : t.id = c)
             next == [r EXCEPT !.attempts = rest]
             cut == [map EXCEPT !.of[a] = next]
  <1>1. Listed(map) /\ r \in Records \cup {None} /\ c # None
    BY ListedRecord, NoneAssumption DEF Kept
  <1>2. CASE Release(map, a, c) = map
    BY <1>2
  <1>3. CASE Release(map, a, c) = Forget(map, a)
    BY <1>1, <1>3, ForgetKept
  <1>4. CASE r # None /\ (\E i \in DOMAIN old : old[i].id = c) /\ Release(map, a, c) = cut
    <2>1. r \in Records /\ old \in Seq(Attempts) /\ Filing(r, S, R, U)
      BY <1>1, <1>4 DEF Records, Filed
    <2>2. PICK n \in 1..Len(old) : rest = RemoveAt(old, n) /\ old[n].id = c
      <3>1. \A i, j \in 1..Len(old) : old[i].id = c /\ old[j].id = c => i = j
        BY <1>1, <2>1 DEF Filing
      <3>2. DOMAIN old = 1..Len(old)
        BY <2>1
      <3> HIDE DEF r
      <3>3. \/ rest = old /\ \A i \in 1..Len(old) : old[i].id # c
            \/ \E i \in 1..Len(old) : old[i].id = c /\ rest = RemoveAt(old, i)
        BY <2>1, <3>1, ReservationRemoved
      <3> HIDE DEF rest, old
      <3> QED BY <1>4, <3>2, <3>3
    <2>3. old[n].sig = None
      BY <1>1, <2>1, <2>2 DEF Filing
    <2>4. /\ next.attempts = rest /\ next.last = r.last /\ next.phase = r.phase
          /\ next.invariant = r.invariant
      <3> HIDE DEF rest, r
      <3> QED BY <2>1 DEF Records
    <2>5. Admissible(r, B) /\ (calm => Straight(r))
      BY <1>4 DEF Kept, Found
    <2> HIDE DEF rest, next
    <2>6. Admissible(next, B) /\ (calm => Straight(next))
      BY <2>1, <2>2, <2>3, <2>4, <2>5, CutKept
    <2>7. Listed(cut)
      <3>1. Filed(Release(map, a, c), a, S, R, U)
        BY ReleaseFiled
      <3> QED BY <1>4, <3>1 DEF Filed
    <2>8. cut.of[a] = next
      BY <1>1 DEF Listed, IsMap
    <2> HIDE DEF cut
    <2>9. Found(cut.of[a]) = next \/ cut.of[a] = None
      BY <2>8 DEF Found
    <2> QED BY <1>4, <2>6, <2>7, <2>9, NoneKept DEF Kept
  <1>5. \/ Release(map, a, c) = map
        \/ Release(map, a, c) = Forget(map, a)
        \/ r # None /\ (\E i \in DOMAIN old : old[i].id = c) /\ Release(map, a, c) = cut
    <2>1. CASE r = None \/ \A i \in DOMAIN old : old[i].id # c
      BY <2>1 DEF Release
    <2>2. CASE ~(r = None \/ \A i \in DOMAIN old : old[i].id # c)
      <3>1. Release(map, a, c) = IF rest = <<>> THEN Forget(map, a) ELSE cut
        BY <2>2 DEF Release
      <3> HIDE DEF rest, cut
      <3> QED BY <2>2, <3>1
    <2> QED BY <2>1, <2>2
  <1> HIDE DEF cut, rest, next
  <1> QED BY <1>2, <1>3, <1>4, <1>5

-----------------------------------------------------------------------------
\* What an answer invites passes the gate.

Stands(r, p) == Passes(r, p.sig, None) /\ (p \in Found(r).invariant \/ Found(r).invariant = {})

LEMMA CorrectionStands ==
    ASSUME NEW r \in Records, Straight(r), CorrectionPending(r), NEW p \in r.invariant
    PROVE  Stands(r, p)
  <1>1. p \in Proposals /\ p.sig \in Signatures /\ p.sig # None
    BY NoneAssumption DEF Records, Signatures
  <1>2. r # None /\ Found(r) = r
    BY NoRecordAssumption DEF Found
  <1>3. r.phase = "proposal-attempted" /\ Tried(r) = {r.last} /\ p.sig # r.last
    BY DEF Straight, CorrectionPending
  <1>4. Cardinality(Tried(r)) = 1
    BY <1>3, CardinalityOne
  <1>5. p.sig \notin Tried(r) /\ ~(Cardinality(Tried(r)) >= MaxProposals)
    BY <1>3, <1>4, BoundsAssumption
  <1>6. Progress(r, p.sig) = "new"
    BY <1>5 DEF Progress
  <1>7. Verdict(r, p.sig, None) = "next"
    BY <1>1, <1>2, <1>3, <1>6 DEF Verdict
  <1> QED BY <1>2, <1>7 DEF Stands, Passes

LEMMA ProposalStands ==
    ASSUME NEW r \in Records \cup {None}, r # None => Straight(r) /\ r.phase = "awaiting-proposal",
           NEW p \in Proposals
    PROVE  Stands(r, p)
  <1>1. CASE r = None
    BY <1>1 DEF Stands, Passes, Verdict, Found, Empty
  <1>2. CASE r # None
    <2>1. p.sig # None
      BY NoneAssumption DEF Signatures
    <2>2. Found(r) = r /\ Tried(r) = {} /\ r.last = None /\ r.invariant = {}
      BY <1>2 DEF Straight, Found
    <2>3. Cardinality(Tried(r)) = 0
      BY <2>2, FS_EmptySet
    <2>4. p.sig \notin Tried(r) /\ ~(Cardinality(Tried(r)) >= MaxProposals)
      BY <2>2, <2>3, BoundsAssumption
    <2>5. Progress(r, p.sig) = "new"
      BY <2>4 DEF Progress
    <2>6. Verdict(r, p.sig, None) = "next"
      BY <1>2, <2>1, <2>2, <2>5 DEF Verdict
    <2> QED BY <2>2, <2>6 DEF Stands, Passes
  <1> QED BY <1>1, <1>2

\* The reservation of a call is the only attempt of its own.
LEMMA OwnSignature ==
    ASSUME NEW map, NEW a \in Asks, NEW S, NEW R, NEW U, Filed(map, a, S, R, U), map.of[a] # None,
           NEW c \in Calls, NEW sig, \A t : <<c, t>> \in S => t = sig, NEW i \in Upgradable(map.of[a], c)
    PROVE  map.of[a].attempts[i].sig = sig
  <1> DEFINE tries == map.of[a].attempts
  <1>1. tries \in Seq(Attempts)
    BY ListedRecord, LooseFields DEF Filed
  <1>2. i \in 1..Len(tries) /\ tries[i].id = c
    BY <1>1 DEF Upgradable
  <1>3. tries[i].id # None
    BY <1>2, NoneAssumption
  <1>4. Filing(map.of[a], S, R, U)
    BY DEF Filed
  <1>5. <<tries[i].id, tries[i].sig>> \in S
    BY <1>2, <1>3, <1>4 DEF Filing
  <1> QED BY <1>2, <1>5

\* A proposal that was rejected for the first time is open to its correction.
LEMMA RejectionStands ==
    ASSUME NEW map, NEW a \in Asks, NEW S, NEW R, NEW U, Filed(map, a, S, R, U), map.of[a] # None,
           NEW c \in Calls, NEW sig \in Signatures, \A t : <<c, t>> \in S => t = sig,
           NEW old, OwnRecord(map.of[a], c, sig, old), old.context # "none",
           ~(old.phase = "proposal-attempted" /\ Rejected(old)),
           NEW invariant \in SUBSET Proposals, NEW next,
           IsRecorded(next, map.of[a], c, sig, "escalate", Phase(Found(map.of[a]), sig), "none", invariant),
           Straight(next), NEW p \in invariant
    PROVE  Stands(next, p)
  <1> DEFINE r == map.of[a]
  <1>1. r \in Records /\ Found(r) = r
    BY ListedRecord DEF Filed
  <1>2. sig # None /\ c # None
    BY NoneAssumption
  <1>3. r.last = sig /\ r.phase = "proposal-attempted" /\ Upgradable(r, c) # {} /\ r.context # "none"
    BY <1>2 DEF OwnRecord
  <1>4. Phase(r, sig) = "proposal-attempted"
    BY <1>2, <1>3 DEF Phase
  <1>5. /\ next \in Records /\ next.phase = "proposal-attempted"
        /\ next.context = r.context /\ next.invariant = invariant
    BY <1>1, <1>3, <1>4 DEF IsRecorded
  <1>6. PICK i \in Upgradable(r, c) : TRUE
    BY <1>3
  <1>7. r.attempts[i].sig # None
    BY <1>2, <1>6, OwnSignature
  <1>8. r \in Records \cup {None} /\ sig \in MaybeSignatures /\ Found(r).attempts[i].sig # None /\ i \in Upgradable(Found(r), c)
    BY <1>1, <1>6, <1>7 DEF MaybeSignatures
  <1>9. Rejected(next)
    <2> HIDE DEF r
    <2>1. IsRecorded(next, r, c, sig, "escalate", Phase(Found(r), sig), "none", invariant)
      BY DEF r
    <2> QED BY <1>8, <2>1, RejectedNow
  <1>10. CorrectionPending(next) /\ p \in next.invariant
    BY <1>3, <1>5, <1>9 DEF CorrectionPending
  <1> QED BY <1>5, <1>10, CorrectionStands

-----------------------------------------------------------------------------
\* What holds between the record of an ask and the calls on it.

Untargeted == {c \in Calls : pc[c] # "idle" /\ args[c].target = None}
Busy(a) == {c \in UnderWay : Ask(c) = a}

\* What a call that none overlapped finds in the record r of its ask.
Pending(c, r) ==
    IF pc[c] = "reading" /\ Narrowed(args[c], prior[c])
    THEN Like(prior[c], r) /\ Welcome(Found(r), args[c])
    ELSE IF held[c] THEN r # None /\ OwnRecord(r, c, Sig(c), Found(prior[c]))
    ELSE r = None /\ prior[c] = None

CalmOK(a) ==
    /\ \A c \in Busy(a) : Pending(c, recovery.of[a]) /\ Busy(a) = {c} /\ offer[a] = {}
    /\ \A p \in offer[a] : Stands(recovery.of[a], p)

AskOK(a) ==
    /\ Kept(recovery, a, Untargeted, a \notin raced)
    /\ a \notin raced => CalmOK(a)

GateOK ==
    /\ offer = [a \in Asks |-> offer[a]]
    /\ \A a \in Asks : AskOK(a)
    /\ \A c \in Calls : pc[c] = "reading" => Passes(prior[c], Sig(c), args[c].target)

LEMMA InitGate == Init => GateOK
  <1> SUFFICES ASSUME Init PROVE GateOK
    OBVIOUS
  <1>1. Listed(recovery)
    BY InitSound DEF Sound, FilesOK
  <1>2. \A a \in Asks : recovery.of[a] = None /\ offer[a] = {} /\ Busy(a) = {}
    BY DEF Init, Busy, UnderWay
  <1>3. \A a \in Asks : Kept(recovery, a, Untargeted, a \notin raced)
    BY <1>1, <1>2, NoneKept
  <1>4. \A a \in Asks : AskOK(a)
    BY <1>2, <1>3 DEF AskOK, CalmOK
  <1> QED BY <1>4 DEF GateOK, Init

\* A call that is under way has a record that is open, or none.
LEMMA PendingOpen ==
    ASSUME NEW c, NEW r, Pending(c, r), r # None
    PROVE  r.phase # "terminal"
  BY DEF Pending, Welcome, OwnRecord, Found

\* A step of a call on ask a leaves what holds for another ask.
LEMMA OtherGate ==
    ASSUME NEW c \in Calls, NEW a \in Asks, NEW b \in Asks \ {a}, AskOK(b),
           Keeps(recovery, recovery', a), Listed(recovery'), OthersStay(c),
           c \notin Busy(b), c \notin Busy(b)', offer'[b] = offer[b], b \in raced' <=> b \in raced,
           Admissible(Found(recovery.of[b]), Untargeted')
    PROVE  AskOK(b)'
  <1>1. Spares(recovery, recovery', b)
    BY DEF Keeps
  <1>2. Busy(b)' = Busy(b)
    <2>1. \A d \in Calls \ {c} : d \in Busy(b)' <=> d \in Busy(b)
      BY DEF Busy, UnderWay, Ask, OthersStay
    <2>2. Busy(b) \subseteq Calls /\ Busy(b)' \subseteq Calls
      BY DEF Busy, UnderWay
    <2> QED BY <2>1, <2>2
  <1>3. Kept(recovery', b, Untargeted', b \notin raced')
    <2>1. CASE recovery'.of[b] = recovery.of[b]
      BY <2>1 DEF AskOK, Kept
    <2>2. CASE recovery'.of[b] = None
      BY <2>2, NoneKept
    <2> QED BY <1>1, <2>1, <2>2 DEF Spares
  <1>4. ASSUME b \notin raced'
        PROVE  CalmOK(b)'
    <2>1. CalmOK(b)
      BY <1>4 DEF AskOK
    <2>2. ASSUME NEW d \in Busy(b)
          PROVE  Pending(d, recovery.of[b])'
      <3>1. d \in Calls \ {c}
        BY DEF Busy, UnderWay
      <3>2. Pending(d, recovery.of[b])
        BY <2>1 DEF CalmOK
      <3>3. recovery'.of[b] = recovery.of[b]
        BY <1>1, <3>2, PendingOpen DEF Spares
      <3> QED BY <3>1, <3>2, <3>3 DEF Pending, OthersStay, Sig
    <2>3. ASSUME NEW p \in offer[b]
          PROVE  Stands(recovery'.of[b], p)
      <3>1. Stands(recovery.of[b], p)
        BY <2>1 DEF CalmOK
      <3>2. Stands(None, p)
        BY DEF Stands, Passes, Verdict, Found, Empty
      <3> QED BY <1>1, <3>1, <3>2 DEF Spares
    <2> QED BY <1>2, <2>1, <2>2, <2>3 DEF CalmOK
  <1> QED BY <1>3, <1>4 DEF AskOK, Kept

\* A call that begins has reserved nothing yet.
LEMMA StartUntargeted ==
    ASSUME CallsOK, FilesOK, NEW c \in Calls, NEW in, Started(c, in)
    PROVE  /\ Untargeted' \in SUBSET Calls
           /\ c \in Untargeted' => in.target = None
           /\ \A b \in Asks : Admissible(Found(recovery.of[b]), Untargeted) => Admissible(Found(recovery.of[b]), Untargeted')
  <1>1. Untargeted' \in SUBSET Calls
    BY DEF Untargeted
  <1>2. args'[c] = in
    BY DEF CallsOK, Started
  <1>3. ASSUME NEW b \in Asks
        PROVE  BareIn(Found(recovery.of[b]), Untargeted') \subseteq BareIn(Found(recovery.of[b]), Untargeted)
    <2> DEFINE r == Found(recovery.of[b])
    <2>1. Filing(r, Reservations(b), Answered, Unfiled(b)) /\ \A t : <<c, t>> \notin Reservations(b)
      BY FoundFiling, StartGrows DEF FilesOK
    <2>2. r.attempts \in Seq(Attempts)
      BY ListedRecord, LooseFields DEF FilesOK
    <2>3. \A d \in Untargeted' : d = c \/ d \in Untargeted
      BY StartStays DEF Untargeted, OthersStay
    <2>4. c # None /\ DOMAIN r.attempts = 1..Len(r.attempts)
      BY <2>2, NoneAssumption
    <2> HIDE DEF r
    <2>5. ASSUME NEW i \in DOMAIN r.attempts, r.attempts[i].id \in Untargeted'
          PROVE  r.attempts[i].id \in Untargeted
      <3>1. r.attempts[i].id # c
        BY <2>1, <2>4 DEF Filing
      <3> QED BY <2>3, <2>5, <3>1
    <2>6. /\ BareIn(r, Untargeted') = {i \in DOMAIN r.attempts : r.attempts[i].id \in Untargeted' /\ r.attempts[i].sig = None}
          /\ BareIn(r, Untargeted) = {i \in DOMAIN r.attempts : r.attempts[i].id \in Untargeted /\ r.attempts[i].sig = None}
      BY DEF BareIn
    <2>7. BareIn(r, Untargeted') \subseteq BareIn(r, Untargeted)
      BY <2>5, <2>6
    <2> QED BY <2>7 DEF r
  <1>4. \A b \in Asks : Admissible(Found(recovery.of[b]), Untargeted) => Admissible(Found(recovery.of[b]), Untargeted')
    BY <1>3 DEF Admissible
  <1> QED BY <1>1, <1>2, <1>4 DEF Untargeted

\* What a call that begins finds.
LEMMA StartReady ==
    ASSUME CallsOK, FilesOK, GateOK, NEW c \in Calls, NEW in, Started(c, in), Begin(c, in)
    PROVE  /\ Kept(recovery, in.ask, Untargeted', in.ask \notin raced')
           /\ in.ask \notin raced' => Busy(in.ask) = {}
           /\ \A b \in Asks \ {in.ask} : b \in raced' <=> b \in raced
  <1> DEFINE a == in.ask
  <1>1. a \in Asks /\ AskOK(a)
    BY SigTyped DEF Started, GateOK
  <1>2. raced' = IF Busy(a) # {} THEN raced \cup {a} ELSE raced \ {x \in {a} : recovery.of[a] = None}
    BY DEF Begin, Busy
  <1>3. /\ a \notin raced' => Busy(a) = {} /\ (recovery.of[a] = None \/ a \notin raced)
        /\ \A b \in Asks \ {a} : b \in raced' <=> b \in raced
    BY <1>2
  <1>4. Kept(recovery, a, Untargeted', a \notin raced')
    <2>1. Kept(recovery, a, Untargeted, a \notin raced)
      BY <1>1 DEF AskOK
    <2>2. Admissible(Found(recovery.of[a]), Untargeted')
      BY <1>1, <2>1, StartUntargeted DEF Kept
    <2>3. recovery.of[a] = None => Straight(Found(recovery.of[a]))
      BY EmptyStraight DEF Found
    <2> QED BY <1>3, <2>1, <2>2, <2>3 DEF Kept
  <1> QED BY <1>3, <1>4

LEMMA LookedKept ==
    ASSUME NEW map, NEW a \in Asks, NEW B, NEW calm, Kept(map, a, B, calm)
    PROVE  Kept(Looked(map, a), a, B, calm)
  BY LookedSame DEF Kept

\* The gate and the reservation.
LEMMA AdmittedKept ==
    ASSUME NEW c \in Calls, NEW in \in Arguments, Passes(recovery.of[in.ask], SigOf(in.proposal), in.target),
           ~Violates(in, recovery.of[in.ask]), NEW B \in SUBSET Calls, c \in B => in.target = None,
           NEW calm, Kept(recovery, in.ask, B, calm)
    PROVE  LET map == AdmittedMap(c, in)
               a == in.ask
               r == recovery.of[a]
           IN /\ Kept(map, a, B, calm)
              /\ calm => Welcome(Found(r), in)
              /\ Narrowed(in, r) => Like(r, map.of[a])
              /\ ~Narrowed(in, r) =>
                   /\ map.of[a] = None => r = None
                   /\ calm /\ map.of[a] # None => OwnRecord(map.of[a], c, SigOf(in.proposal), Found(r))
  <1> DEFINE a == in.ask
             sig == SigOf(in.proposal)
             r == recovery.of[a]
             looked == Looked(recovery, a)
             gated == Gated(looked, a, sig, in.target)
             own == Reserve(gated, a, c, sig)
  <1>1. a \in Asks /\ sig \in MaybeSignatures /\ r \in Records \cup {None}
    BY SigTyped, ListedRecord DEF Kept
  <1>2. AdmittedMap(c, in) = IF Narrowed(in, r) THEN gated ELSE own
    BY DEF AdmittedMap
  <1>3. looked.of[a] = r /\ Kept(looked, a, B, calm) /\ Listed(looked)
    BY <1>1, LookedSame, LookedKept DEF Kept
  <1>4. Admissible(Found(r), B) /\ (calm => Straight(Found(r)))
    BY DEF Kept
  <1>5. calm => Welcome(Found(r), in)
    BY <1>1, <1>4, PassesWelcome DEF Found
  <1>6. Passes(looked.of[a], sig, in.target)
    BY <1>3
  <1>7. Kept(gated, a, B, calm) /\ Listed(gated) /\ Like(r, gated.of[a])
    <2> HIDE DEF looked, sig
    <2> QED BY <1>1, <1>3, <1>6, GatedKept, GatedLike
  <1>8. /\ Kept(own, a, B, calm)
        /\ own.of[a] = None => r = None
        /\ calm /\ own.of[a] # None => OwnRecord(own.of[a], c, sig, Found(r))
    <2> HIDE DEF gated, r
    <2>1. Passes(r, SigOf(in.proposal), in.target)
      BY DEF r
    <2> QED BY <1>1, <1>4, <1>5, <1>7, <2>1, ReserveKept
  <1> HIDE DEF gated, own, r, sig
  <1> QED BY <1>2, <1>5, <1>7, <1>8 DEF r, sig

\* A call that answers at once leaves nobody on its ask.
LEMMA AnsweredAtOnce ==
    ASSUME CallsOK, FilesOK, GateOK, NEW c \in Calls, NEW in, Started(c, in), Begin(c, in), pc'[c] = "returned",
           Kept(recovery', in.ask, Untargeted', in.ask \notin raced'),
           in.ask \notin raced' => \A p \in offer'[in.ask] : Stands(recovery'.of[in.ask], p)
    PROVE  AskOK(in.ask)'
  <1>1. in.ask \notin raced' => Busy(in.ask) = {}
    BY StartReady
  <1>2. \A d \in Calls \ {c} : pc'[d] = pc[d] /\ args'[d] = args[d]
    BY StartStays DEF OthersStay
  <1>3. in.ask \notin raced' => Busy(in.ask)' = {}
    <2> SUFFICES ASSUME in.ask \notin raced', NEW d \in Busy(in.ask)' PROVE FALSE
      OBVIOUS
    <2>1. d \in Calls \ {c} /\ pc'[d] \notin {"idle", "returned"} /\ args'[d].ask = in.ask
      BY DEF Busy, UnderWay, Ask
    <2>2. d \in Busy(in.ask)
      BY <1>2, <2>1 DEF Busy, UnderWay, Ask
    <2> QED BY <1>1, <2>2
  <1> QED BY <1>3 DEF AskOK, CalmOK

LEMMA MismatchGate ==
    ASSUME CallsOK, FilesOK, GateOK, NEW c \in Calls, NEW in, Started(c, in), Mismatch(c, in)
    PROVE  AskOK(in.ask)'
  <1> DEFINE a == in.ask
             sig == SigOf(in.proposal)
             r == recovery.of[a]
             map == AdmittedMap(c, in)
             B == Untargeted'
             calm == a \notin raced'
             id == IF held'[c] THEN c ELSE None
             S == Reservations(a) \cup {<<c, sig>>}
             R == Answered
             U == Unfiled(a)
  <1>1. /\ Begin(c, in) /\ Passes(r, sig, in.target) /\ ~Violates(in, r)
        /\ in.proposal # None /\ Found(r).context # "none"
        /\ pc'[c] = "returned" /\ held'[c] = (~Narrowed(in, r) /\ map.of[a] # None)
    BY DEF Mismatch, Admitted, Proceeds, Return, CallsOK
  <1>2. in \in Arguments /\ a \in Asks /\ sig \in Signatures /\ sig \in MaybeSignatures /\ sig # None
        /\ in.proposal \in Proposals /\ sig = in.proposal.sig
    BY <1>1, SigTyped, NoneAssumption DEF Started, Arguments, SigOf, Signatures
  <1>3. PICK invariant \in Invariants(in.proposal) :
          LET again == Available(r, invariant)
          IN /\ recovery' = Record(map, a, id, in.proposal.sig, "escalate",
                                   IF again THEN Phase(Found(map.of[a]), in.proposal.sig) ELSE "terminal",
                                   "none", invariant)
             /\ offer' = [offer EXCEPT ![a] = IF again THEN invariant ELSE {}]
    BY DEF Mismatch, Invite
  <1> DEFINE again == Available(r, invariant)
             phase == IF again THEN Phase(Found(map.of[a]), sig) ELSE "terminal"
             next == RecordedRecord(map.of[a], id, sig, "escalate", phase, "none", invariant)
  <1>4. recovery' = Record(map, a, id, sig, "escalate", phase, "none", invariant)
        /\ offer'[a] = IF again THEN invariant ELSE {}
    BY <1>2, <1>3 DEF GateOK
  <1>5. invariant \in SUBSET Proposals /\ \A q \in invariant : q.sig # sig
    BY <1>2 DEF Invariants
  <1>6. again => invariant # {} /\ ~(Found(r).phase = "proposal-attempted" /\ Rejected(Found(r)))
    BY DEF Available
  <1>7. B \in SUBSET Calls /\ (c \in B => in.target = None) /\ Kept(recovery, a, B, calm)
    BY <1>1, StartUntargeted, StartReady
  <1>8. /\ Kept(map, a, B, calm)
        /\ calm => Welcome(Found(r), in)
        /\ Narrowed(in, r) => Like(r, map.of[a])
        /\ ~Narrowed(in, r) =>
             /\ map.of[a] = None => r = None
             /\ calm /\ map.of[a] # None => OwnRecord(map.of[a], c, sig, Found(r))
    <2> HIDE DEF map
    <2>1. in \in Arguments /\ Passes(recovery.of[in.ask], SigOf(in.proposal), in.target) /\ ~Violates(in, recovery.of[in.ask])
      BY <1>1, <1>2
    <2> HIDE DEF sig, B, calm
    <2> QED BY <1>7, <2>1, AdmittedKept DEF map, sig
  <1>9. Filed(map, a, S, R, U) /\ \A t : <<c, t>> \in S => t = sig
    <2>1. \A t : <<c, t>> \notin Reservations(a)
      BY StartGrows
    <2>2. Filed(recovery, a, Reservations(a), Answered, Unfiled(a))
      BY <1>2 DEF FilesOK
    <2> QED BY <1>2, <2>1, <2>2, AdmittedFiled
  <1>10. r # None /\ r \in Records /\ Found(r) = r
    BY <1>1, <1>2, ListedRecord DEF FilesOK, Found, Empty
  <1>11. map.of[a] # None /\ map.of[a] \in Records /\ Found(map.of[a]) = map.of[a] /\ Listed(map)
    <2> HIDE DEF map, r, B, calm
    <2>1. map.of[a] # None /\ Listed(map)
      BY <1>8, <1>10 DEF Kept, Like
    <2> QED BY <1>2, <2>1, ListedRecord
  <1>12. phase \in Phases /\ "escalate" \in Outcomes /\ "none" \in Contexts /\ id \in Calls \cup {None} /\ (again => again = TRUE)
    BY PhaseTyped DEF Phases, Outcomes, Contexts
  \* Without a reservation the call is the first one to bring a proposal.
  <1>13. ASSUME calm, again, id = None
         PROVE  /\ map.of[a].phase = "awaiting-proposal" /\ map.of[a].context = Found(r).context
    <2>1. Narrowed(in, r)
      BY <1>1, <1>11, <1>13, NoneAssumption
    <2>2. Found(r).phase \in {"none", "awaiting-proposal"}
      <3> HIDE DEF r, calm
      <3> QED BY <1>6, <1>8, <1>13 DEF Welcome
    <2>3. Found(r).phase = map.of[a].phase /\ map.of[a].context = Found(r).context
      BY <1>8, <1>11, <2>1, LikeFound
    <2> QED BY <1>11, <2>2, <2>3 DEF Records
  <1>14. ASSUME id # None
         PROVE  id = c /\ (calm => OwnRecord(map.of[a], c, sig, Found(r)))
    BY <1>1, <1>8, <1>11, <1>14
  <1>15. calm => Fits(Found(map.of[a]), id, sig, phase, invariant)
    BY <1>2, <1>5, <1>11, <1>13, <1>14 DEF Fits, OwnRecord
  <1>16. /\ Kept(recovery', a, B, calm)
         /\ recovery'.of[a] = next
         /\ IsRecorded(next, map.of[a], id, sig, "escalate", phase, "none", invariant)
         /\ calm => next.phase = phase
    <2>1. next = RecordedRecord(map.of[a], id, sig, "escalate", phase, "none", invariant)
      OBVIOUS
    <2>2. B \in SUBSET Calls /\ Kept(map, a, B, calm)
      BY <1>7, <1>8
    <2> HIDE DEF map, id, sig, phase, next, B, calm, again, r
    <2>3. calm => Fits(Found(map.of[a]), id, sig, phase, invariant)
      BY <1>15
    <2>4. a \in Asks /\ sig \in MaybeSignatures /\ phase \in Phases /\ "escalate" \in Outcomes /\ "none" \in Contexts
          /\ id \in Calls \cup {None} /\ invariant \in SUBSET Proposals
      BY <1>2, <1>5, <1>12
    <2>5. Kept(Record(map, a, id, sig, "escalate", phase, "none", invariant), a, B, calm)
      <3> HIDE DEF a
      <3> QED BY <2>2, <2>3, <2>4, RecordKept
    <2>6. IsRecorded(next, map.of[a], id, sig, "escalate", phase, "none", invariant)
      BY <1>11, <2>1, <2>4, RecordedFields
    <2>7. recovery' = Touch(map, a, next)
      BY <1>4, <2>1, RecordIs
    <2>8. next \in Records
      BY <2>6 DEF IsRecorded
    <2>9. recovery'.of[a] = next
      BY <1>11, <2>4, <2>7, <2>8, TouchListed
    <2>10. calm => next.phase = phase
      BY <2>3, <2>6 DEF Fits, IsRecorded
    <2> QED BY <1>4, <2>5, <2>6, <2>9, <2>10
  <1>17. recovery'.of[a] = next
    BY <1>16
  <1>18. ASSUME calm, NEW p \in offer'[a]
         PROVE  Stands(recovery'.of[a], p)
    <2>1. again /\ p \in invariant /\ phase = Phase(Found(map.of[a]), sig)
      BY <1>4, <1>18
    <2>2. next \in Records /\ next # None /\ Straight(next)
      BY <1>16, <1>17, <1>18, NoRecordAssumption DEF Kept, IsRecorded, Found
    <2>3. CASE id = None
      <3>1. map.of[a].phase = "awaiting-proposal" /\ map.of[a].context # "none"
        BY <1>1, <1>13, <1>18, <2>1, <2>3
      <3>2. Straight(map.of[a])
        <4> HIDE DEF map, calm, B
        <4> QED BY <1>8, <1>11, <1>18 DEF Kept
      <3>3. map.of[a].last = None
        BY <3>1, <3>2 DEF Straight
      <3>4. phase = "proposal-attempted"
        BY <1>2, <1>11, <2>1, <3>1, <3>3 DEF Phase
      <3>5. next.phase = phase /\ next.context = map.of[a].context /\ next.invariant = invariant
        BY <1>11, <1>16, <1>18, <2>1 DEF IsRecorded
      <3>6. Rejected(next)
        <4> HIDE DEF map, sig, phase, next
        <4> QED BY <1>2, <1>11, <1>16, <2>3, RejectedAnyhow
      <3>7. CorrectionPending(next)
        BY <3>1, <3>4, <3>5, <3>6, <2>1 DEF CorrectionPending
      <3> QED BY <1>17, <2>1, <2>2, <3>5, <3>7, CorrectionStands
    <2>4. CASE id # None
      <3>1. id = c /\ OwnRecord(map.of[a], c, sig, Found(r))
        BY <1>14, <1>18, <2>4
      <3>2. IsRecorded(next, map.of[a], c, sig, "escalate", Phase(Found(map.of[a]), sig), "none", invariant)
        BY <1>16, <2>1, <3>1
      <3> HIDE DEF map, sig, phase, next, S, R, U, r, id, again
      <3>3. ~(Found(r).phase = "proposal-attempted" /\ Rejected(Found(r)))
        BY <1>6, <2>1
      <3> QED BY <1>1, <1>2, <1>5, <1>9, <1>11, <1>17, <2>1, <2>2, <3>1, <3>2, <3>3, RejectionStands
    <2> QED BY <2>3, <2>4
  <1> QED BY <1>1, <1>16, <1>18, AnsweredAtOnce

\* The own ask of a call that begins.
LEMMA StartOwnGate ==
    ASSUME CallsOK, FilesOK, GateOK, NEW c \in Calls, NEW in, Started(c, in),
           Decline(c, in) \/ Violate(c, in) \/ Block(c, in) \/ Admit(c, in) \/ Mismatch(c, in)
    PROVE  /\ AskOK(in.ask)'
           /\ pc'[c] = "reading" => Passes(prior'[c], SigOf(in.proposal), in.target)
  <1> DEFINE a == in.ask
             sig == SigOf(in.proposal)
             B == Untargeted'
             calm == a \notin raced'
             looked == Looked(recovery, a)
  <1>1. Begin(c, in) /\ in \in Arguments /\ a \in Asks /\ sig \in MaybeSignatures
    BY SigTyped DEF Decline, Violate, Block, Admit, Mismatch, Admitted, Started
  <1>2. /\ Kept(recovery, a, B, calm) /\ (calm => Busy(a) = {})
        /\ B \in SUBSET Calls /\ (c \in B => in.target = None)
    BY <1>1, StartReady, StartUntargeted
  <1>3. Kept(looked, a, B, calm) /\ looked.of[a] = recovery.of[a]
    <2> HIDE DEF B, calm
    <2> QED BY <1>1, <1>2, LookedKept, LookedSame DEF Kept
  <1>4. ASSUME pc'[c] = "returned", Kept(recovery', a, B, calm), offer'[a] = {}
        PROVE  AskOK(a)' /\ pc'[c] # "reading"
    BY <1>1, <1>4, AnsweredAtOnce
  <1>5. CASE Decline(c, in)
    <2>1. pc'[c] = "returned" /\ recovery' = looked /\ offer'[a] = {}
      BY <1>1, <1>5 DEF Decline, Return, Invite, CallsOK, GateOK
    <2> QED BY <1>3, <1>4, <2>1
  <1>6. CASE Violate(c, in)
    <2>1. /\ pc'[c] = "returned" /\ offer'[a] = {}
          /\ recovery' = Record(looked, a, None, sig, "escalate", "terminal", "none", {})
      BY <1>1, <1>6 DEF Violate, Return, Invite, CallsOK, GateOK
    <2>2. "escalate" \in Outcomes /\ "terminal" \in Phases /\ "none" \in Contexts /\ {} \in SUBSET Proposals
      BY DEF Outcomes, Phases, Contexts
    <2>3. Fits(Found(looked.of[a]), None, sig, "terminal", {})
      BY DEF Fits
    <2>4. Kept(Record(looked, a, None, sig, "escalate", "terminal", "none", {}), a, B, calm)
      <3> HIDE DEF looked, B, calm, sig
      <3> QED BY <1>1, <1>2, <1>3, <2>2, <2>3, RecordKept
    <2> QED BY <1>4, <2>1, <2>4
  <1>7. CASE Block(c, in)
    <2>1. pc'[c] = "returned" /\ recovery' = Gated(looked, a, sig, in.target) /\ offer'[a] = {}
      BY <1>1, <1>7 DEF Block, Return, Invite, CallsOK, GateOK
    <2>2. Kept(Gated(looked, a, sig, in.target), a, B, calm)
      <3> HIDE DEF looked, B, calm, sig
      <3> QED BY <1>1, <1>3, GatedKept
    <2> QED BY <1>4, <2>1, <2>2
  <1>8. CASE Admit(c, in)
    <2> DEFINE r == recovery.of[a]
               map == AdmittedMap(c, in)
    <2>1. /\ Passes(r, sig, in.target) /\ ~Violates(in, r)
          /\ recovery' = map /\ offer'[a] = {} /\ pc'[c] = "reading" /\ prior'[c] = r /\ args'[c] = in
          /\ held'[c] = (~Narrowed(in, r) /\ map.of[a] # None)
      BY <1>1, <1>8 DEF Admit, Admitted, Proceeds, Begin, Invite, CallsOK, GateOK
    <2>2. /\ Kept(map, a, B, calm)
          /\ calm => Welcome(Found(r), in)
          /\ Narrowed(in, r) => Like(r, map.of[a])
          /\ ~Narrowed(in, r) =>
               /\ map.of[a] = None => r = None
               /\ calm /\ map.of[a] # None => OwnRecord(map.of[a], c, sig, Found(r))
      <3> HIDE DEF B, calm, sig
      <3> QED BY <1>1, <1>2, <2>1, AdmittedKept DEF sig
    <2>3. ASSUME calm
          PROVE  Pending(c, recovery.of[a])' /\ Busy(a)' = {c}
      <3>1. Narrowed(in, r) => Welcome(Found(map.of[a]), in)
        <4> SUFFICES ASSUME Narrowed(in, r) PROVE Welcome(Found(map.of[a]), in)
          OBVIOUS
        <4>1. Like(r, map.of[a]) /\ Welcome(Found(r), in)
          BY <2>2, <2>3
        <4> HIDE DEF map, r
        <4> QED BY <4>1, LikeFound
      <3>2. Sig(c)' = sig /\ Found(prior[c])' = Found(r)
        BY <2>1 DEF Sig
      <3>3. Pending(c, recovery.of[a])'
        BY <2>1, <2>2, <2>3, <3>1, <3>2 DEF Pending
      <3>4. \A d \in Calls \ {c} : pc'[d] = pc[d] /\ args'[d] = args[d]
        BY StartStays DEF OthersStay
      <3>5. \A d \in Calls \ {c} : d \in Busy(a)' <=> d \in Busy(a)
        BY <3>4 DEF Busy, UnderWay, Ask
      <3>6. c \in Busy(a)' /\ Busy(a)' \subseteq Calls /\ Busy(a) = {}
        BY <1>2, <2>1, <2>3 DEF Busy, UnderWay, Ask
      <3> QED BY <3>3, <3>5, <3>6
    <2>4. ASSUME calm
          PROVE  CalmOK(a)'
      BY <2>1, <2>3, <2>4 DEF CalmOK
    <2>5. Kept(recovery', a, B, calm)
      BY <2>1, <2>2
    <2>6. AskOK(a)'
      BY <2>4, <2>5 DEF AskOK
    <2> QED BY <2>1, <2>6
  <1>9. CASE Mismatch(c, in)
    <2>1. pc'[c] = "returned"
      BY <1>9 DEF Mismatch, Return, CallsOK
    <2> QED BY <1>9, <2>1, MismatchGate
  <1> QED BY <1>5, <1>6, <1>7, <1>8, <1>9

LEMMA StartGate ==
    ASSUME Sound, Sound', GateOK, NEW c \in Calls, Start(c)
    PROVE  GateOK'
  <1>1. CallsOK /\ FilesOK /\ Listed(recovery') /\ Shapes
    BY DEF Sound, FilesOK
  <1>2. PICK in \in Inputs[c] :
          Decline(c, in) \/ Violate(c, in) \/ Block(c, in) \/ Admit(c, in) \/ Mismatch(c, in)
    BY DEF Start
  <1>3. Started(c, in)
    BY <1>1, <1>2, StartStarts
  <1>4. Begin(c, in) /\ in.ask \in Asks /\ pc[c] = "idle" /\ args'[c] = in
    BY <1>1, <1>2, <1>3, SigTyped DEF Decline, Violate, Block, Admit, Mismatch, Admitted, Started, CallsOK
  <1>5. \E set : offer' = [offer EXCEPT ![in.ask] = set]
    BY <1>2 DEF Decline, Violate, Block, Admit, Mismatch, Invite
  <1>6. /\ AskOK(in.ask)'
        /\ pc'[c] = "reading" => Passes(prior'[c], SigOf(in.proposal), in.target)
    BY <1>1, <1>2, <1>3, StartOwnGate
  <1>7. OthersStay(c)
    BY <1>1, <1>3, StartStays
  <1>8. Keeps(recovery, recovery', in.ask)
    <2>1. PICK x \in Asks : WorksOn(c, x)
      BY <1>1, StartWorks
    <2> QED BY <1>4, <2>1 DEF WorksOn
  <1>9. ASSUME NEW b \in Asks \ {in.ask}
        PROVE  AskOK(b)'
    <2>1. AskOK(b) /\ offer'[b] = offer[b] /\ (b \in raced' <=> b \in raced)
      BY <1>1, <1>3, <1>4, <1>5, StartReady DEF GateOK
    <2>2. c \notin Busy(b) /\ c \notin Busy(b)'
      BY <1>4, <1>9 DEF Busy, UnderWay, Ask
    <2>3. Admissible(Found(recovery.of[b]), Untargeted')
      BY <1>1, <1>3, <2>1, StartUntargeted DEF AskOK, Kept
    <2> QED BY <1>1, <1>4, <1>7, <1>8, <2>1, <2>2, <2>3, OtherGate
  <1>10. ASSUME NEW d \in Calls, pc'[d] = "reading"
         PROVE  Passes(prior'[d], Sig(d)', args'[d].target)
    <2>1. CASE d = c
      BY <1>4, <1>6, <1>10, <2>1 DEF Sig
    <2>2. CASE d # c
      BY <1>7, <1>10, <2>2 DEF OthersStay, GateOK, Sig
    <2> QED BY <2>1, <2>2
  <1>11. offer' = [b \in Asks |-> offer'[b]]
    BY <1>5 DEF GateOK
  <1> QED BY <1>6, <1>9, <1>10, <1>11 DEF GateOK

-----------------------------------------------------------------------------
\* The steps of a call under way.

LEMMA ContinueStays ==
    ASSUME CallsOK, NEW c \in Calls, Continued(c)
    PROVE  /\ c \in UnderWay /\ pc'[c] \in {"returned", "binding", "applying", "verifying"} /\ args' = args
           /\ OthersStay(c) /\ Untargeted' = Untargeted
           /\ pc'[c] # "returned" => prior' = prior
           /\ pc[c] # "reading" => held' = held
  <1>1. /\ pc = [d \in Calls |-> pc[d]] /\ args = [d \in Calls |-> args[d]] /\ prior = [d \in Calls |-> prior[d]]
        /\ held = [d \in Calls |-> held[d]] /\ read = [d \in Calls |-> read[d]] /\ chart = [d \in Calls |-> chart[d]]
    BY DEF CallsOK
  <1>2. pc[c] \in {"reading", "binding", "applying", "verifying"} /\ args' = args
    BY DEF Continued
  <1>3. PICK h \in BOOLEAN : /\ held' = [held EXCEPT ![c] = h]
                             /\ pc[c] # "reading" => h = held[c]
    BY DEF Continued
  <1>4. held' = [d \in Calls |-> held'[d]] /\ held'[c] = h /\ \A d \in Calls \ {c} : held'[d] = held[d]
    BY <1>1, <1>3
  <1>5. pc[c] # "reading" => held' = held
    <2> SUFFICES ASSUME pc[c] # "reading" PROVE held' = held
      OBVIOUS
    <2>1. \A d \in Calls : held'[d] = held[d]
      BY <1>3, <1>4
    <2> QED BY <1>1, <1>4, <2>1
  <1>6. /\ pc'[c] \in {"returned", "binding", "applying", "verifying"}
        /\ \A d \in Calls \ {c} : pc'[d] = pc[d] /\ prior'[d] = prior[d] /\ read'[d] = read[d] /\ chart'[d] = chart[d]
        /\ pc'[c] # "returned" => prior' = prior
    <2>1. CASE pc' = [pc EXCEPT ![c] = "returned"] /\ prior' = [prior EXCEPT ![c] = None]
               /\ read' = [read EXCEPT ![c] = None] /\ chart' = [chart EXCEPT ![c] = None]
      BY <1>1, <2>1
    <2>2. CASE pc' = [pc EXCEPT ![c] = "binding"] /\ read' = [read EXCEPT ![c] = doc] /\ UNCHANGED <<prior, chart>>
      BY <1>1, <2>2
    <2>3. CASE /\ pc' = [pc EXCEPT ![c] = "applying"] /\ (\E k \in Charts : chart' = [chart EXCEPT ![c] = k])
               /\ UNCHANGED <<prior, read>>
      BY <1>1, <2>3
    <2>4. CASE pc' = [pc EXCEPT ![c] = "verifying"] /\ UNCHANGED <<prior, read, chart>>
      BY <1>1, <2>4
    <2> QED BY <2>1, <2>2, <2>3, <2>4 DEF Continued
  <1>7. OthersStay(c)
    BY <1>2, <1>4, <1>6 DEF OthersStay
  <1>8. Untargeted' = Untargeted
    <2>1. \A d \in Calls : pc'[d] # "idle" <=> pc[d] # "idle"
      BY <1>2, <1>6
    <2> QED BY <1>2, <2>1 DEF Untargeted
  <1> QED BY <1>2, <1>5, <1>6, <1>7, <1>8 DEF UnderWay

\* Where the outcome of a call goes, if none overlapped it.
LEMMA PendingFits ==
    ASSUME NEW c \in Calls, NEW r, Pending(c, r), pc[c] # "reading",
           NEW phase, phase = "terminal" \/ phase = Phase(Found(r), Sig(c)),
           NEW invariant, \A q \in invariant : Sig(c) # None /\ q.sig # Sig(c)
    PROVE  Fits(Found(r), Id(c), Sig(c), phase, invariant)
  <1>1. CASE held[c]
    <2>1. Id(c) = c /\ r # None /\ Found(r) = r /\ OwnRecord(r, c, Sig(c), Found(prior[c]))
      BY <1>1 DEF Pending, Id, Found
    <2>2. c # None
      BY NoneAssumption
    <2> QED BY <2>1, <2>2 DEF OwnRecord, Fits
  <1>2. CASE ~held[c]
    <2>1. Id(c) = None /\ Found(r).phase = "none"
      BY <1>2 DEF Pending, Id, Found, Empty
    <2> QED BY <2>1 DEF Fits
  <1> QED BY <1>1, <1>2

LEMMA OutcomeKept ==
    ASSUME CallsOK, GateOK, NEW c \in UnderWay, pc[c] # "reading", NEW a, a = Ask(c),
           NEW outcome \in Outcomes, NEW phase \in Phases,
           phase = "terminal" \/ phase = Phase(Found(recovery.of[a]), Sig(c)),
           NEW context \in Contexts,
           NEW invariant \in SUBSET Proposals, \A q \in invariant : Sig(c) # None /\ q.sig # Sig(c),
           NEW next, next = Record(recovery, a, Id(c), Sig(c), outcome, phase, context, invariant)
    PROVE  /\ Kept(next, a, Untargeted, a \notin raced)
           /\ \E r \in Records :
                /\ IsRecorded(r, recovery.of[a], Id(c), Sig(c), outcome, phase, context, invariant)
                /\ next.of[a] \in {r, None} /\ (recovery.of[a] # None => next.of[a] = r)
                /\ a \notin raced => r.phase = phase
  <1> DEFINE B == Untargeted
             calm == a \notin raced
             sig == Sig(c)
             id == Id(c)
             r == RecordedRecord(recovery.of[a], id, sig, outcome, phase, context, invariant)
  <1>1. c \in Calls /\ c \in Busy(a) /\ a \in Asks /\ id \in Calls \cup {None} /\ sig \in MaybeSignatures
    <2>1. c \in Calls /\ args[c] \in Arguments
      BY DEF UnderWay, CallsOK, CallOK
    <2> QED BY <2>1, SigTyped DEF Busy, Ask, Id, Sig
  <1>2. Kept(recovery, a, B, calm) /\ B \in SUBSET Calls
    BY <1>1 DEF GateOK, AskOK, Untargeted
  <1>3. calm => Pending(c, recovery.of[a])
    BY <1>1 DEF GateOK, AskOK, CalmOK
  <1>4. calm => Fits(Found(recovery.of[a]), id, sig, phase, invariant)
    BY <1>1, <1>3, PendingFits
  <1>5. next = Touch(recovery, a, r) /\ next = Record(recovery, a, id, sig, outcome, phase, context, invariant)
    BY RecordIs
  <1> HIDE DEF B, calm, sig, id
  <1>6. /\ Kept(next, a, B, calm) /\ next.of[a] \in {r, None} /\ (calm => r.phase = phase)
        /\ IsRecorded(r, recovery.of[a], id, sig, outcome, phase, context, invariant)
    BY <1>1, <1>2, <1>4, <1>5, RecordKept
  <1> HIDE DEF r
  <1>7. r \in Records /\ (recovery.of[a] # None => next.of[a] = r)
    BY <1>1, <1>2, <1>5, <1>6, TouchListed DEF IsRecorded, Kept
  <1> QED BY <1>6, <1>7 DEF B, calm, sig, id

\* The end of a call that none overlapped.
LEMMA AnsweredAtLast ==
    ASSUME CallsOK, GateOK, NEW c \in Calls, NEW a, a = Ask(c), Continued(c), pc'[c] = "returned", raced' = raced,
           Kept(recovery', a, Untargeted, a \notin raced),
           \/ offer'[a] = offer[a]
           \/ a \notin raced => \A p \in offer'[a] : Stands(recovery'.of[a], p)
    PROVE  AskOK(a)'
  <1>1. c \in UnderWay /\ OthersStay(c) /\ Untargeted' = Untargeted /\ args' = args
    BY ContinueStays
  <1>2. c \in Busy(a) /\ a \in Asks
    <2>1. args[c] \in Arguments
      BY <1>1 DEF UnderWay, CallsOK, CallOK
    <2> QED BY <1>1, <2>1, SigTyped DEF Busy, Ask
  <1>3. ASSUME a \notin raced
        PROVE  CalmOK(a)'
    <2>1. Busy(a) = {c} /\ offer[a] = {}
      BY <1>2, <1>3 DEF GateOK, AskOK, CalmOK
    <2>2. Busy(a)' = {}
      <3> SUFFICES ASSUME NEW d \in Busy(a)' PROVE FALSE
        OBVIOUS
      <3>1. d \in Calls \ {c} /\ pc'[d] \notin {"idle", "returned"} /\ args'[d].ask = a
        BY DEF Busy, UnderWay, Ask
      <3>2. d \in Busy(a)
        BY <1>1, <3>1 DEF Busy, UnderWay, Ask, OthersStay
      <3> QED BY <2>1, <3>1, <3>2
    <2> QED BY <1>3, <2>1, <2>2 DEF CalmOK
  <1> QED BY <1>1, <1>3 DEF AskOK

\* The call goes on, alone on its ask.
LEMMA GoesOn ==
    ASSUME CallsOK, GateOK, NEW c \in Calls, NEW a, a = Ask(c), Continued(c), pc'[c] # "returned", raced' = raced,
           offer' = offer, Kept(recovery', a, Untargeted, a \notin raced),
           a \notin raced => IF held'[c] THEN recovery'.of[a] # None /\ OwnRecord(recovery'.of[a], c, Sig(c), Found(prior[c]))
                             ELSE recovery'.of[a] = None /\ prior[c] = None
    PROVE  AskOK(a)'
  <1>1. /\ c \in UnderWay /\ OthersStay(c) /\ Untargeted' = Untargeted /\ args' = args /\ prior' = prior
        /\ pc'[c] \in {"binding", "applying", "verifying"}
    BY ContinueStays
  <1>2. c \in Busy(a) /\ a \in Asks
    <2>1. args[c] \in Arguments
      BY <1>1 DEF UnderWay, CallsOK, CallOK
    <2> QED BY <1>1, <2>1, SigTyped DEF Busy, Ask
  <1>3. ASSUME a \notin raced
        PROVE  CalmOK(a)'
    <2>1. Busy(a) = {c} /\ offer[a] = {}
      BY <1>2, <1>3 DEF GateOK, AskOK, CalmOK
    <2>2. Busy(a)' = {c}
      <3>1. \A d \in Calls \ {c} : d \in Busy(a)' <=> d \in Busy(a)
        BY <1>1 DEF Busy, UnderWay, Ask, OthersStay
      <3>2. c \in Busy(a)' /\ Busy(a)' \subseteq Calls
        BY <1>1 DEF Busy, UnderWay, Ask
      <3> QED BY <2>1, <3>1, <3>2
    <2>3. Pending(c, recovery.of[a])'
      <3>1. Sig(c)' = Sig(c) /\ pc'[c] # "reading"
        BY <1>1 DEF Sig
      <3> QED BY <1>1, <1>3, <3>1 DEF Pending
    <2> QED BY <2>1, <2>2, <2>3 DEF CalmOK
  <1> QED BY <1>1, <1>3 DEF AskOK

\* The reservation made at the read, or the one made before it.
LEMMA ReadReserves ==
    ASSUME CallsOK, GateOK, NEW c \in Calls, NEW a, a = Ask(c), ReadPasses(c), NEW map, map = ReservedMap(c)
    PROVE  /\ Kept(map, a, Untargeted, a \notin raced)
           /\ a \notin raced => IF held'[c] THEN map.of[a] # None /\ OwnRecord(map.of[a], c, Sig(c), Found(prior[c]))
                                ELSE map.of[a] = None /\ prior[c] = None
  <1> DEFINE B == Untargeted
             calm == a \notin raced
             in == args[c]
             sig == Sig(c)
             r == recovery.of[a]
             looked == Looked(recovery, a)
             gated == Gated(looked, a, sig, in.target)
  <1>1. pc[c] = "reading" /\ in \in Arguments /\ (Narrowed(in, prior[c]) => ~held[c])
    BY DEF ReadPasses, CallsOK, CallOK
  <1>2. /\ a \in Asks /\ sig \in MaybeSignatures /\ c \in Busy(a) /\ B \in SUBSET Calls
        /\ c \in B => in.target = None
    BY <1>1, SigTyped DEF Busy, UnderWay, Ask, Sig, Untargeted
  <1>3. Kept(recovery, a, B, calm) /\ (calm => Pending(c, r))
    BY <1>2 DEF GateOK, AskOK, CalmOK
  <1>4. held'[c] = (held[c] \/ (Narrowed(in, prior[c]) /\ map.of[a] # None))
    BY DEF ReadPasses, CallsOK
  <1>5. CASE ~Narrowed(in, prior[c])
    <2>1. map = recovery
      BY <1>5 DEF ReservedMap
    <2>2. held'[c] = held[c]
      BY <1>4, <1>5 DEF CallsOK
    <2> QED BY <1>3, <1>5, <2>1, <2>2 DEF Pending
  <1>6. CASE Narrowed(in, prior[c])
    <2>1. Passes(r, sig, in.target)
      BY <1>1, <1>6 DEF ReadPasses, GateOK, Changed
    <2>2. Admissible(Found(r), B) /\ (calm => Straight(Found(r)) /\ Welcome(Found(r), in) /\ Like(prior[c], r))
      BY <1>1, <1>3, <1>6 DEF Kept, Pending
    <2>3. Listed(looked) /\ looked.of[a] = r /\ Like(r, r)
      BY <1>2, <1>3, LookedSame DEF Kept, Like, SameBind
    <2>4. Listed(gated) /\ (Passes(r, sig, in.target) => Like(r, gated.of[a]))
      <3> HIDE DEF looked, sig
      <3> QED BY <1>2, <2>1, <2>3, GatedLike
    <2>5. PICK next : next = IF Changed(c) THEN gated ELSE looked
      OBVIOUS
    <2>6. Listed(next) /\ Like(r, next.of[a])
      <3> HIDE DEF looked, gated, r
      <3> QED BY <2>1, <2>3, <2>4, <2>5
    <2>7. map = Reserve(next, a, c, sig) /\ sig = SigOf(in.proposal)
      BY <1>6, <2>5 DEF ReservedMap, Sig
    <2> HIDE DEF looked, gated, r, in, sig, calm, B
    <2>8. /\ Kept(map, a, B, calm)
          /\ map.of[a] = None => r = None
          /\ calm /\ map.of[a] # None => OwnRecord(map.of[a], c, sig, Found(r))
      <3>1. r \in Records \cup {None}
        BY <1>2, <1>3, ListedRecord DEF Kept, r
      <3> QED BY <1>1, <1>2, <2>1, <2>2, <2>6, <2>7, <3>1, ReserveKept
    <2>9. ASSUME calm
          PROVE  IF held'[c] THEN map.of[a] # None /\ OwnRecord(map.of[a], c, sig, Found(prior[c]))
                 ELSE map.of[a] = None /\ prior[c] = None
      <3>1. held'[c] = (map.of[a] # None)
        BY <1>1, <1>4, <1>6
      <3>2. Like(prior[c], r)
        BY <2>2, <2>9
      <3>3. CASE map.of[a] = None
        BY <2>8, <3>1, <3>2, <3>3 DEF Like
      <3>4. CASE map.of[a] # None
        <4>1. /\ Found(r).phase = Found(prior[c]).phase /\ Found(r).context = Found(prior[c]).context
              /\ Rejected(Found(r)) <=> Rejected(Found(prior[c]))
          BY <3>2, LikeFound
        <4>2. OwnRecord(map.of[a], c, sig, Found(r))
          BY <2>8, <2>9, <3>4
        <4>3. OwnRecord(map.of[a], c, sig, Found(prior[c]))
          BY <4>1, <4>2 DEF OwnRecord
        <4> QED BY <3>1, <3>4, <4>3
      <3> QED BY <3>3, <3>4
    <2> QED BY <2>8, <2>9 DEF B, calm, sig
  <1> QED BY <1>5, <1>6

LEMMA ResultKept ==
    ASSUME CallsOK, FilesOK, GateOK, NEW c \in UnderWay, pc[c] # "reading", NEW a, a = Ask(c), NEW done \in BOOLEAN
    PROVE  Kept(AfterResult(c, done), a, Untargeted, a \notin raced)
  <1>1. a \in Asks
    <2>1. c \in Calls /\ args[c] \in Arguments
      BY DEF UnderWay, CallsOK, CallOK
    <2> QED BY <2>1, SigTyped DEF Ask
  <1>2. CASE done
    <2>1. Kept(Forget(recovery, a), a, Untargeted, a \notin raced)
      BY <1>1, ForgetKept DEF FilesOK
    <2> QED BY <1>2, <2>1 DEF AfterResult
  <1>3. CASE ~done
    <2>1. PICK phase : phase = IF Structured(c) THEN "terminal" ELSE Phase(Found(recovery.of[a]), Sig(c))
      OBVIOUS
    <2>2. /\ phase \in Phases /\ (phase = "terminal" \/ phase = Phase(Found(recovery.of[a]), Sig(c)))
          /\ "bound" \in Outcomes /\ "none" \in Contexts /\ {} \in SUBSET Proposals
      BY <2>1, PhaseTyped DEF Phases, Outcomes, Contexts
    <2>3. AfterResult(c, done) = Record(recovery, a, Id(c), Sig(c), "bound", phase, "none", {})
      BY <1>3, <2>1 DEF AfterResult
    <2> QED BY <2>2, <2>3, OutcomeKept
  <1> QED BY <1>2, <1>3

\* Who proposes nothing is asked for a proposal, any will do.
LEMMA ProposeGate ==
    ASSUME CallsOK, GateOK, NEW c \in Calls, Continued(c), Propose(c), NEW a, a = Ask(c)
    PROVE  AskOK(a)'
  <1> DEFINE context == IF Narrowed(args[c], prior[c]) THEN "datasource" ELSE "workbook"
             phase == Phase(Found(recovery.of[a]), Sig(c))
  <1>1. /\ pc[c] = "binding" /\ pc'[c] = "returned" /\ raced' = raced /\ Sig(c) = None /\ c \in UnderWay
        /\ a \in Asks
    <2>1. args[c] \in Arguments
      BY DEF Continued, CallsOK, CallOK
    <2> QED BY <2>1, SigTyped DEF Propose, Return, CallsOK, UnderWay, Ask
  <1>2. phase \in Phases /\ phase = "awaiting-proposal"
    BY <1>1 DEF Phase, Phases
  <1>3. context \in Contexts /\ "propose" \in Outcomes /\ {} \in SUBSET Proposals
    BY DEF Contexts, Outcomes
  <1>4. recovery' = Record(recovery, a, Id(c), Sig(c), "propose", phase, context, {}) /\ offer'[a] = Proposals
    BY <1>1 DEF Propose, Recorded, Invite, GateOK
  <1> HIDE DEF context, phase
  <1>5. /\ Kept(recovery', a, Untargeted, a \notin raced)
        /\ \E r \in Records : recovery'.of[a] \in {r, None} /\ (a \notin raced => r.phase = phase)
    BY <1>1, <1>2, <1>3, <1>4, OutcomeKept DEF phase
  <1>6. ASSUME a \notin raced, NEW p \in Proposals
        PROVE  Stands(recovery'.of[a], p)
    <2>1. /\ recovery'.of[a] \in Records \cup {None}
          /\ recovery'.of[a] # None => Straight(recovery'.of[a]) /\ recovery'.of[a].phase = "awaiting-proposal"
      BY <1>2, <1>5, <1>6 DEF Kept, Found
    <2> QED BY <2>1, ProposalStands
  <1> QED BY <1>1, <1>4, <1>5, <1>6, AnsweredAtLast

LEMMA EscalateGate ==
    ASSUME CallsOK, FilesOK, GateOK, NEW c \in Calls, Continued(c), Escalate(c), NEW a, a = Ask(c)
    PROVE  AskOK(a)'
  <1>1. pc[c] = "binding" /\ pc'[c] = "returned" /\ raced' = raced /\ c \in UnderWay /\ args[c] \in Arguments
    BY DEF Escalate, Return, Continued, CallsOK, CallOK, UnderWay
  <1>2. a \in Asks /\ Sig(c) \in MaybeSignatures /\ c \in Busy(a)
    BY <1>1, SigTyped DEF Ask, Sig, Busy
  <1>3. PICK invariant \in IF Structured(c) THEN Invariants(args[c].proposal) ELSE {{}} :
          LET again == Available(prior[c], invariant) /\ Found(prior[c]).context # "none"
          IN /\ Recorded(c, "escalate", IF again THEN "open" ELSE "terminal", "none", invariant)
             /\ Invite(a, IF again THEN invariant ELSE {})
    BY DEF Escalate
  <1> DEFINE again == Available(prior[c], invariant) /\ Found(prior[c]).context # "none"
             phase == IF again THEN Phase(Found(recovery.of[a]), Sig(c)) ELSE "terminal"
  <1>4. /\ invariant \in SUBSET Proposals /\ \A q \in invariant : Sig(c) # None /\ q.sig # Sig(c)
        /\ invariant # {} => Structured(c)
    <2>1. CASE Structured(c)
      <3>1. Sig(c) # None /\ Sig(c) = args[c].proposal.sig
        BY <2>1 DEF Structured, Sig, SigOf
      <3> QED BY <1>3, <2>1, <3>1 DEF Invariants
    <2>2. CASE ~Structured(c)
      BY <1>3, <2>2
    <2> QED BY <2>1, <2>2
  <1>5. /\ phase \in Phases /\ (phase = "terminal" \/ phase = Phase(Found(recovery.of[a]), Sig(c)))
        /\ "escalate" \in Outcomes /\ "none" \in Contexts
    BY PhaseTyped DEF Phases, Outcomes, Contexts
  <1>6. /\ recovery' = Record(recovery, a, Id(c), Sig(c), "escalate", phase, "none", invariant)
        /\ offer'[a] = IF again THEN invariant ELSE {}
    BY <1>2, <1>3 DEF Recorded, Invite, GateOK
  <1> HIDE DEF again, phase
  <1>7. Kept(recovery', a, Untargeted, a \notin raced)
    BY <1>1, <1>4, <1>5, <1>6, OutcomeKept
  <1>8. PICK r \in Records :
          /\ IsRecorded(r, recovery.of[a], Id(c), Sig(c), "escalate", phase, "none", invariant)
          /\ recovery'.of[a] \in {r, None} /\ (recovery.of[a] # None => recovery'.of[a] = r)
    BY <1>1, <1>4, <1>5, <1>6, OutcomeKept
  <1>9. ASSUME a \notin raced, again, NEW p \in invariant
        PROVE  Stands(recovery'.of[a], p)
    <2>1. Structured(c) /\ Sig(c) # None /\ Sig(c) \in Signatures
      BY <1>2, <1>4, <1>9 DEF Structured, MaybeSignatures
    <2>2. prior[c] # None
      <3>1. DOMAIN Empty.attempts = {}
        BY EmptySeq DEF Empty
      <3> QED BY <2>1, <3>1 DEF Structured, Found
    <2>3. Pending(c, recovery.of[a])
      BY <1>2, <1>9 DEF GateOK, AskOK, CalmOK
    <2>4. held[c] /\ recovery.of[a] # None /\ OwnRecord(recovery.of[a], c, Sig(c), Found(prior[c]))
      BY <1>1, <2>2, <2>3 DEF Pending
    <2>5. recovery'.of[a] = r /\ r # None
      BY <1>8, <2>4, NoRecordAssumption
    <2>6. Straight(r)
      BY <1>7, <1>9, <2>5 DEF Kept, Found
    <2>7. Filed(recovery, a, Reservations(a), Answered, Unfiled(a)) /\ \A t : <<c, t>> \in Reservations(a) => t = Sig(c)
      BY <1>2 DEF FilesOK, Reservations
    <2>8. /\ Found(prior[c]).context # "none"
          /\ ~(Found(prior[c]).phase = "proposal-attempted" /\ Rejected(Found(prior[c])))
      BY <1>9 DEF again, Available
    <2>9. IsRecorded(r, recovery.of[a], c, Sig(c), "escalate", Phase(Found(recovery.of[a]), Sig(c)), "none", invariant)
      BY <1>8, <1>9, <2>4 DEF phase, Id
    <2> QED BY <1>2, <1>4, <1>9, <2>1, <2>4, <2>5, <2>6, <2>7, <2>8, <2>9, RejectionStands
  <1>10. a \notin raced => \A p \in offer'[a] : Stands(recovery'.of[a], p)
    BY <1>6, <1>9
  <1> QED BY <1>1, <1>7, <1>10, AnsweredAtLast

\* The own ask of a call under way.
LEMMA ContinueOwnGate ==
    ASSUME CallsOK, FilesOK, GateOK, NEW c \in Calls, Continue(c), NEW a, a = Ask(c)
    PROVE  AskOK(a)'
  <1> DEFINE B == Untargeted
             calm == a \notin raced
  <1>1. /\ Continued(c) /\ c \in UnderWay /\ args[c] \in Arguments
        /\ pc[c] \in {"reading", "binding", "applying", "verifying"}
    BY ContinueContinues DEF Continued, CallsOK, CallOK, UnderWay
  <1>2. a \in Asks /\ Sig(c) \in MaybeSignatures /\ c \in Busy(a)
    BY <1>1, SigTyped DEF Ask, Sig, Busy
  <1>3. Kept(recovery, a, B, calm) /\ B \in SUBSET Calls /\ (calm => Pending(c, recovery.of[a]))
    BY <1>2 DEF GateOK, AskOK, CalmOK, Untargeted
  <1>4. ASSUME Return(c), raced' = raced, offer' = offer, Kept(recovery', a, B, calm)
        PROVE  AskOK(a)'
    <2>1. pc'[c] = "returned"
      BY <1>4 DEF Return, CallsOK
    <2> QED BY <1>1, <1>4, <2>1, AnsweredAtLast
  <1>5. CASE ReadFails(c) \/ BinderThrows(c) \/ Reuse(c) \/ SessionLost(c)
    <2>1. Return(c) /\ raced' = raced /\ offer' = offer /\ recovery' = recovery
      BY <1>5 DEF ReadFails, BinderThrows, Reuse, SessionLost, history, storeVars
    <2> QED BY <1>3, <1>4, <2>1
  <1>6. CASE ReadBlocked(c)
    <2> DEFINE looked == Looked(recovery, a)
    <2>1. Return(c) /\ raced' = raced /\ offer' = offer /\ recovery' = Gated(looked, a, Sig(c), args[c].target)
      BY <1>6 DEF ReadBlocked, history
    <2> HIDE DEF B, calm
    <2>2. Kept(looked, a, B, calm)
      BY <1>2, <1>3, LookedKept
    <2> HIDE DEF looked
    <2>3. Kept(recovery', a, B, calm)
      BY <1>2, <2>1, <2>2, GatedKept
    <2> QED BY <1>4, <2>1, <2>3
  <1>7. CASE Preflight(c) \/ TargetMissing(c) \/ Bind(c)
    <2>1. PICK map : map = ReservedMap(c)
      OBVIOUS
    <2>2. ReadPasses(c) /\ raced' = raced /\ offer' = offer
      BY <1>7 DEF Preflight, TargetMissing, Bind, history
    <2>3. /\ Kept(map, a, B, calm)
          /\ calm => IF held'[c] THEN map.of[a] # None /\ OwnRecord(map.of[a], c, Sig(c), Found(prior[c]))
                     ELSE map.of[a] = None /\ prior[c] = None
      BY <2>1, <2>2, ReadReserves
    <2>4. CASE Preflight(c)
      <3>1. Return(c) /\ recovery' = Forget(map, a)
        BY <2>1, <2>4 DEF Preflight
      <3>2. Kept(Forget(map, a), a, B, calm)
        BY <1>2, <2>3, ForgetKept DEF Kept
      <3> QED BY <1>4, <2>2, <3>1, <3>2
    <2>5. CASE TargetMissing(c)
      <3>1. Return(c) /\ recovery' = map
        BY <2>1, <2>5 DEF TargetMissing
      <3> QED BY <1>4, <2>2, <2>3, <3>1
    <2>6. CASE Bind(c)
      <3>1. pc'[c] = "binding" /\ recovery' = map
        BY <2>1, <2>6 DEF Bind, CallsOK
      <3> QED BY <1>1, <2>2, <2>3, <3>1, GoesOn
    <2> QED BY <1>7, <2>4, <2>5, <2>6
  <1>8. CASE DeclineBound(c)
    <2>1. /\ Return(c) /\ raced' = raced /\ offer' = offer
          /\ recovery' = IF held[c] THEN Release(recovery, a, c) ELSE recovery
      BY <1>8 DEF DeclineBound, history
    <2>2. Sig(c) = None
      BY <1>1, <1>8 DEF DeclineBound, Arguments, Sig, SigOf
    <2>3. Filed(recovery, a, Reservations(a), Answered, Unfiled(a)) /\ \A t : <<c, t>> \in Reservations(a) => t = None
      BY <1>2, <2>2 DEF FilesOK, Reservations
    <2>4. Kept(Release(recovery, a, c), a, B, calm)
      <3> HIDE DEF B, calm
      <3> QED BY <1>2, <1>3, <2>3, ReleaseKept
    <2> QED BY <1>3, <1>4, <2>1, <2>4
  <1>9. CASE Propose(c)
    BY <1>1, <1>9, ProposeGate
  <1>10. CASE Escalate(c)
    BY <1>1, <1>10, EscalateGate
  <1>11. CASE NotApplied(c)
    <2>1. /\ pc[c] = "binding" /\ Return(c) /\ raced' = raced /\ offer' = offer
          /\ \/ recovery' = Record(recovery, a, Id(c), Sig(c), "bound", "terminal", "none", {})
             \/ recovery' = Forget(recovery, a)
      BY <1>11 DEF NotApplied, Recorded, history
    <2>2. "bound" \in Outcomes /\ "terminal" \in Phases /\ "none" \in Contexts /\ {} \in SUBSET Proposals
      BY DEF Outcomes, Phases, Contexts
    <2>3. Kept(Forget(recovery, a), a, B, calm)
      BY <1>2, <1>3, ForgetKept DEF Kept
    <2>4. Kept(Record(recovery, a, Id(c), Sig(c), "bound", "terminal", "none", {}), a, B, calm)
      BY <1>1, <2>1, <2>2, OutcomeKept
    <2> QED BY <1>4, <2>1, <2>3, <2>4
  <1>12. CASE Apply(c) \/ Post(c)
    <2>1. /\ pc[c] # "reading" /\ pc'[c] # "returned" /\ raced' = raced /\ offer' = offer
          /\ recovery' = recovery /\ held' = held
      BY <1>12 DEF Apply, Post, history, storeVars, CallsOK
    <2>2. calm => IF held'[c] THEN recovery'.of[a] # None /\ OwnRecord(recovery'.of[a], c, Sig(c), Found(prior[c]))
                  ELSE recovery'.of[a] = None /\ prior[c] = None
      BY <1>3, <2>1 DEF Pending
    <2> QED BY <1>1, <1>3, <2>1, <2>2, GoesOn
  <1>13. CASE Applied(c)
    <2>1. /\ pc[c] # "reading" /\ Return(c) /\ raced' = raced /\ offer' = offer
          /\ \E whole, warned \in BOOLEAN : recovery' = AfterResult(c, whole /\ ~warned)
      BY <1>13 DEF Applied
    <2>2. PICK done \in BOOLEAN : recovery' = AfterResult(c, done)
      <3>1. PICK whole \in BOOLEAN, warned \in BOOLEAN : recovery' = AfterResult(c, whole /\ ~warned)
        BY <2>1
      <3>2. PICK done \in BOOLEAN : done = (whole /\ ~warned)
        OBVIOUS
      <3> QED BY <3>1, <3>2
    <2>3. Kept(AfterResult(c, done), a, B, calm)
      BY <1>1, <2>1, ResultKept
    <2> QED BY <1>4, <2>1, <2>2, <2>3
  <1>14. CASE NotSent(c) \/ SentFailed(c)
    <2>1. PICK map : map = AfterResult(c, FALSE)
      OBVIOUS
    <2>2. /\ pc[c] # "reading" /\ Return(c) /\ raced' = raced /\ offer' = offer
          /\ recovery' = map \/ (Sig(c) # None /\ recovery' = Grant(map, a, Sig(c)))
      BY <1>14, <2>1 DEF NotSent, SentFailed, history
    <2>3. Kept(map, a, B, calm)
      BY <1>1, <2>1, <2>2, ResultKept
    <2>4. Sig(c) # None => Kept(Grant(map, a, Sig(c)), a, B, calm)
      <3> HIDE DEF B, calm
      <3> QED BY <1>2, <2>3, GrantKept DEF MaybeSignatures
    <2> QED BY <1>4, <2>2, <2>3, <2>4
  <1> QED BY <1>5, <1>6, <1>7, <1>8, <1>9, <1>10, <1>11, <1>12, <1>13, <1>14 DEF Continue

LEMMA ContinueGate ==
    ASSUME Sound, Sound', GateOK, NEW c \in Calls, Continue(c)
    PROVE  GateOK'
  <1>1. CallsOK /\ FilesOK /\ Listed(recovery') /\ Shapes
    BY DEF Sound, FilesOK
  <1>2. Continued(c) /\ args' = args
    BY <1>1, ContinueContinues DEF Continued
  <1>3. PICK a \in Asks : a = Ask(c) /\ WorksOn(c, a)
    <2>1. PICK x \in Asks : WorksOn(c, x)
      BY <1>1, ContinueWorks
    <2> QED BY <1>2, <2>1 DEF WorksOn, Ask
  <1>4. /\ c \in UnderWay /\ OthersStay(c) /\ Untargeted' = Untargeted
        /\ pc'[c] \in {"returned", "binding", "applying", "verifying"}
    BY <1>1, <1>2, ContinueStays
  <1>5. raced' = raced /\ (offer' = offer \/ \E set : offer' = [offer EXCEPT ![a] = set])
    BY <1>3 DEF Continue, ReadFails, ReadBlocked, Preflight, TargetMissing, Bind, BinderThrows, DeclineBound,
          Propose, Escalate, NotApplied, Reuse, Apply, Post, Applied, NotSent, SentFailed, SessionLost, Invite, history
  <1>6. AskOK(a)'
    BY <1>1, <1>3, ContinueOwnGate
  <1>7. ASSUME NEW b \in Asks \ {a}
        PROVE  AskOK(b)'
    <2>1. AskOK(b) /\ offer'[b] = offer[b] /\ (b \in raced' <=> b \in raced)
      BY <1>5 DEF GateOK
    <2>2. c \notin Busy(b) /\ c \notin Busy(b)'
      BY <1>2, <1>3, <1>7 DEF Busy, UnderWay, Ask
    <2>3. Admissible(Found(recovery.of[b]), Untargeted') /\ Keeps(recovery, recovery', a)
      BY <1>3, <1>4, <2>1 DEF AskOK, Kept, WorksOn
    <2> QED BY <1>1, <1>4, <2>1, <2>2, <2>3, OtherGate
  <1>8. ASSUME NEW d \in Calls, pc'[d] = "reading"
        PROVE  Passes(prior'[d], Sig(d)', args'[d].target)
    <2>1. d # c
      BY <1>4, <1>8
    <2> QED BY <1>4, <1>8, <2>1 DEF OthersStay, GateOK, Sig
  <1>9. offer' = [b \in Asks |-> offer'[b]]
    BY <1>5 DEF GateOK
  <1> QED BY <1>6, <1>7, <1>8, <1>9 DEF GateOK

LEMMA GateHolds == Spec => [](Sound /\ GateOK)
  <1>1. Init => Sound /\ GateOK
    BY InitSound, InitGate
  <1>2. Sound /\ GateOK /\ [Next]_vars => (Sound /\ GateOK)'
    <2> SUFFICES ASSUME Sound, GateOK, [Next]_vars PROVE GateOK'
      BY NextSound
    <2>1. Sound'
      BY NextSound
    <2>2. ASSUME NEW c \in Calls, Start(c) PROVE GateOK'
      BY <2>1, <2>2, StartGate
    <2>3. ASSUME NEW c \in Calls, Continue(c) PROVE GateOK'
      BY <2>1, <2>3, ContinueGate
    <2>4. CASE UserEdit \/ UNCHANGED vars
      <3>1. UNCHANGED <<recovery, pc, args, prior, held, raced, offer>>
        BY <2>4 DEF UserEdit, vars, storeVars, callVars, history
      <3>2. Untargeted' = Untargeted
        BY <3>1 DEF Untargeted
      <3>3. \A a \in Asks : Busy(a)' = Busy(a)
        BY <3>1 DEF Busy, UnderWay, Ask
      <3>4. ASSUME NEW a \in Asks PROVE AskOK(a)'
        <4>1. AskOK(a)
          BY DEF GateOK
        <4>2. \A c : Pending(c, recovery.of[a])' <=> Pending(c, recovery.of[a])
          BY <3>1 DEF Pending, Sig
        <4>3. CalmOK(a) => CalmOK(a)'
          BY <3>1, <3>3, <4>2 DEF CalmOK
        <4> QED BY <3>1, <3>2, <4>1, <4>3 DEF AskOK
      <3> QED BY <3>1, <3>4 DEF GateOK, Sig
    <2> QED BY <2>2, <2>3, <2>4 DEF Next
  <1> QED BY <1>1, <1>2, PTL DEF Spec

\* Sets whose members are all one, or of which no three differ.
LEMMA OneAtMost ==
    ASSUME NEW S, \A x, y \in S : x = y
    PROVE  Cardinality(S) \in {0, 1}
  <1>1. CASE S = {}
    BY <1>1, FS_EmptySet
  <1>2. CASE S # {}
    <2>1. PICK x \in S : TRUE
      BY <1>2
    <2>2. S = {x}
      BY <2>1
    <2> QED BY <2>2, CardinalityOne
  <1> QED BY <1>1, <1>2

LEMMA TwoAtMost ==
    ASSUME NEW S, \A x, y, z \in S : x = y \/ y = z \/ x = z
    PROVE  Cardinality(S) <= 2
  <1>1. CASE \A x, y \in S : x = y
    BY <1>1, OneAtMost
  <1>2. CASE ~ \A x, y \in S : x = y
    <2>1. PICK x \in S, y \in S : x # y
      BY <1>2
    <2>2. S = {x} \cup {y}
      BY <2>1
    <2>3. IsFiniteSet({x}) /\ Cardinality({x}) = 1 /\ y \notin {x}
      BY <2>1, FS_Singleton
    <2>4. Cardinality({x} \cup {y}) = 2
      BY <2>3, FS_AddElement
    <2> QED BY <2>2, <2>4
  <1> QED BY <1>1, <1>2

\* recoveryGateBlock and reserveBindRecoveryAdmission run without an await between them: what
\* was reserved is counted before the next call on the ask passes the gate.  A call that waits
\* for a data source reserves only at the read, after a second gate.
THEOREM CorrectedOnce == Spec => []OneCorrection
  <1>1. Sound /\ GateOK => OneCorrection
    <2> SUFFICES ASSUME Sound, GateOK, NEW a \in Asks, recovery.of[a] # None
                 PROVE  LET tries == recovery.of[a].attempts
                            bare == {i \in DOMAIN tries : tries[i].id # None /\ tries[i].sig = None
                                                          /\ args[tries[i].id].target = None}
                            proposals == {i \in DOMAIN tries : tries[i].id # None /\ tries[i].sig # None}
                        IN /\ Cardinality(bare) <= 1
                           /\ Cardinality(proposals) >= 2 => Rejected(recovery.of[a])
                           /\ a \notin raced => Cardinality(proposals) <= 2
      BY DEF OneCorrection
    <2> DEFINE r == recovery.of[a]
               tries == r.attempts
               bare == {i \in DOMAIN tries : tries[i].id # None /\ tries[i].sig = None
                                             /\ args[tries[i].id].target = None}
    <2>1. Found(r) = r /\ Filing(r, Reservations(a), Answered, Unfiled(a)) /\ DOMAIN tries = 1..Len(tries)
      BY DEF Sound, FilesOK, Filed, Listed, Ordered, Records, Found
    <2>2. Admissible(r, Untargeted) /\ (a \notin raced => Straight(r))
      BY <2>1 DEF GateOK, AskOK, Kept
    <2>3. bare \subseteq BareIn(r, Untargeted)
      <3> SUFFICES ASSUME NEW i \in bare PROVE i \in BareIn(r, Untargeted)
        OBVIOUS
      <3>1. i \in DOMAIN tries /\ tries[i].id # None /\ tries[i].sig = None /\ args[tries[i].id].target = None
        OBVIOUS
      <3>2. <<tries[i].id, tries[i].sig>> \in Reservations(a)
        BY <2>1, <3>1 DEF Filing
      <3>3. tries[i].id \in Calls /\ pc[tries[i].id] # "idle"
        BY <3>2 DEF Reservations
      <3> QED BY <3>1, <3>3 DEF BareIn, Untargeted
    <2>4. Cardinality(bare) <= 1
      <3>1. \A i, j \in bare : i = j
        BY <2>2, <2>3 DEF Admissible
      <3> HIDE DEF bare
      <3>2. Cardinality(bare) \in {0, 1}
        BY <3>1, OneAtMost
      <3> QED BY <3>2
    <2>5. Cardinality(Proposing(r)) >= 2 => Rejected(r)
      <3> SUFFICES ASSUME Cardinality(Proposing(r)) >= 2, ~Rejected(r) PROVE FALSE
        OBVIOUS
      <3>1. \A i, j \in Proposing(r) : i = j
        BY <2>2 DEF Admissible
      <3>2. Cardinality(Proposing(r)) \in {0, 1}
        BY <3>1, OneAtMost
      <3> QED BY <3>2
    <2>6. a \notin raced => Cardinality(Proposing(r)) <= 2
      <3> SUFFICES ASSUME a \notin raced PROVE Cardinality(Proposing(r)) <= 2
        OBVIOUS
      <3>1. \A i, j, k \in Proposing(r) : i = j \/ j = k \/ i = k
        BY <2>2 DEF Straight
      <3> QED BY <3>1, TwoAtMost
    <2> QED BY <2>4, <2>5, <2>6 DEF Proposing
  <1> QED BY <1>1, GateHolds, PTL

\* What a rejected proposal may be corrected with, and any proposal after a propose, is let
\* through when it is sent: the record that invites it is what recoveryGateBlock will read,
\* however many records of other asks come and go in between.
THEOREM OffersStand == Spec => []OfferStands
  <1>1. Sound /\ GateOK => OfferStands
    <2> SUFFICES ASSUME GateOK, NEW a \in Asks, a \notin raced, NEW p \in offer[a]
                 PROVE  /\ Passes(recovery.of[a], p.sig, None)
                        /\ p \in Found(recovery.of[a]).invariant \/ Found(recovery.of[a]).invariant = {}
      BY DEF OfferStands
    <2>1. Stands(recovery.of[a], p)
      BY DEF GateOK, AskOK, CalmOK
    <2> QED BY <2>1 DEF Stands
  <1> QED BY <1>1, GateHolds, PTL
=============================================================================
