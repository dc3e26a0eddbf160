--------------------- MODULE InMemorySessionStoreProofs ---------------------
(***************************************************************************)
(* The in-memory session store keeps the promise of SessionStore for every *)
(* time to live, chunk, margin and size limit, as long as no timer is      *)
(* later than the margin.                                                  *)
(***************************************************************************)
EXTENDS InMemorySessionStore, FiniteSetTheorems, TLAPS

\* An entry with a refresh timer is refreshed before it expires, and the
\* refresh provides the rest of the time to live; an entry without one expires
\* no sooner than it should.
RefreshInTime(k) ==
    /\ now <= refresh[k].due + Lag
    /\ expiry[k] = refresh[k].due + Margin
    /\ refresh[k].due + refresh[k].left >= since[k] + Ttl
    /\ refresh[k].value = map[k]

TimerInv ==
    \A k \in Entries : IF k \in refreshTimers THEN RefreshInTime(k)
                                              ELSE expiry[k] >= since[k] + Ttl

SizeInv == Cardinality(Entries) <= MaxSize

IInv == TypeOK /\ TimerInv /\ SizeInv

-----------------------------------------------------------------------------
\* The entries are finitely many.
LEMMA EntriesFinite == IsFiniteSet(Entries) /\ Cardinality(Entries) \in Nat
  BY KeysAssumption, FS_Subset, FS_CardinalityType DEF Entries

LEMMA OneLessFits ==
  ASSUME NEW k \in Entries, Cardinality(Entries) <= MaxSize
  PROVE  Cardinality(Entries \ {k}) <= MaxSize
  BY EntriesFinite, FS_RemoveElement, MaxSizeAssumption

\* Overwriting a key evicts nothing.
LEMMA OverwriteEvictsNone ==
  ASSUME SizeInv, NEW k \in Entries
  PROVE  Surplus(k) = {{}}
  <1>1. Entries \union {k} = Entries
    OBVIOUS
  <1> QED BY <1>1, EntriesFinite, MaxSizeAssumption DEF Surplus, SizeInv

\* What a Set evicts is nothing, if there is room, and otherwise one other key.
LEMMA EvictedByANewKey ==
  ASSUME IInv, NEW k \in Keys, NEW removed \in Surplus(k)
  PROVE  \/ removed = {} /\ Cardinality(Entries \union {k}) <= MaxSize
         \/ /\ Cardinality(Entries \union {k}) > MaxSize
            /\ k \notin Entries
            /\ \E x \in Entries : x # k /\ removed = {x}
  <1>0. Cardinality(Entries \union {k}) \in Nat
    BY EntriesFinite, FS_AddElement, FS_CardinalityType
  <1>1. CASE Cardinality(Entries \union {k}) <= MaxSize
    BY <1>0, <1>1, MaxSizeAssumption DEF Surplus
  <1>2. CASE Cardinality(Entries \union {k}) > MaxSize
    <2>1. k \notin Entries
      <3>1. SUFFICES ASSUME k \in Entries PROVE FALSE
        OBVIOUS
      <3>2. Entries \union {k} = Entries
        BY <3>1
      <3> QED BY <1>2, <3>2, EntriesFinite, MaxSizeAssumption DEF IInv, SizeInv
    <2>2. Entries # {}
      <3>1. SUFFICES ASSUME Entries = {} PROVE FALSE
        OBVIOUS
      <3>2. Cardinality(Entries \union {k}) = 1
        BY <3>1, FS_Singleton
      <3> QED BY <1>2, <3>2, MaxSizeAssumption
    <2>3. PICK x \in Entries \union {k} :
             removed = {x} /\ \A z \in Entries : <<z, x>> \notin Inserted(k)
      BY <1>0, <1>2, MaxSizeAssumption DEF Surplus
    <2>4. x # k
      <3>1. PICK z \in Entries : TRUE
        BY <2>2
      <3>2. <<z, k>> \in Inserted(k)
        BY <2>1 DEF Inserted
      <3> QED BY <2>3, <3>2
    <2> QED BY <1>2, <2>1, <2>3, <2>4
  <1> QED BY <1>0, <1>1, <1>2, MaxSizeAssumption

-----------------------------------------------------------------------------
\* What storing v under k for another ttl does to the entries and their timers.
LEMMA ScheduleSetEffect ==
  ASSUME IInv, NEW k \in Keys, NEW v \in Values, NEW ttl \in Nat,
         NEW removed \in SUBSET Keys, k \notin removed,
         ScheduleSet(k, v, ttl, removed), now' = now
  PROVE  /\ map' \in [Keys -> Values \union {NoValue}]
         /\ Entries' = (Entries \ removed) \union {k}
         /\ timeouts' = Entries'
         /\ older' \subseteq (Entries \X Entries)'
         /\ expiry' \in [Keys -> Nat]
         /\ refreshTimers' \subseteq Entries'
         /\ refresh' \in [Keys -> Refresh]
         /\ \A x \in Keys \ {k} : x \in Entries' =>
               /\ map'[x] = map[x]
               /\ expiry'[x] = expiry[x]
               /\ refresh'[x] = refresh[x]
               /\ (x \in refreshTimers' <=> x \in refreshTimers)
         /\ map'[k] = v
         /\ IF k \in refreshTimers'
              THEN /\ refresh'[k].due = now + Chunk
                   /\ refresh'[k].due + refresh'[k].left = now + ttl
                   /\ refresh'[k].value = v
                   /\ expiry'[k] = refresh'[k].due + Margin
              ELSE expiry'[k] >= now + ttl
  <1> USE ChunkAssumption, MarginAssumption, NoValueAssumption
  <1>1. map' = [x \in Keys |-> IF x = k THEN v ELSE IF x \in removed THEN NoValue ELSE map[x]]
    BY DEF ScheduleSet
  <1>2. map' \in [Keys -> Values \union {NoValue}]
    BY <1>1 DEF IInv, TypeOK
  <1>3. Entries' = (Entries \ removed) \union {k}
    BY <1>1 DEF Entries
  <1>4. timeouts' = Entries'
    BY <1>3 DEF ScheduleSet, Kept, IInv, TypeOK
  <1>5. older' \subseteq (Entries \X Entries)'
    BY <1>3 DEF ScheduleSet, Inserted, IInv, TypeOK
  <1>6. now + ChunkLife(ttl) \in Nat
    <2>1. now \in Nat
      BY DEF IInv, TypeOK
    <2>2. ChunkLife(ttl) \in Nat
      BY DEF ChunkLife, AtLeastOne
    <2> QED BY <2>1, <2>2
  <1>7. expiry' \in [Keys -> Nat]
    BY <1>6 DEF ScheduleSet, IInv, TypeOK
  <1>8. refreshTimers' \subseteq Entries'
    BY <1>3 DEF ScheduleSet, Kept, IInv, TypeOK
  <1>9. refresh' \in [Keys -> Refresh]
    <2>1. refresh \in [Keys -> Refresh] /\ now \in Nat
      BY DEF IInv, TypeOK
    <2>2. NoRefresh \in Refresh
      BY DEF NoRefresh, Refresh
    <2>3. ttl > Chunk => [due |-> now + Chunk, left |-> Left(ttl), value |-> v] \in Refresh
      BY <2>1 DEF Left, Refresh
    <2> QED BY <2>1, <2>2, <2>3 DEF ScheduleSet
  <1>10. \A x \in Keys \ {k} : x \in Entries' =>
               /\ map'[x] = map[x]
               /\ expiry'[x] = expiry[x]
               /\ refresh'[x] = refresh[x]
               /\ (x \in refreshTimers' <=> x \in refreshTimers)
    <2> SUFFICES ASSUME NEW x \in Keys \ {k}, x \in Entries'
                 PROVE  /\ map'[x] = map[x]
                        /\ expiry'[x] = expiry[x]
                        /\ refresh'[x] = refresh[x]
                        /\ (x \in refreshTimers' <=> x \in refreshTimers)
      OBVIOUS
    <2>1. x \notin removed /\ x # k
      BY <1>3
    <2>2. map'[x] = map[x]
      BY <1>1, <2>1
    <2>3. expiry'[x] = expiry[x]
      BY <2>1 DEF ScheduleSet
    <2>4. refresh'[x] = refresh[x]
      BY <2>1 DEF ScheduleSet
    <2>5. x \in refreshTimers' <=> x \in refreshTimers
      BY <2>1 DEF ScheduleSet, Kept
    <2> QED BY <2>2, <2>3, <2>4, <2>5
  <1>11. map'[k] = v
    BY <1>1
  <1>12. expiry'[k] = now + ChunkLife(ttl)
    BY DEF ScheduleSet
  <1>13. IF k \in refreshTimers'
           THEN /\ refresh'[k].due = now + Chunk
                /\ refresh'[k].due + refresh'[k].left = now + ttl
                /\ refresh'[k].value = v
                /\ expiry'[k] = refresh'[k].due + Margin
           ELSE expiry'[k] >= now + ttl
    <2>1. CASE ttl > Chunk
      <3>1. refresh'[k] = [due |-> now + Chunk, left |-> ttl - Chunk, value |-> v]
        BY <2>1 DEF ScheduleSet, Left
      <3>2. expiry'[k] = now + (Chunk + Margin)
        BY <1>12, <2>1 DEF ChunkLife
      <3>3. k \in refreshTimers'
        BY <2>1 DEF ScheduleSet
      <3>4. now \in Nat
        BY DEF IInv, TypeOK
      <3> QED BY <3>1, <3>2, <3>3, <3>4
    <2>2. CASE ttl <= Chunk
      <3>1. k \notin refreshTimers'
        BY <2>2 DEF ScheduleSet, Kept
      <3>2. ChunkLife(ttl) \in Nat /\ ChunkLife(ttl) >= ttl
        BY <2>2 DEF ChunkLife, AtLeastOne
      <3>3. now \in Nat
        BY DEF IInv, TypeOK
      <3> QED BY <1>12, <3>1, <3>2, <3>3
    <2> QED BY <2>1, <2>2
  <1> QED BY <1>2, <1>3, <1>4, <1>5, <1>7, <1>8, <1>9, <1>10, <1>11, <1>13

\* What removing an entry does.
LEMMA MapDeleteEffect ==
  ASSUME IInv, NEW k \in Entries, MapDelete(k), UNCHANGED <<now, since>>,
         gone' \in [Keys -> {"", "removed", "evicted", "expired"}]
  PROVE  IInv'
  <1>1. k \in Keys /\ Entries' = Entries \ {k}
    BY DEF MapDelete, Entries, IInv, TypeOK
  <1>2. TypeOK'
    <2>1. refresh' \in [Keys -> Refresh]
      BY DEF MapDelete, IInv, TypeOK, NoRefresh, Refresh
    <2> QED BY <1>1, <2>1 DEF MapDelete, Kept, IInv, TypeOK
  <1>3. TimerInv'
    <2> SUFFICES ASSUME NEW x \in Entries'
                 PROVE  (IF x \in refreshTimers THEN RefreshInTime(x) ELSE expiry[x] >= since[x] + Ttl)'
      BY DEF TimerInv
    <2>1. x \in Entries /\ x # k /\ x \in Keys
      BY <1>1 DEF Entries
    <2>2. map'[x] = map[x] /\ expiry'[x] = expiry[x] /\ refresh'[x] = refresh[x]
      BY <2>1 DEF MapDelete, IInv, TypeOK
    <2>3. x \in refreshTimers' <=> x \in refreshTimers
      BY <2>1 DEF MapDelete, Kept
    <2> QED BY <2>1, <2>2, <2>3 DEF IInv, TimerInv, RefreshInTime
  <1>4. SizeInv'
    BY <1>1, OneLessFits DEF IInv, SizeInv
  <1> QED BY <1>2, <1>3, <1>4 DEF IInv

LEMMA IInvInit ==
  ASSUME Init
  PROVE  IInv
  <1>1. Entries = {}
    BY DEF Init, Entries
  <1>2. TypeOK
    BY <1>1 DEF Init, TypeOK, NoRefresh, Refresh
  <1>3. Cardinality(Entries) = 0
    BY <1>1, FS_EmptySet
  <1> QED BY <1>1, <1>2, <1>3, MaxSizeAssumption DEF IInv, TimerInv, SizeInv

LEMMA IInvSet ==
  ASSUME IInv, NEW k \in Keys, NEW v \in Values, Set(k, v)
  PROVE  IInv'
  <1>1. PICK removed \in Surplus(k) :
          /\ ScheduleSet(k, v, Ttl, removed)
          /\ gone' = [x \in Keys |-> IF x = k THEN "" ELSE IF x \in removed THEN "evicted" ELSE gone[x]]
    BY DEF Set
  <1>2. \/ removed = {} /\ Cardinality(Entries \union {k}) <= MaxSize
        \/ k \notin Entries /\ \E x \in Entries : x # k /\ removed = {x}
    BY EvictedByANewKey
  <1>3. removed \in SUBSET Keys /\ k \notin removed
    BY <1>2 DEF Entries
  <1>4. now' = now /\ since' = [since EXCEPT ![k] = now]
    BY DEF Set
  <1> DEFINE Effect ==
         /\ map' \in [Keys -> Values \union {NoValue}]
         /\ Entries' = (Entries \ removed) \union {k}
         /\ timeouts' = Entries'
         /\ older' \subseteq (Entries \X Entries)'
         /\ expiry' \in [Keys -> Nat]
         /\ refreshTimers' \subseteq Entries'
         /\ refresh' \in [Keys -> Refresh]
         /\ \A x \in Keys \ {k} : x \in Entries' =>
               /\ map'[x] = map[x]
               /\ expiry'[x] = expiry[x]
               /\ refresh'[x] = refresh[x]
               /\ (x \in refreshTimers' <=> x \in refreshTimers)
         /\ map'[k] = v
         /\ IF k \in refreshTimers'
              THEN /\ refresh'[k].due = now + Chunk
                   /\ refresh'[k].due + refresh'[k].left = now + Ttl
                   /\ refresh'[k].value = v
                   /\ expiry'[k] = refresh'[k].due + Margin
              ELSE expiry'[k] >= now + Ttl
  <1>5. Effect
    BY <1>1, <1>3, <1>4, ScheduleSetEffect, TtlAssumption
  <1>6. TypeOK'
    BY <1>1, <1>4, <1>5 DEF IInv, TypeOK
  <1>7. TimerInv'
    <2> SUFFICES ASSUME NEW x \in Entries'
                 PROVE  (IF x \in refreshTimers THEN RefreshInTime(x) ELSE expiry[x] >= since[x] + Ttl)'
      BY DEF TimerInv
    <2>0. x \in Keys
      BY DEF Entries
    <2>1. CASE x = k
      <3>1. since'[x] = now /\ now \in Nat /\ Lag \in Nat /\ Chunk \in Nat
        BY <1>4, <2>1, LagAssumption, ChunkAssumption DEF IInv, TypeOK
      <3>2. CASE k \in refreshTimers'
        <4>1. now' <= refresh'[x].due + Lag
          BY <1>4, <1>5, <2>1, <3>1, <3>2
        <4>2. /\ expiry'[x] = refresh'[x].due + Margin
              /\ refresh'[x].due + refresh'[x].left = since'[x] + Ttl
              /\ refresh'[x].value = map'[x]
          BY <1>5, <2>1, <3>1, <3>2
        <4>3. since'[x] + Ttl \in Nat
          BY <3>1, TtlAssumption
        <4> QED BY <2>1, <3>2, <4>1, <4>2, <4>3 DEF RefreshInTime
      <3>3. CASE k \notin refreshTimers'
        BY <1>5, <2>1, <3>1, <3>3
      <3> QED BY <3>2, <3>3
    <2>2. CASE x # k
      <3>1. x \in Entries
        BY <1>5, <2>2
      <3>2. map'[x] = map[x] /\ expiry'[x] = expiry[x] /\ refresh'[x] = refresh[x]
        BY <1>5, <2>0, <2>2
      <3>3. x \in refreshTimers' <=> x \in refreshTimers
        BY <1>5, <2>0, <2>2
      <3>4. since'[x] = since[x]
        BY <1>4, <2>0, <2>2 DEF IInv, TypeOK
      <3> QED BY <1>4, <3>1, <3>2, <3>3, <3>4 DEF IInv, TimerInv, RefreshInTime
    <2> QED BY <2>1, <2>2
  <1>8. SizeInv'
    <2>1. CASE removed = {} /\ Cardinality(Entries \union {k}) <= MaxSize
      BY <1>5, <2>1 DEF SizeInv
    <2>2. CASE k \notin Entries /\ \E x \in Entries : x # k /\ removed = {x}
      <3>1. PICK x \in Entries : removed = {x}
        BY <2>2
      <3>2. /\ IsFiniteSet(Entries \ {x})
            /\ Cardinality(Entries \ {x}) = Cardinality(Entries) - 1
        BY EntriesFinite, FS_RemoveElement
      <3>3. Cardinality((Entries \ {x}) \union {k}) = Cardinality(Entries \ {x}) + 1
        BY <2>2, <3>2, FS_AddElement
      <3> QED BY <1>5, <3>1, <3>2, <3>3, EntriesFinite, MaxSizeAssumption DEF IInv, SizeInv
    <2> QED BY <1>2, <2>1, <2>2
  <1> QED BY <1>6, <1>7, <1>8 DEF IInv

\* A refresh overwrites, so it evicts nothing; what it provides reaches the end
\* of the time to live, since it is never early.
LEMMA IInvRefresh ==
  ASSUME IInv, NEW k \in Keys, RefreshFires(k)
  PROVE  IInv' /\ map' = map
  <1>1. k \in refreshTimers /\ k \in Entries /\ RefreshInTime(k) /\ refresh[k].due <= now
    BY DEF RefreshFires, IInv, TypeOK, TimerInv
  <1>2. ScheduleSet(k, refresh[k].value, refresh[k].left, {})
    BY <1>1, OverwriteEvictsNone DEF RefreshFires, IInv
  <1>3. UNCHANGED <<now, since, gone>>
    BY DEF RefreshFires
  <1>4. map[k] \in Values /\ refresh[k].value = map[k]
    BY <1>1 DEF RefreshInTime, Entries, IInv, TypeOK
  <1>5. /\ refresh[k].left \in Nat /\ refresh[k].due \in Nat
        /\ now \in Nat /\ since[k] \in Nat /\ Lag \in Nat /\ Chunk \in Nat /\ Margin \in Nat
    BY LagAssumption, ChunkAssumption, MarginAssumption DEF IInv, TypeOK, Refresh
  <1> DEFINE Effect ==
         /\ map' \in [Keys -> Values \union {NoValue}]
         /\ Entries' = (Entries \ {}) \union {k}
         /\ timeouts' = Entries'
         /\ older' \subseteq (Entries \X Entries)'
         /\ expiry' \in [Keys -> Nat]
         /\ refreshTimers' \subseteq Entries'
         /\ refresh' \in [Keys -> Refresh]
         /\ \A x \in Keys \ {k} : x \in Entries' =>
               /\ map'[x] = map[x]
               /\ expiry'[x] = expiry[x]
               /\ refresh'[x] = refresh[x]
               /\ (x \in refreshTimers' <=> x \in refreshTimers)
         /\ map'[k] = refresh[k].value
         /\ IF k \in refreshTimers'
              THEN /\ refresh'[k].due = now + Chunk
                   /\ refresh'[k].due + refresh'[k].left = now + refresh[k].left
                   /\ refresh'[k].value = refresh[k].value
                   /\ expiry'[k] = refresh'[k].due + Margin
              ELSE expiry'[k] >= now + refresh[k].left
  <1>6. Effect
    BY <1>2, <1>3, <1>4, <1>5, ScheduleSetEffect
  <1>7. Entries' = Entries
    BY <1>1, <1>6
  <1>8. map' = map
    BY <1>2, <1>4 DEF ScheduleSet, IInv, TypeOK
  <1>9. TypeOK'
    BY <1>3, <1>6 DEF IInv, TypeOK
  <1>10. TimerInv'
    <2> SUFFICES ASSUME NEW x \in Entries'
                 PROVE  (IF x \in refreshTimers THEN RefreshInTime(x) ELSE expiry[x] >= since[x] + Ttl)'
      BY DEF TimerInv
    <2>0. x \in Keys /\ x \in Entries /\ since'[x] = since[x]
      BY <1>3, <1>7 DEF Entries
    <2>1. CASE x = k
      <3>1. refresh[k].due + refresh[k].left >= since[k] + Ttl
        BY <1>1 DEF RefreshInTime
      <3>2. now + refresh[k].left >= since[k] + Ttl
        BY <1>1, <1>5, <3>1, TtlAssumption
      <3>3. CASE k \in refreshTimers'
        <4>1. now' <= refresh'[x].due + Lag
          BY <1>3, <1>5, <1>6, <2>1, <3>3
        <4>2. /\ expiry'[x] = refresh'[x].due + Margin
              /\ refresh'[x].due + refresh'[x].left = now + refresh[k].left
              /\ refresh'[x].value = map'[x]
          BY <1>6, <2>1, <3>3
        <4> QED BY <2>0, <2>1, <3>2, <3>3, <4>1, <4>2 DEF RefreshInTime
      <3>4. CASE k \notin refreshTimers'
        <4>1. expiry'[k] >= now + refresh[k].left /\ expiry'[k] \in Nat
          BY <1>6, <3>4
        <4> QED BY <1>5, <2>0, <2>1, <3>2, <3>4, <4>1, TtlAssumption
      <3> QED BY <3>3, <3>4
    <2>2. CASE x # k
      <3>1. map'[x] = map[x] /\ expiry'[x] = expiry[x] /\ refresh'[x] = refresh[x]
        BY <1>6, <2>0, <2>2
      <3>2. x \in refreshTimers' <=> x \in refreshTimers
        BY <1>6, <2>0, <2>2
      <3> QED BY <1>3, <2>0, <3>1, <3>2 DEF IInv, TimerInv, RefreshInTime
    <2> QED BY <2>1, <2>2
  <1>11. SizeInv'
    BY <1>7 DEF IInv, SizeInv
  <1> QED BY <1>8, <1>9, <1>10, <1>11 DEF IInv

LEMMA IInvTick ==
  ASSUME IInv, Tick
  PROVE  IInv'
  <1>1. UNCHANGED <<map, older, timeouts, expiry, refreshTimers, refresh, since, gone>>
    BY DEF Tick, storeVars
  <1>2. now' = now + 1 /\ now \in Nat
    BY DEF Tick, IInv, TypeOK
  <1>3. Entries' = Entries
    BY <1>1 DEF Entries
  <1>4. TypeOK'
    <2>1. now' \in Nat
      BY <1>2
    <2>2. TypeOK
      BY DEF IInv
    <2> QED BY <1>1, <1>3, <2>1, <2>2 DEF TypeOK
  <1>5. TimerInv'
    <2> SUFFICES ASSUME NEW k \in Entries'
                 PROVE  (IF k \in refreshTimers THEN RefreshInTime(k) ELSE expiry[k] >= since[k] + Ttl)'
      BY DEF TimerInv
    <2>1. k \in Entries /\ k \in Keys
      BY <1>3 DEF Entries
    <2>2. CASE k \in refreshTimers
      <3>1. now < refresh[k].due + Lag
        BY <2>2 DEF Tick
      <3>2. refresh[k].due \in Nat /\ Lag \in Nat
        BY <2>1, LagAssumption DEF IInv, TypeOK, Refresh
      <3>3. now + 1 <= refresh[k].due + Lag
        BY <1>2, <3>1, <3>2
      <3> QED BY <1>1, <1>2, <2>1, <2>2, <3>3 DEF IInv, TimerInv, RefreshInTime
    <2>3. CASE k \notin refreshTimers
      BY <1>1, <2>1, <2>3 DEF IInv, TimerInv
    <2> QED BY <2>2, <2>3
  <1>6. SizeInv'
    BY <1>3 DEF IInv, SizeInv
  <1> QED BY <1>4, <1>5, <1>6 DEF IInv

LEMMA IInvStep ==
  ASSUME IInv, [Next]_vars
  PROVE  IInv'
  <1>1. CASE Tick
    BY <1>1, IInvTick
  <1>2. ASSUME NEW k \in Keys, NEW v \in Values, Set(k, v) PROVE IInv'
    BY <1>2, IInvSet
  <1>3. ASSUME NEW k \in Keys, Remove(k) PROVE IInv'
    <2>1. gone' \in [Keys -> {"", "removed", "evicted", "expired"}]
      BY <1>3 DEF Remove, IInv, TypeOK
    <2> QED BY <1>3, <2>1, MapDeleteEffect DEF Remove
  <1>4. ASSUME NEW k \in Keys, ExpiryFires(k) PROVE IInv'
    <2>1. gone' \in [Keys -> {"", "removed", "evicted", "expired"}]
      BY <1>4 DEF ExpiryFires, IInv, TypeOK
    <2>2. k \in Entries
      BY <1>4 DEF ExpiryFires, IInv, TypeOK
    <2> QED BY <1>4, <2>1, <2>2, MapDeleteEffect DEF ExpiryFires
  <1>5. ASSUME NEW k \in Keys, RefreshFires(k) PROVE IInv'
    BY <1>5, IInvRefresh
  <1>6. CASE UNCHANGED vars
    BY <1>6 DEF vars, storeVars, IInv, TypeOK, TimerInv, SizeInv, RefreshInTime, Entries
  <1> QED BY <1>1, <1>2, <1>3, <1>4, <1>5, <1>6 DEF Next

-----------------------------------------------------------------------------
\* The timers of the ExpiringMap and of the store are those of its entries, so
\* that no entry is left without its expiry and no timer outlives its entry
\* (InMemorySessionStore with its onDelete hook).
THEOREM TypeCorrect == Spec => []TypeOK
  <1>1. Init => IInv
    BY IInvInit
  <1>2. IInv /\ [Next]_vars => IInv'
    BY IInvStep
  <1>3. IInv => TypeOK
    BY DEF IInv
  <1> QED BY <1>1, <1>2, <1>3, PTL DEF Spec

LEMMA SameCardinality == \A S : Contract!Cardinality(S) = Cardinality(S)
  BY DEF Contract!Cardinality, Cardinality

\* Every step of the store is one of the promise: an entry expires only after
\* its time to live although each of its timers is shorter, and only a Set of a
\* new key takes another one (InMemorySessionStore.scheduleSet).
LEMMA StepKeepsThePromise ==
  ASSUME IInv, [Next]_vars
  PROVE  [Contract!PromiseNext]_<<now, map, since, gone>>
  <1>1. CASE Tick
    BY <1>1 DEF Tick, storeVars, Contract!PromiseNext, Contract!TimePasses
  <1>2. ASSUME NEW k \in Keys, NEW v \in Values, Set(k, v) PROVE Contract!Put(k, v)
    <2>1. PICK removed \in Surplus(k) :
          /\ ScheduleSet(k, v, Ttl, removed)
          /\ gone' = [x \in Keys |-> IF x = k THEN "" ELSE IF x \in removed THEN "evicted" ELSE gone[x]]
      BY <1>2 DEF Set
    <2>2. map' = [x \in Keys |-> IF x = k THEN v ELSE IF x \in removed THEN NoValue ELSE map[x]]
      BY <2>1 DEF ScheduleSet
    <2>3. map \in [Keys -> Values \union {NoValue}]
          /\ gone \in [Keys -> {"", "removed", "evicted", "expired"}]
      BY DEF IInv, TypeOK
    <2>6. Contract!Entries = Entries
      BY DEF Contract!Entries, Entries
    <2>4. CASE removed = {} /\ Cardinality(Entries \union {k}) <= MaxSize
      <3>1. map' = [map EXCEPT ![k] = v]
        BY <2>2, <2>3, <2>4
      <3>2. gone' = [gone EXCEPT ![k] = ""]
        BY <2>1, <2>3, <2>4
      <3>3. Contract!Hold(k, v)
        BY <2>4, <2>6, <3>1, <3>2, SameCardinality DEF Contract!Hold
      <3> QED BY <1>2, <3>3 DEF Set, Contract!Put
    <2>5. CASE /\ Cardinality(Entries \union {k}) > MaxSize
               /\ k \notin Entries
               /\ \E x \in Entries : x # k /\ removed = {x}
      <3>1. PICK x \in Entries : x # k /\ removed = {x}
        BY <2>5
      <3>2. x \in Keys
        BY DEF Entries
      <3>3. map' = [map EXCEPT ![k] = v, ![x] = NoValue]
        BY <2>2, <2>3, <3>1, <3>2
      <3>4. gone' = [gone EXCEPT ![k] = "", ![x] = "evicted"]
        BY <2>1, <2>3, <3>1, <3>2
      <3>5. Contract!Replace(k, v, x)
        BY <2>5, <2>6, <3>3, <3>4, SameCardinality DEF Contract!Replace
      <3> QED BY <1>2, <3>2, <3>5 DEF Set, Contract!Put
    <2> QED BY <2>4, <2>5, EvictedByANewKey
  <1>3. ASSUME NEW k \in Keys, Remove(k) PROVE Contract!Drop(k, "removed")
    BY <1>3 DEF Remove, MapDelete, Contract!Drop, Contract!Entries, Entries
  <1>4. ASSUME NEW k \in Keys, ExpiryFires(k) PROVE Contract!Lapse(k)
    <2>1. k \in Entries /\ expiry[k] <= now
      BY <1>4 DEF ExpiryFires, IInv, TypeOK
    <2>2. now \in Nat /\ expiry[k] \in Nat /\ since[k] \in Nat
      BY DEF IInv, TypeOK
    <2>3. k \notin refreshTimers
      <3>1. SUFFICES ASSUME k \in refreshTimers PROVE FALSE
        OBVIOUS
      <3>2. now <= refresh[k].due + Lag /\ expiry[k] = refresh[k].due + Margin
        BY <2>1, <3>1 DEF IInv, TimerInv, RefreshInTime
      <3>3. refresh[k].due \in Nat
        BY DEF IInv, TypeOK, Refresh
      <3> QED BY <2>1, <2>2, <3>2, <3>3, LagAssumption, MarginAssumption
    <2>4. expiry[k] >= since[k] + Ttl
      BY <2>1, <2>3 DEF IInv, TimerInv
    <2>5. now >= since[k] + Ttl
      BY <2>1, <2>2, <2>4, TtlAssumption
    <2> QED BY <1>4, <2>1, <2>5
            DEF ExpiryFires, MapDelete, Contract!Lapse, Contract!Drop, Contract!Entries, Entries
  <1>5. ASSUME NEW k \in Keys, RefreshFires(k) PROVE UNCHANGED <<now, map, since, gone>>
    BY <1>5, IInvRefresh DEF RefreshFires
  <1>6. CASE UNCHANGED vars
    BY <1>6 DEF vars, storeVars
  <1> QED BY <1>1, <1>2, <1>3, <1>4, <1>5, <1>6 DEF Next, Contract!PromiseNext

\* The in-memory store implements the promise of SessionStore.
THEOREM Implementation == Spec => KeepsThePromise
  <1>1. Init => Contract!PromiseInit
    BY DEF Init, Contract!PromiseInit
  <1>2. Init => IInv
    BY IInvInit
  <1>3. IInv /\ [Next]_vars => IInv'
    BY IInvStep
  <1>4. IInv /\ [Next]_vars => [Contract!PromiseNext]_<<now, map, since, gone>>
    BY StepKeepsThePromise
  <1> QED BY <1>1, <1>2, <1>3, <1>4, PTL DEF Spec, KeepsThePromise, Contract!Promise

-----------------------------------------------------------------------------
\* How late the timers of a time to live can be, one after another.
Late(ttl) == Lag * (ttl \div Chunk + 1)

\* When the value under k is gone at the latest.
Limit(k) == since[k] + AtLeastOne(Ttl) + Late(Ttl)

\* An entry expires, and one with a refresh timer still will, by its limit.
TimelyAt(k) ==
    /\ now <= expiry[k] + Lag
    /\ IF k \in refreshTimers
         THEN /\ refresh[k].left > 0
              /\ refresh[k].due + refresh[k].left + Late(refresh[k].left) + Lag <= Limit(k)
         ELSE expiry[k] + Lag <= Limit(k)

Timely == \A k \in Entries : TimelyAt(k)

LEMMA LateType ==
  ASSUME NEW ttl \in Nat
  PROVE  Late(ttl) \in Nat /\ Late(ttl) >= Lag
  <1>1. ttl \div Chunk \in Nat
    BY ChunkAssumption
  <1>2. \A q \in Nat : Lag * (q + 1) = Lag * q + Lag /\ Lag * q \in Nat
    BY LagAssumption
  <1> QED BY <1>1, <1>2, LagAssumption DEF Late

\* A chunk less is a timer less.
LEMMA LateChunk ==
  ASSUME NEW ttl \in Nat, ttl > Chunk
  PROVE  Late(ttl) = Late(ttl - Chunk) + Lag
  <1>1. (ttl - Chunk) \div Chunk = ttl \div Chunk - 1 /\ ttl \div Chunk \in Nat
    BY ChunkAssumption
  <1>2. (ttl - Chunk) \div Chunk \in Nat
    BY ChunkAssumption
  <1>3. \A q \in Nat : Lag * (q + 1) = Lag * q + Lag /\ Lag * q \in Nat
    BY LagAssumption
  <1>4. ttl \div Chunk + 1 = ((ttl - Chunk) \div Chunk + 1) + 1
    BY <1>1
  <1> QED BY <1>2, <1>3, <1>4, LagAssumption DEF Late

\* What storing does to an entry: it is due after a chunk, or at its end.
LEMMA ScheduleSetTimers ==
  ASSUME TypeOK, NEW k \in Keys, NEW v \in Values, NEW ttl \in Nat, NEW removed,
         ScheduleSet(k, v, ttl, removed)
  PROVE  IF ttl > Chunk
           THEN /\ k \in refreshTimers' /\ expiry'[k] >= now
                /\ refresh'[k].due = now + Chunk /\ refresh'[k].left = ttl - Chunk
           ELSE k \notin refreshTimers' /\ expiry'[k] = now + AtLeastOne(ttl)
  <1>1. expiry'[k] = now + ChunkLife(ttl) /\ now \in Nat
    BY DEF ScheduleSet, TypeOK
  <1>2. CASE ttl > Chunk
    <2>1. refresh'[k] = [due |-> now + Chunk, left |-> ttl - Chunk, value |-> v]
      BY <1>2 DEF ScheduleSet, Left
    <2>2. k \in refreshTimers'
      BY <1>2, ChunkAssumption DEF ScheduleSet
    <2>3. expiry'[k] >= now
      BY <1>1, <1>2, ChunkAssumption, MarginAssumption DEF ChunkLife
    <2> QED BY <1>2, <2>1, <2>2, <2>3
  <1>3. CASE ~(ttl > Chunk)
    <2>1. ttl <= Chunk
      BY <1>3, ChunkAssumption
    <2> QED BY <1>1, <1>3, <2>1 DEF ScheduleSet, ChunkLife
  <1> QED BY <1>2, <1>3

\* The others keep their timers.
LEMMA ScheduleSetOthers ==
  ASSUME NEW k \in Keys, NEW v \in Values, NEW ttl, NEW removed,
         ScheduleSet(k, v, ttl, removed), NEW x \in Entries', x # k
  PROVE  /\ x \in Entries /\ x \in Keys
         /\ expiry'[x] = expiry[x] /\ refresh'[x] = refresh[x]
         /\ (x \in refreshTimers' <=> x \in refreshTimers)
  <1>1. x \in Keys /\ x \notin removed /\ x \in Entries
    BY DEF ScheduleSet, Entries
  <1> QED BY <1>1 DEF ScheduleSet, Kept

LEMMA TimelySet ==
  ASSUME IInv, Timely, NEW k \in Keys, NEW v \in Values, Set(k, v)
  PROVE  Timely'
  <1>1. PICK removed : ScheduleSet(k, v, Ttl, removed)
    BY DEF Set
  <1>2. now' = now /\ since' = [since EXCEPT ![k] = now] /\ now \in Nat /\ since \in [Keys -> Nat]
    BY DEF Set, IInv, TypeOK
  <1> SUFFICES ASSUME NEW x \in Entries' PROVE TimelyAt(x)'
    BY DEF Timely
  <1>3. CASE x # k
    <2>1. /\ x \in Entries /\ x \in Keys
          /\ expiry'[x] = expiry[x] /\ refresh'[x] = refresh[x]
          /\ (x \in refreshTimers' <=> x \in refreshTimers)
      BY <1>1, <1>3, ScheduleSetOthers
    <2>2. since'[x] = since[x]
      BY <1>2, <1>3
    <2> QED BY <1>2, <2>1, <2>2 DEF Timely, TimelyAt, Limit
  <1>4. CASE x = k
    <2>1. since'[k] = now
      BY <1>2
    <2>2. Late(Ttl) \in Nat /\ Late(Ttl) >= Lag
      BY LateType, TtlAssumption
    <2>3. CASE Ttl > Chunk
      <3>1. /\ k \in refreshTimers' /\ expiry'[k] >= now
            /\ refresh'[k].due = now + Chunk /\ refresh'[k].left = Ttl - Chunk
        BY <1>1, <2>3, ScheduleSetTimers, TtlAssumption DEF IInv
      <3>2. Late(Ttl) = Late(Ttl - Chunk) + Lag /\ Late(Ttl - Chunk) \in Nat
        BY <2>3, LateChunk, LateType, TtlAssumption, ChunkAssumption
      <3>3. AtLeastOne(Ttl) = Ttl /\ Ttl - Chunk > 0
        BY <2>3, TtlAssumption, ChunkAssumption DEF AtLeastOne
      <3>4. now + Chunk + (Ttl - Chunk) + Late(Ttl - Chunk) + Lag <= now + Ttl + Late(Ttl)
        BY <1>2, <3>2, TtlAssumption, ChunkAssumption, LagAssumption
      <3>5. now <= expiry'[k] + Lag
        <4>1. expiry'[k] \in Nat
          BY IInvSet DEF IInv, TypeOK
        <4> QED BY <1>2, <3>1, <4>1, LagAssumption
      <3> QED BY <1>2, <1>4, <2>1, <3>1, <3>3, <3>4, <3>5 DEF TimelyAt, Limit
    <2>4. CASE ~(Ttl > Chunk)
      <3>1. k \notin refreshTimers' /\ expiry'[k] = now + AtLeastOne(Ttl)
        BY <1>1, <2>4, ScheduleSetTimers, TtlAssumption DEF IInv
      <3>2. AtLeastOne(Ttl) \in Nat
        BY TtlAssumption DEF AtLeastOne
      <3>3. now <= expiry'[k] + Lag /\ expiry'[k] + Lag <= now + AtLeastOne(Ttl) + Late(Ttl)
        BY <1>2, <2>2, <3>1, <3>2, LagAssumption
      <3> QED BY <1>2, <1>4, <2>1, <3>1, <3>3 DEF TimelyAt, Limit
    <2> QED BY <2>3, <2>4
  <1> QED BY <1>3, <1>4

\* A refresh that is late by Lag leaves one timer fewer that can be late.
LEMMA TimelyRefresh ==
  ASSUME IInv, Timely, NEW k \in Keys, RefreshFires(k)
  PROVE  Timely'
  <1>1. k \in refreshTimers /\ k \in Entries /\ RefreshInTime(k) /\ TimelyAt(k)
    BY DEF RefreshFires, IInv, TypeOK, TimerInv, Timely
  <1>2. ScheduleSet(k, refresh[k].value, refresh[k].left, {})
    BY <1>1, OverwriteEvictsNone DEF RefreshFires, IInv
  <1>3. UNCHANGED <<now, since>> /\ refresh[k].value \in Values
    BY <1>1 DEF RefreshFires, RefreshInTime, Entries, IInv, TypeOK
  <1>4. /\ refresh[k].left \in Nat /\ refresh[k].due \in Nat
        /\ now \in Nat /\ since[k] \in Nat /\ Lag \in Nat /\ Chunk \in Nat /\ Margin \in Nat
        /\ AtLeastOne(Ttl) \in Nat
    BY LagAssumption, ChunkAssumption, MarginAssumption, TtlAssumption
       DEF IInv, TypeOK, Refresh, AtLeastOne
  <1>5. Late(refresh[k].left) \in Nat /\ Late(refresh[k].left) >= Lag /\ Late(Ttl) \in Nat
    BY <1>4, LateType, TtlAssumption
  <1>6. Limit(k) \in Nat /\ Limit(k)' = Limit(k)
    BY <1>3, <1>4, <1>5 DEF Limit
  <1>7. /\ now <= refresh[k].due + Lag /\ refresh[k].left > 0
        /\ refresh[k].due + refresh[k].left + Late(refresh[k].left) + Lag <= Limit(k)
    BY <1>1 DEF RefreshInTime, TimelyAt
  <1> SUFFICES ASSUME NEW x \in Entries' PROVE TimelyAt(x)'
    BY DEF Timely
  <1>8. CASE x # k
    <2>1. /\ x \in Entries /\ x \in Keys
          /\ expiry'[x] = expiry[x] /\ refresh'[x] = refresh[x]
          /\ (x \in refreshTimers' <=> x \in refreshTimers)
      BY <1>2, <1>3, <1>8, ScheduleSetOthers
    <2> QED BY <1>3, <2>1 DEF Timely, TimelyAt, Limit
  <1>9. CASE x = k
    <2>1. CASE refresh[k].left > Chunk
      <3>1. /\ k \in refreshTimers' /\ expiry'[k] >= now
            /\ refresh'[k].due = now + Chunk /\ refresh'[k].left = refresh[k].left - Chunk
        BY <1>2, <1>3, <1>4, <2>1, ScheduleSetTimers DEF IInv
      <3>2. /\ Late(refresh[k].left) = Late(refresh[k].left - Chunk) + Lag
            /\ Late(refresh[k].left - Chunk) \in Nat
            /\ refresh[k].left - Chunk > 0
        BY <1>4, <2>1, LateChunk, LateType
      <3>3. now + Chunk + (refresh[k].left - Chunk) + Late(refresh[k].left - Chunk) + Lag <= Limit(k)
        BY <1>4, <1>5, <1>6, <1>7, <3>2
      <3>4. now <= expiry'[k] + Lag
        <4>1. expiry'[k] \in Nat
          BY IInvRefresh DEF IInv, TypeOK
        <4> QED BY <1>4, <3>1, <4>1
      <3> QED BY <1>3, <1>6, <1>9, <3>1, <3>2, <3>3, <3>4 DEF TimelyAt
    <2>2. CASE ~(refresh[k].left > Chunk)
      <3>1. k \notin refreshTimers' /\ expiry'[k] = now + refresh[k].left
        BY <1>2, <1>3, <1>4, <1>7, <2>2, ScheduleSetTimers DEF IInv, AtLeastOne
      <3>2. now <= expiry'[k] + Lag /\ expiry'[k] + Lag <= Limit(k)
        BY <1>4, <1>5, <1>6, <1>7, <3>1
      <3> QED BY <1>3, <1>6, <1>9, <3>1, <3>2 DEF TimelyAt
    <2> QED BY <2>1, <2>2
  <1> QED BY <1>8, <1>9

LEMMA TimelyDelete ==
  ASSUME IInv, Timely, NEW k \in Entries, MapDelete(k), UNCHANGED <<now, since>>
  PROVE  Timely'
  <1> SUFFICES ASSUME NEW x \in Entries' PROVE TimelyAt(x)'
    BY DEF Timely
  <1>1. x \in Entries /\ x # k /\ x \in Keys
    BY DEF MapDelete, Entries, IInv, TypeOK
  <1>2. expiry'[x] = expiry[x] /\ refresh'[x] = refresh[x] /\ (x \in refreshTimers' <=> x \in refreshTimers)
    BY <1>1 DEF MapDelete, Kept, IInv, TypeOK
  <1> QED BY <1>1, <1>2 DEF Timely, TimelyAt, Limit

LEMMA TimelyTick ==
  ASSUME IInv, Timely, Tick
  PROVE  Timely'
  <1>1. UNCHANGED <<map, expiry, refreshTimers, refresh, since>> /\ now' = now + 1 /\ now \in Nat
    BY DEF Tick, storeVars, IInv, TypeOK
  <1> SUFFICES ASSUME NEW x \in Entries' PROVE TimelyAt(x)'
    BY DEF Timely
  <1>2. x \in Entries /\ x \in Keys /\ x \in timeouts
    BY <1>1 DEF Entries, IInv, TypeOK
  <1>3. now < expiry[x] + Lag /\ expiry[x] \in Nat
    BY <1>2 DEF Tick, IInv, TypeOK
  <1>4. now' <= expiry[x] + Lag
    BY <1>1, <1>3, LagAssumption
  <1> QED BY <1>1, <1>2, <1>4 DEF Timely, TimelyAt, Limit

LEMMA TimelyStep ==
  ASSUME IInv, Timely, [Next]_vars
  PROVE  Timely'
  <1>1. ASSUME NEW k \in Keys, Remove(k) \/ ExpiryFires(k) PROVE Timely'
    <2>1. k \in Entries
      BY <1>1 DEF Remove, ExpiryFires, IInv, TypeOK
    <2> QED BY <1>1, <2>1, TimelyDelete DEF Remove, ExpiryFires
  <1>2. CASE UNCHANGED vars
    BY <1>2 DEF vars, storeVars, Timely, TimelyAt, Limit, Entries
  <1> QED BY <1>1, <1>2, TimelySet, TimelyRefresh, TimelyTick DEF Next

LEMMA TimelyIsInTime ==
  ASSUME IInv, Timely
  PROVE  GoesInTime
  <1> SUFFICES ASSUME NEW k \in Entries PROVE now <= Limit(k)
    BY DEF GoesInTime, Limit, Overdue, Late
  <1>1. k \in Keys /\ TimelyAt(k)
    BY DEF Entries, Timely
  <1>2. /\ refresh[k].left \in Nat /\ refresh[k].due \in Nat
        /\ now \in Nat /\ since[k] \in Nat /\ expiry[k] \in Nat /\ AtLeastOne(Ttl) \in Nat
    BY <1>1, TtlAssumption DEF IInv, TypeOK, Refresh, AtLeastOne
  <1>3. Limit(k) \in Nat /\ Late(refresh[k].left) \in Nat
    BY <1>2, LateType, TtlAssumption DEF Limit
  <1>4. CASE k \in refreshTimers
    <2>1. now <= refresh[k].due + Lag
      BY <1>4 DEF IInv, TimerInv, RefreshInTime
    <2> QED BY <1>1, <1>2, <1>3, <1>4, <2>1, LagAssumption DEF TimelyAt
  <1>5. CASE k \notin refreshTimers
    BY <1>1, <1>2, <1>3, <1>5, LagAssumption DEF TimelyAt
  <1> QED BY <1>4, <1>5

\* A value outlives its time to live by no more than one late timer per chunk, however often
\* it is stored again (InMemorySessionStore.scheduleSet and its refresh callback).
THEOREM GoneInTime == Spec => []GoesInTime
  <1>1. Init => IInv /\ Timely
    <2>1. Init => Entries = {}
      BY DEF Init, Entries
    <2> QED BY <2>1, IInvInit DEF Timely
  <1>2. IInv /\ Timely /\ [Next]_vars => (IInv /\ Timely)'
    BY IInvStep, TimelyStep
  <1>3. IInv /\ Timely => GoesInTime
    BY TimelyIsInTime
  <1> QED BY <1>1, <1>2, <1>3, PTL DEF Spec
=============================================================================
