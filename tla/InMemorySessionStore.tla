------------------------ MODULE InMemorySessionStore ------------------------
(***************************************************************************)
(* The in-memory session store: an ExpiringMap, whose entries each have    *)
(* one expiry timer, and beside it one refresh timer for every entry whose *)
(* time to live is longer than a timer can be.  Such an entry is stored    *)
(* for Chunk + Margin and stored again after Chunk with what is left.      *)
(*                                                                         *)
(* Timers fire when they are due or up to Lag later, and of two that are   *)
(* due either may be first: Node runs them by the lists of equal delay     *)
(* they are in, and a process that was busy finds several due at once.     *)
(***************************************************************************)
EXTENDS Naturals, FiniteSets

CONSTANTS
    Keys,
    Values,
    NoValue,      \* undefined
    Ttl,          \* ttlMs
    MaxSize,      \* maxSize, at least the number of keys for no limit
    Chunk,        \* CHUNK_MS
    Margin,       \* REFRESH_MARGIN_MS
    Lag,          \* how late a timer may fire
    MaxTime       \* bound: the time to explore

ASSUME KeysAssumption == IsFiniteSet(Keys)
ASSUME NoValueAssumption == NoValue \notin Values
ASSUME TtlAssumption == Ttl \in Nat
ASSUME MaxSizeAssumption == MaxSize \in Nat \ {0}
ASSUME ChunkAssumption == Chunk \in Nat \ {0}
ASSUME MarginAssumption == Margin \in Nat
ASSUME LagAssumption == Lag \in Nat /\ Lag < Margin
ASSUME MaxTimeAssumption == MaxTime \in Nat

VARIABLES
    now,          \* the time
    map,          \* map[k]: the value in the ExpiringMap, or NoValue
    older,        \* <<x, y>>: x was inserted before y
    timeouts,     \* the keys with an expiry timer
    expiry,       \* expiry[k]: when it is due
    refreshTimers,\* the keys with a refresh timer
    refresh,      \* refresh[k]: when it is due and what its callback stores
    since,        \* since[k]: when a caller set the value under k
    gone          \* gone[k]: how the last value under k went, if it did

storeVars == <<map, older, timeouts, expiry, refreshTimers, refresh>>
vars == <<now, storeVars, since, gone>>

Entries == {k \in Keys : map[k] # NoValue}

NoRefresh == [due |-> 0, left |-> 0, value |-> NoValue]
Refresh == [due : Nat, left : Nat, value : Values \union {NoValue}]

\* The type, and that the timers are those of the entries: no entry is left
\* without its expiry timer and no timer survives its entry.
TypeOK ==
    /\ now \in Nat
    /\ map \in [Keys -> Values \union {NoValue}]
    /\ older \subseteq Entries \X Entries
    /\ timeouts = Entries
    /\ expiry \in [Keys -> Nat]
    /\ refreshTimers \subseteq Entries
    /\ refresh \in [Keys -> Refresh]
    /\ since \in [Keys -> Nat]
    /\ gone \in [Keys -> {"", "removed", "evicted", "expired"}]

Init ==
    /\ now = 0
    /\ map = [k \in Keys |-> NoValue]
    /\ older = {}
    /\ timeouts = {}
    /\ expiry = [k \in Keys |-> 0]
    /\ refreshTimers = {}
    /\ refresh = [k \in Keys |-> NoRefresh]
    /\ since = [k \in Keys |-> 0]
    /\ gone = [k \in Keys |-> ""]

-----------------------------------------------------------------------------
AtLeastOne(n) == IF n = 0 THEN 1 ELSE n

\* Mutant: the timers of a removed key are left armed.
KeptAll(timers, removed) == timers

\* ExpiringMap.delete clears the expiry timer of the key and its onDelete hook
\* the store's refresh timer.
Kept(timers, removed) == timers \ removed

\* ExpiringMap.set keeps the place of a key it overwrites.
Inserted(k) == IF k \in Entries THEN older ELSE older \union (Entries \X {k})

\* Mutant: the new key is not counted.
SurplusLate(k) ==
    IF Cardinality(Entries) > MaxSize
      THEN {{x} : x \in {y \in Entries \union {k} : \A z \in Entries : <<z, y>> \notin Inserted(k)}}
      ELSE {{}}

\* The first key of the map, if the new key exceeds the limit.
Surplus(k) ==
    IF Cardinality(Entries \union {k}) > MaxSize
      THEN {{x} : x \in {y \in Entries \union {k} : \A z \in Entries : <<z, y>> \notin Inserted(k)}}
      ELSE {{}}

\* Mutant: a chunk is stored for no longer than it takes to refresh it.
ChunkLifeBare(ttl) == IF ttl <= Chunk THEN AtLeastOne(ttl) ELSE Chunk

\* What scheduleSet gives ExpiringMap.set as the time to expiry.
ChunkLife(ttl) == IF ttl <= Chunk THEN AtLeastOne(ttl) ELSE Chunk + Margin

\* Mutant: every chunk starts the time to live again.
LeftWhole(ttl) == ttl

\* What the refresh of a chunk still has to provide.
Left(ttl) == ttl - Chunk

\* scheduleSet, and the ExpiringMap.set it calls; removed is what that evicts.
ScheduleSet(k, v, ttl, removed) ==
    /\ map' = [x \in Keys |-> IF x = k THEN v ELSE IF x \in removed THEN NoValue ELSE map[x]]
    /\ older' = {p \in Inserted(k) : p[1] \notin removed /\ p[2] \notin removed}
    /\ timeouts' = Kept(timeouts, removed) \union {k}
    /\ expiry' = [x \in Keys |-> IF x = k THEN now + ChunkLife(ttl)
                                 ELSE IF x \in removed THEN 0 ELSE expiry[x]]
    /\ refreshTimers' = (Kept(refreshTimers, removed) \ {k})
                          \union (IF ttl <= Chunk THEN {} ELSE {k})
    /\ refresh' = [x \in Keys |->
                     IF x = k /\ ttl > Chunk
                       THEN [due |-> now + Chunk, left |-> Left(ttl), value |-> v]
                     ELSE IF x \in removed \union {k} THEN NoRefresh ELSE refresh[x]]

MapDelete(k) ==
    /\ map' = [map EXCEPT ![k] = NoValue]
    /\ older' = {p \in older : p[1] # k /\ p[2] # k}
    /\ timeouts' = timeouts \ {k}
    /\ expiry' = [expiry EXCEPT ![k] = 0]
    /\ refreshTimers' = Kept(refreshTimers, {k})
    /\ refresh' = [refresh EXCEPT ![k] = NoRefresh]

-----------------------------------------------------------------------------
Set(k, v) ==
    /\ \E removed \in Surplus(k) :
        /\ ScheduleSet(k, v, Ttl, removed)
        /\ gone' = [x \in Keys |-> IF x = k THEN "" ELSE IF x \in removed THEN "evicted" ELSE gone[x]]
    /\ since' = [since EXCEPT ![k] = now]
    /\ UNCHANGED now

\* delete and consume: there is no await between the read and the deletion.
Remove(k) ==
    /\ k \in Entries
    /\ MapDelete(k)
    /\ gone' = [gone EXCEPT ![k] = "removed"]
    /\ UNCHANGED <<now, since>>

ExpiryFires(k) ==
    /\ k \in timeouts /\ expiry[k] <= now
    /\ MapDelete(k)
    /\ gone' = [gone EXCEPT ![k] = "expired"]
    /\ UNCHANGED <<now, since>>

\* The refresh callback; it stores only what the map still has.
RefreshFires(k) ==
    /\ k \in refreshTimers /\ refresh[k].due <= now
    /\ IF k \in Entries
         THEN \E removed \in Surplus(k) : ScheduleSet(k, refresh[k].value, refresh[k].left, removed)
         ELSE /\ refreshTimers' = refreshTimers \ {k}
              /\ refresh' = [refresh EXCEPT ![k] = NoRefresh]
              /\ UNCHANGED <<map, older, timeouts, expiry>>
    /\ UNCHANGED <<now, since, gone>>

\* No timer is later than Lag.
Tick ==
    /\ now < MaxTime
    /\ \A k \in timeouts : now < expiry[k] + Lag
    /\ \A k \in refreshTimers : now < refresh[k].due + Lag
    /\ now' = now + 1
    /\ UNCHANGED <<storeVars, since, gone>>

Next ==
    \/ Tick
    \/ \E k \in Keys :
        \/ \E v \in Values : Set(k, v)
        \/ Remove(k)
        \/ ExpiryFires(k)
        \/ RefreshFires(k)

Spec == Init /\ [][Next]_vars

-----------------------------------------------------------------------------
\* Properties.

Contract == INSTANCE SessionStore WITH held <- map

\* The chunks and their timers implement the promise: no value goes before its
\* time to live, none comes back, none but the value set last is held, and the
\* limit takes one other key for a new one.
KeepsThePromise == Contract!Promise

\* A value outlives its time to live by no more than one late timer per chunk.
Overdue == Lag * (Ttl \div Chunk + 1)
GoesInTime == \A k \in Entries : now <= since[k] + AtLeastOne(Ttl) + Overdue
=============================================================================
