---------------------------- MODULE SessionStore ----------------------------
(***************************************************************************)
(* What a session store promises (sessionStore.ts): it holds the value set *)
(* last under a key until a caller deletes or consumes it, until the time  *)
(* to live of its namespace has passed, or until a store with a size limit *)
(* gives the place to a new key.  The promise is what the OAuth endpoints  *)
(* build on, whatever timers the provider uses to keep it.                 *)
(***************************************************************************)
EXTENDS Naturals, FiniteSets

CONSTANTS
    Keys,
    Values,
    NoValue,      \* undefined
    Ttl,          \* ttlMs
    MaxSize       \* maxSize


VARIABLES
    now,          \* the time
    held,         \* held[k]: the value under k, or NoValue
    since,        \* since[k]: when the value under k was set
    gone          \* gone[k]: how the last value under k went, if it did

Entries == {k \in Keys : held[k] # NoValue}

PromiseInit ==
    /\ now = 0
    /\ held = [k \in Keys |-> NoValue]
    /\ since = [k \in Keys |-> 0]
    /\ gone = [k \in Keys |-> ""]

TimePasses ==
    /\ now' = now + 1
    /\ UNCHANGED <<held, since, gone>>

Hold(k, v) ==
    /\ Cardinality(Entries \union {k}) <= MaxSize
    /\ held' = [held EXCEPT ![k] = v]
    /\ gone' = [gone EXCEPT ![k] = ""]

\* A full store gives the place of one other key to a new one.
Replace(k, v, x) ==
    /\ k \notin Entries /\ x \in Entries
    /\ Cardinality(Entries \union {k}) > MaxSize
    /\ held' = [held EXCEPT ![k] = v, ![x] = NoValue]
    /\ gone' = [gone EXCEPT ![k] = "", ![x] = "evicted"]

Put(k, v) ==
    /\ Hold(k, v) \/ \E x \in Keys : Replace(k, v, x)
    /\ since' = [since EXCEPT ![k] = now]
    /\ UNCHANGED now

Drop(k, reason) ==
    /\ k \in Entries
    /\ held' = [held EXCEPT ![k] = NoValue]
    /\ gone' = [gone EXCEPT ![k] = reason]
    /\ UNCHANGED <<now, since>>

Lapse(k) ==
    /\ now >= since[k] + Ttl
    /\ Drop(k, "expired")

PromiseNext ==
    \/ TimePasses
    \/ \E k \in Keys :
        \/ \E v \in Values : Put(k, v)
        \/ Drop(k, "removed")
        \/ Lapse(k)

Promise == PromiseInit /\ [][PromiseNext]_<<now, held, since, gone>>
=============================================================================
