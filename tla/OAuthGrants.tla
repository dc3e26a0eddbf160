---------------------------- MODULE OAuthGrants ----------------------------
(***************************************************************************)
(* The embedded authorization server: its request handlers and the session *)
(* stores they share.  A handler runs from one await to the next, and any  *)
(* other handler may run in between.  Every key a handler makes up (the    *)
(* state of a sign-in, an authorization code, a refresh token) and every   *)
(* Tableau session it is given is named after the handler, which makes at  *)
(* most one of each.  The stores keep the promise of SessionStore: consume *)
(* is atomic, an entry lapses, and the call of a remote store may fail     *)
(* before or after it took effect.                                         *)
(*                                                                         *)
(* A grant is what one sign-in gave: an authorization code, then the       *)
(* refresh token it was redeemed for, then each token that was rotated to. *)
(***************************************************************************)
EXTENDS Naturals

CONSTANTS
    Handlers,     \* the request handlers
    Request,      \* Request[h]: the endpoint and grant type h serves
    None          \* undefined

Requests == {"authorize", "callback", "code", "refresh", "revoke-refresh", "revoke-access"}

ASSUME RequestAssumption == Request \in [Handlers -> Requests]
ASSUME NoneAssumption == None \notin Handlers

VARIABLES
    pendingAuthorizations,
    authorizationCodes,
    refreshTokens,
    refreshTokenIndex, \* Tableau session -> refresh token, or None
    data,         \* data[h]: the grant and Tableau session stored with the key of h
    pc,           \* pc[h]: where handler h is
    arg,          \* arg[h]: the state, code or token in the request
    local,        \* local[h]: the grant and session h took from a store
    fresh,        \* fresh[h]: the Tableau session h stores
    reply,        \* reply[h]: what h answered
    revoked,      \* grants whose code or token a revocation removed
    dropped       \* sessions whose index entry lapsed or was revoked

stores == <<pendingAuthorizations, authorizationCodes, refreshTokens, refreshTokenIndex, data>>
handlerVars == <<pc, arg, local, fresh, reply>>
vars == <<stores, handlerVars, revoked, dropped>>

Data == [grant : Handlers \union {None}, session : Handlers \union {None}]
NoData == [grant |-> None, session |-> None]
Whole(d) == d.grant \in Handlers /\ d.session \in Handlers

Steps == {"idle", "signing-in", "issuing", "cleaning", "minting", "indexing", "exchanging",
          "unindexing", "reindexing", "storing", "deleting", "forgetting", "done"}

\* Types; and what is stored with a code or a token names a grant and a session.
TypeOK ==
    /\ pendingAuthorizations \subseteq Handlers
    /\ authorizationCodes \subseteq Handlers
    /\ refreshTokens \subseteq Handlers
    /\ refreshTokenIndex \in [Handlers -> Handlers \union {None}]
    /\ data \in [Handlers -> Data]
    /\ pc \in [Handlers -> Steps]
    /\ arg \in [Handlers -> Handlers \union {None}]
    /\ local \in [Handlers -> Data]
    /\ fresh \in [Handlers -> Handlers \union {None}]
    /\ reply \in [Handlers -> {"", "redirect", "tokens", "refused", "ok", "error"}]
    /\ revoked \subseteq Handlers
    /\ dropped \subseteq Handlers
    /\ \A x \in authorizationCodes \union refreshTokens : Whole(data[x])

Init ==
    /\ pendingAuthorizations = {}
    /\ authorizationCodes = {}
    /\ refreshTokens = {}
    /\ refreshTokenIndex = [s \in Handlers |-> None]
    /\ data = [h \in Handlers |-> NoData]
    /\ pc = [h \in Handlers |-> "idle"]
    /\ arg = [h \in Handlers |-> None]
    /\ local = [h \in Handlers |-> NoData]
    /\ fresh = [h \in Handlers |-> None]
    /\ reply = [h \in Handlers |-> ""]
    /\ revoked = {}
    /\ dropped = {}

-----------------------------------------------------------------------------
\* What a client can send: what it was sent.

IsDone(h, request, answer) == Request[h] = request /\ reply[h] = answer

HasTokens(h) == Request[h] \in {"code", "refresh"} /\ reply[h] = "tokens"

Known(h, x) ==
    CASE Request[h] = "callback" -> IsDone(x, "authorize", "redirect")
      [] Request[h] = "code"     -> IsDone(x, "callback", "redirect")
      [] Request[h] \in {"refresh", "revoke-refresh"} -> HasTokens(x)
      [] Request[h] = "revoke-access" -> \E t \in Handlers : HasTokens(t) /\ fresh[t] = x
      [] OTHER -> FALSE

Goto(h, step) == pc' = [pc EXCEPT ![h] = step] /\ UNCHANGED reply

Answer(h, answer) ==
    /\ pc' = [pc EXCEPT ![h] = "done"]
    /\ reply' = [reply EXCEPT ![h] = answer]

\* The handler's last call to a store has taken effect; it may still fail.
Finish(h, answer) == Answer(h, answer) \/ Answer(h, "error")

Receive(h, request, x) ==
    /\ pc[h] = "idle" /\ Request[h] = request
    /\ Known(h, x)
    /\ arg' = [arg EXCEPT ![h] = x]

\* A request that does not pass the checks at the top of a handler.
Reject(h) ==
    /\ pc[h] = "idle"
    /\ Answer(h, "refused")
    /\ UNCHANGED <<stores, arg, local, fresh, revoked, dropped>>

-----------------------------------------------------------------------------
\* authorize.ts

Authorize(h) ==
    /\ pc[h] = "idle" /\ Request[h] = "authorize"
    /\ pendingAuthorizations' = pendingAuthorizations \union {h}
    /\ Finish(h, "redirect")
    /\ UNCHANGED <<authorizationCodes, refreshTokens, refreshTokenIndex, data,
                   arg, local, fresh, revoked, dropped>>

\* callback.ts

Callback(h) ==
    /\ \E x \in Handlers :
        /\ Receive(h, "callback", x)
        /\ \/ x \in pendingAuthorizations /\ Goto(h, "signing-in")
           \/ x \notin pendingAuthorizations /\ Answer(h, "refused")
    /\ UNCHANGED <<stores, local, fresh, revoked, dropped>>

\* Mutant: the handler goes on without the session Tableau did not report.
SignInUnchecked(h) ==
    /\ pc[h] = "signing-in"
    /\ \E session \in {h, None} : fresh' = [fresh EXCEPT ![h] = session]
    /\ Goto(h, "issuing")
    /\ UNCHANGED <<stores, arg, local, revoked, dropped>>

\* Tableau exchanges its code and reports the session; or refuses, or the
\* server or the site is not the configured one.
SignIn(h) ==
    /\ pc[h] = "signing-in"
    /\ \/ /\ fresh' = [fresh EXCEPT ![h] = h]
          /\ Goto(h, "issuing")
       \/ /\ Answer(h, "refused")
          /\ UNCHANGED fresh
    /\ UNCHANGED <<stores, arg, local, revoked, dropped>>

IssueCode(h) ==
    /\ pc[h] = "issuing"
    /\ authorizationCodes' = authorizationCodes \union {h}
    /\ data' = [data EXCEPT ![h] = [grant |-> h, session |-> fresh[h]]]
    /\ Goto(h, "cleaning")
    /\ UNCHANGED <<pendingAuthorizations, refreshTokens, refreshTokenIndex,
                   arg, local, fresh, revoked, dropped>>

CleanUp(h) ==
    /\ pc[h] = "cleaning"
    /\ pendingAuthorizations' = pendingAuthorizations \ {arg[h]}
    /\ Finish(h, "redirect")
    /\ UNCHANGED <<authorizationCodes, refreshTokens, refreshTokenIndex, data,
                   arg, local, fresh, revoked, dropped>>

-----------------------------------------------------------------------------
\* token.ts, authorization_code

\* Mutant: the code is read first and deleted when the tokens have been stored.
ConsumeCodeLater(h) ==
    /\ \E x \in Handlers :
        /\ Receive(h, "code", x)
        /\ \/ /\ x \in authorizationCodes
              /\ local' = [local EXCEPT ![h] = data[x]]
              /\ fresh' = [fresh EXCEPT ![h] = data[x].session]
              /\ Goto(h, "minting")
           \/ /\ Answer(h, "refused")
              /\ UNCHANGED <<local, fresh>>
    /\ UNCHANGED <<stores, revoked, dropped>>

\* A code that is expired or does not fit the request is refused, and is used up.
ConsumeCode(h) ==
    /\ \E x \in Handlers :
        /\ Receive(h, "code", x)
        /\ authorizationCodes' = authorizationCodes \ {x}
        /\ \/ /\ x \in authorizationCodes
              /\ local' = [local EXCEPT ![h] = data[x]]
              /\ fresh' = [fresh EXCEPT ![h] = data[x].session]
              /\ Goto(h, "minting")
           \/ /\ Answer(h, "refused")
              /\ UNCHANGED <<local, fresh>>
    /\ UNCHANGED <<pendingAuthorizations, refreshTokens, refreshTokenIndex, data, revoked, dropped>>

\* refreshTokens.set under a new key, with what the handler has.
StoreToken(h) ==
    /\ refreshTokens' = refreshTokens \union {h}
    /\ data' = [data EXCEPT ![h] = [grant |-> local[h].grant, session |-> fresh[h]]]

MintToken(h) ==
    /\ pc[h] = "minting"
    /\ StoreToken(h)
    /\ Goto(h, "indexing")
    /\ UNCHANGED <<pendingAuthorizations, authorizationCodes, refreshTokenIndex,
                   arg, local, fresh, revoked, dropped>>

\* refreshTokenIndex.set; the session is findable again.
IndexToken(h, session) ==
    /\ refreshTokenIndex' = [refreshTokenIndex EXCEPT ![session] = h]
    /\ dropped' = dropped \ {session}

IndexMinted(h) ==
    /\ pc[h] = "indexing"
    /\ IndexToken(h, fresh[h])
    /\ Finish(h, "tokens")
    /\ UNCHANGED <<pendingAuthorizations, authorizationCodes, refreshTokens, data,
                   arg, local, fresh, revoked>>

-----------------------------------------------------------------------------
\* token.ts, refresh_token

\* Mutant: the refresh token is read and stays until its successor is stored.
ConsumeTokenLater(h) ==
    /\ \E x \in Handlers :
        /\ Receive(h, "refresh", x)
        /\ \/ /\ x \in refreshTokens
              /\ local' = [local EXCEPT ![h] = data[x]]
              /\ Goto(h, "exchanging")
           \/ /\ x \notin refreshTokens
              /\ Answer(h, "refused")
              /\ UNCHANGED local
    /\ UNCHANGED <<stores, fresh, revoked, dropped>>

\* An expired token is consumed too, and its index entry deleted.
ConsumeToken(h) ==
    /\ \E x \in Handlers :
        /\ Receive(h, "refresh", x)
        /\ refreshTokens' = refreshTokens \ {x}
        /\ \/ /\ x \in refreshTokens
              /\ local' = [local EXCEPT ![h] = data[x]]
              /\ Goto(h, "exchanging") \/ Goto(h, "forgetting")
           \/ /\ x \notin refreshTokens
              /\ Answer(h, "refused")
              /\ UNCHANGED local
    /\ UNCHANGED <<pendingAuthorizations, authorizationCodes, refreshTokenIndex, data,
                   fresh, revoked, dropped>>

\* Tableau gives a new session; if it does not, the old one is kept.
Exchange(h) ==
    /\ pc[h] = "exchanging"
    /\ \E session \in {h, local[h].session} : fresh' = [fresh EXCEPT ![h] = session]
    /\ Goto(h, "unindexing")
    /\ UNCHANGED <<stores, arg, local, revoked, dropped>>

Unindex(h) ==
    /\ pc[h] = "unindexing"
    /\ refreshTokenIndex' = [refreshTokenIndex EXCEPT ![local[h].session] = None]
    /\ Goto(h, "reindexing")
    /\ UNCHANGED <<pendingAuthorizations, authorizationCodes, refreshTokens, data,
                   arg, local, fresh, revoked, dropped>>

\* Mutant: the rotated token is found under the session it replaced.
ReindexOld(h) ==
    /\ pc[h] = "reindexing"
    /\ IndexToken(h, local[h].session)
    /\ Goto(h, "storing")
    /\ UNCHANGED <<pendingAuthorizations, authorizationCodes, refreshTokens, data,
                   arg, local, fresh, revoked>>

Reindex(h) ==
    /\ pc[h] = "reindexing"
    /\ IndexToken(h, fresh[h])
    /\ Goto(h, "storing")
    /\ UNCHANGED <<pendingAuthorizations, authorizationCodes, refreshTokens, data,
                   arg, local, fresh, revoked>>

StoreRotated(h) ==
    /\ pc[h] = "storing"
    /\ StoreToken(h)
    /\ Finish(h, "tokens")
    /\ UNCHANGED <<pendingAuthorizations, authorizationCodes, refreshTokenIndex,
                   arg, local, fresh, revoked, dropped>>

-----------------------------------------------------------------------------
\* revoke.ts

RevokeToken(h) ==
    /\ \E x \in Handlers :
        /\ Receive(h, "revoke-refresh", x)
        /\ refreshTokens' = refreshTokens \ {x}
        /\ \/ /\ x \in refreshTokens
              /\ local' = [local EXCEPT ![h] = data[x]]
              /\ revoked' = revoked \union {data[x].grant}
              /\ Goto(h, "forgetting")
           \/ /\ x \notin refreshTokens
              /\ Answer(h, "ok")
              /\ UNCHANGED <<local, revoked>>
    /\ UNCHANGED <<pendingAuthorizations, authorizationCodes, refreshTokenIndex, data, fresh, dropped>>

\* The access token names its Tableau session; the index names the refresh token.
FindToken(h) ==
    /\ \E x \in Handlers :
        /\ Receive(h, "revoke-access", x)
        /\ \/ /\ refreshTokenIndex[x] # None
              /\ local' = [local EXCEPT ![h] = [grant |-> None, session |-> x]]
              /\ fresh' = [fresh EXCEPT ![h] = refreshTokenIndex[x]]
              /\ Goto(h, "deleting")
           \/ /\ refreshTokenIndex[x] = None
              /\ Answer(h, "ok")
              /\ UNCHANGED <<local, fresh>>
    /\ UNCHANGED <<stores, revoked, dropped>>

DeleteToken(h) ==
    /\ pc[h] = "deleting"
    /\ refreshTokens' = refreshTokens \ {fresh[h]}
    /\ revoked' = revoked \union {data[r].grant : r \in refreshTokens \intersect {fresh[h]}}
    /\ Goto(h, "forgetting")
    /\ UNCHANGED <<pendingAuthorizations, authorizationCodes, refreshTokenIndex, data,
                   arg, local, fresh, dropped>>

\* The last refreshTokenIndex.delete of a revocation, or of an expired token.
Forget(h) ==
    /\ pc[h] = "forgetting"
    /\ refreshTokenIndex' = [refreshTokenIndex EXCEPT ![local[h].session] = None]
    /\ dropped' = dropped \union {local[h].session}
    /\ Finish(h, IF Request[h] = "refresh" THEN "refused" ELSE "ok")
    /\ UNCHANGED <<pendingAuthorizations, authorizationCodes, refreshTokens, data,
                   arg, local, fresh, revoked>>

-----------------------------------------------------------------------------
\* Entries lapse; a call to a store, to Tableau or to the cipher fails.

Lapse(x) ==
    /\ \/ /\ x \in pendingAuthorizations
          /\ pendingAuthorizations' = pendingAuthorizations \ {x}
          /\ UNCHANGED <<authorizationCodes, refreshTokens, refreshTokenIndex, dropped>>
       \/ /\ x \in authorizationCodes
          /\ authorizationCodes' = authorizationCodes \ {x}
          /\ UNCHANGED <<pendingAuthorizations, refreshTokens, refreshTokenIndex, dropped>>
       \/ /\ x \in refreshTokens
          /\ refreshTokens' = refreshTokens \ {x}
          /\ UNCHANGED <<pendingAuthorizations, authorizationCodes, refreshTokenIndex, dropped>>
       \/ /\ refreshTokenIndex[x] # None
          /\ refreshTokenIndex' = [refreshTokenIndex EXCEPT ![x] = None]
          /\ dropped' = dropped \union {x}
          /\ UNCHANGED <<pendingAuthorizations, authorizationCodes, refreshTokens>>
    /\ UNCHANGED <<data, handlerVars, revoked>>

Fail(h) ==
    /\ pc[h] \notin {"idle", "done"}
    /\ Answer(h, "error")
    /\ UNCHANGED <<stores, arg, local, fresh, revoked, dropped>>

Serve(h) ==
    \/ Reject(h) \/ Fail(h)
    \/ Authorize(h) \/ Callback(h) \/ SignIn(h) \/ IssueCode(h) \/ CleanUp(h)
    \/ ConsumeCode(h) \/ MintToken(h) \/ IndexMinted(h)
    \/ ConsumeToken(h) \/ Exchange(h) \/ Unindex(h) \/ Reindex(h) \/ StoreRotated(h)
    \/ RevokeToken(h) \/ FindToken(h) \/ DeleteToken(h) \/ Forget(h)

Next == \E h \in Handlers : Serve(h) \/ Lapse(h)

Spec == Init /\ [][Next]_vars

-----------------------------------------------------------------------------
\* Properties.

\* What a grant can still be continued from: its code, a refresh token, or the
\* handler that has consumed one and not yet stored the next.
Carrying(h) == pc[h] \in {"minting", "exchanging", "unindexing", "reindexing", "storing"}

Carriers(g) ==
    {<<"code", c>> : c \in {c \in authorizationCodes : data[c].grant = g}}
      \union {<<"token", r>> : r \in {r \in refreshTokens : data[r].grant = g}}
      \union {<<"handler", h>> : h \in {h \in Handlers : Carrying(h) /\ local[h].grant = g}}

\* A code or a refresh token is redeemed once: a grant never forks, however its
\* redemptions, rotations and revocations interleave.
GrantNeverForks == \A g \in Handlers : \A x, y \in Carriers(g) : x = y

\* When a revocation has removed the token of a grant nothing continues the
\* grant: no handler under way stores a token of it later.
RevokedStaysRevoked == \A g \in revoked : Carriers(g) = {}

\* A token that a client was given and that still lives is found by its Tableau
\* session, unless the index entry lapsed or a revocation of that very session
\* took it.
LiveTokenIsIndexed ==
    \A r \in refreshTokens :
        HasTokens(r) => \/ refreshTokenIndex[data[r].session] = r
                        \/ data[r].session \in dropped
=============================================================================
