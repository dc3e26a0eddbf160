------------------------- MODULE OAuthGrantsProofs -------------------------
(***************************************************************************)
(* For any number of requests: types, that a grant never forks, that a     *)
(* revoked grant is not continued, and that a live token is found.  The    *)
(* first three follow from one invariant: what a grant can be continued    *)
(* from is handed on, never copied.  The last adds whose a session is.     *)
(***************************************************************************)
EXTENDS OAuthGrants, TLAPS

\* The types of the stores and of the handlers; TypeOK without the data stored.
Shapes ==
    /\ pendingAuthorizations \subseteq Handlers
    /\ authorizationCodes \subseteq Handlers
    /\ refreshTokens \subseteq Handlers
    /\ refreshTokenIndex \in [Handlers -> Handlers \union {None}]
    /\ data \in [Handlers -> Data]
    /\ pc \in [Handlers -> Steps]
    /\ arg \in [Handlers -> Handlers \union {None}]
    /\ local \in [Handlers -> Data]
    /\ fresh \in [Handlers -> Handlers \union {None}]
    /\ reply \in [Handlers -> {"", "redirect", "tokens", "refused", "ok", "error"}]
    /\ revoked \subseteq Handlers
    /\ dropped \subseteq Handlers

Filled == \A x \in authorizationCodes \union refreshTokens : Whole(data[x])

\* Where a handler can be, by what it serves.
PlacedAt(h) ==
    /\ pc[h] \in {"signing-in", "issuing", "cleaning"} => Request[h] = "callback"
    /\ pc[h] \in {"minting", "indexing"} => Request[h] = "code"
    /\ pc[h] \in {"exchanging", "unindexing", "reindexing", "storing"} => Request[h] = "refresh"
    /\ pc[h] \in {"deleting", "forgetting"} => Request[h] \notin {"callback", "code"}
    /\ pc[h] = "deleting" => Request[h] = "revoke-access"

\* What a handler has taken or made by the time it stores it.
PreparedAt(h) ==
    /\ pc[h] \in {"issuing", "minting", "indexing", "unindexing", "reindexing", "storing", "deleting"}
        => fresh[h] \in Handlers
    /\ Carrying(h) => Whole(local[h])
    /\ pc[h] \in {"deleting", "forgetting"} => local[h].session \in Handlers

Placed == \A h \in Handlers : PlacedAt(h) /\ PreparedAt(h)

\* A key is in a store only when its handler has put it there.
CodeStored(c) == Request[c] = "callback" /\ pc[c] \in {"cleaning", "done"} /\ data[c].grant = c
TokenStored(r) ==
    \/ Request[r] = "code" /\ pc[r] \in {"indexing", "done"}
    \/ Request[r] = "refresh" /\ pc[r] = "done"

Stored ==
    /\ \A c \in authorizationCodes : CodeStored(c)
    /\ \A r \in refreshTokens : TokenStored(r)

\* A grant has begun when its callback has issued a code.
Begun(g) == Request[g] = "callback" /\ pc[g] \in {"cleaning", "done"}

AllBegun ==
    /\ \A r \in refreshTokens : Begun(data[r].grant)
    /\ \A h \in Handlers : Carrying(h) => Begun(local[h].grant)
    /\ \A g \in revoked : Begun(g)

\* One carrier of a grant, of whatever kind.
TokensApart == \A r, s \in refreshTokens : data[r].grant = data[s].grant => r = s
HandlersApart ==
    \A h, k \in Handlers : Carrying(h) /\ Carrying(k) /\ local[h].grant = local[k].grant => h = k
CodesFromTokens == \A r \in refreshTokens : data[r].grant \notin authorizationCodes
CodesFromHandlers == \A h \in Handlers : Carrying(h) => local[h].grant \notin authorizationCodes
TokensFromHandlers ==
    \A r \in refreshTokens, h \in Handlers : Carrying(h) => data[r].grant # local[h].grant

OneCarrier ==
    TokensApart /\ HandlersApart /\ CodesFromTokens /\ CodesFromHandlers /\ TokensFromHandlers

Ended ==
    /\ authorizationCodes \intersect revoked = {}
    /\ \A r \in refreshTokens : data[r].grant \notin revoked
    /\ \A h \in Handlers : Carrying(h) => local[h].grant \notin revoked

IInv == TypeOK /\ Placed /\ Stored /\ AllBegun /\ OneCarrier /\ Ended

\* What a step does to the carriers: it drops some, issues a code, takes one
\* out of a store, stores what a handler carries, or revokes one.
CarryOn == \A k \in Handlers : Carrying(k)' => Carrying(k) /\ local'[k] = local[k]

Shrinks ==
    /\ authorizationCodes' \subseteq authorizationCodes
    /\ refreshTokens' \subseteq refreshTokens
    /\ data' = data
    /\ revoked' = revoked
    /\ CarryOn

Issues(h) ==
    /\ pc[h] = "issuing" /\ pc'[h] = "cleaning"
    /\ authorizationCodes' = authorizationCodes \union {h}
    /\ refreshTokens' = refreshTokens
    /\ data' = [data EXCEPT ![h] = [grant |-> h, session |-> fresh[h]]]
    /\ revoked' = revoked
    /\ CarryOn

Takes(h, x) ==
    /\ ~Carrying(h)
    /\ \/ /\ x \in authorizationCodes
          /\ authorizationCodes' = authorizationCodes \ {x}
          /\ refreshTokens' = refreshTokens
       \/ /\ x \in refreshTokens
          /\ refreshTokens' = refreshTokens \ {x}
          /\ authorizationCodes' = authorizationCodes
    /\ local'[h] = data[x]
    /\ data' = data
    /\ revoked' = revoked
    /\ \A k \in Handlers : Carrying(k)' => k = h \/ (Carrying(k) /\ local'[k] = local[k])

Stores(h) ==
    /\ Carrying(h) /\ ~Carrying(h)'
    /\ \/ pc[h] = "minting" /\ pc'[h] = "indexing"
       \/ pc[h] = "storing" /\ pc'[h] = "done"
    /\ refreshTokens' = refreshTokens \union {h}
    /\ authorizationCodes' = authorizationCodes
    /\ data' = [data EXCEPT ![h] = [grant |-> local[h].grant, session |-> fresh[h]]]
    /\ revoked' = revoked
    /\ CarryOn

Revokes(r) ==
    /\ r \in refreshTokens
    /\ refreshTokens' = refreshTokens \ {r}
    /\ authorizationCodes' = authorizationCodes
    /\ data' = data
    /\ revoked' = revoked \union {data[r].grant}
    /\ CarryOn

Effect(h) ==
    \/ Shrinks \/ Issues(h) \/ Stores(h)
    \/ \E x \in Handlers : Takes(h, x) \/ Revokes(x)

-----------------------------------------------------------------------------

LEMMA TypeOKSplit == TypeOK <=> Shapes /\ Filled
  BY DEF TypeOK, Shapes, Filled

LEMMA InitEstablishesIInv == Init => IInv
<1> SUFFICES ASSUME Init PROVE IInv
  OBVIOUS
<1>1. Shapes
  <2>1. data \in [Handlers -> Data] /\ local \in [Handlers -> Data]
    BY DEF Init, Data, NoData
  <2>2. /\ pc \in [Handlers -> Steps]
        /\ reply \in [Handlers -> {"", "redirect", "tokens", "refused", "ok", "error"}]
    BY DEF Init, Steps
  <2>3. /\ refreshTokenIndex \in [Handlers -> Handlers \union {None}]
        /\ arg \in [Handlers -> Handlers \union {None}]
        /\ fresh \in [Handlers -> Handlers \union {None}]
    BY DEF Init
  <2> QED
    BY <2>1, <2>2, <2>3 DEF Init, Shapes
<1>2. TypeOK
  BY <1>1, TypeOKSplit DEF Init, Filled
<1>3. Placed
  BY DEF Init, Placed, PlacedAt, PreparedAt, Carrying
<1>4. Stored /\ AllBegun /\ OneCarrier /\ Ended
  BY DEF Init, Stored, AllBegun, OneCarrier, TokensApart, HandlersApart, CodesFromTokens,
         CodesFromHandlers, TokensFromHandlers, Ended, Carrying
<1> QED
  BY <1>2, <1>3, <1>4 DEF IInv

-----------------------------------------------------------------------------
\* What a handler does to itself.

LEMMA OthersStay ==
  ASSUME Shapes, NEW h \in Handlers, Serve(h), NEW k \in Handlers, k # h
  PROVE  /\ pc'[k] = pc[k] /\ arg'[k] = arg[k] /\ local'[k] = local[k]
         /\ fresh'[k] = fresh[k] /\ data'[k] = data[k]
<1>1. CASE Authorize(h)
  BY <1>1 DEF Shapes, Authorize, Finish, Answer
<1>2. CASE Callback(h)
  BY <1>2 DEF Shapes, Callback, Receive, Goto, Answer, stores
<1>3. CASE SignIn(h)
  BY <1>3 DEF Shapes, SignIn, Goto, Answer, stores
<1>4. CASE IssueCode(h)
  BY <1>4 DEF Shapes, IssueCode, Goto
<1>5. CASE CleanUp(h)
  BY <1>5 DEF Shapes, CleanUp, Finish, Answer
<1>6. CASE ConsumeCode(h)
  BY <1>6, ZenonT(30) DEF Shapes, ConsumeCode, Receive, Goto, Answer
<1>7. CASE MintToken(h)
  BY <1>7 DEF Shapes, MintToken, StoreToken, Goto
<1>8. CASE IndexMinted(h)
  BY <1>8 DEF Shapes, IndexMinted, IndexToken, Finish, Answer
<1>9. CASE ConsumeToken(h)
  BY <1>9 DEF Shapes, ConsumeToken, Receive, Goto, Answer
<1>10. CASE Exchange(h)
  BY <1>10 DEF Shapes, Exchange, Goto, stores
<1>11. CASE Unindex(h)
  BY <1>11 DEF Shapes, Unindex, Goto
<1>12. CASE Reindex(h)
  BY <1>12 DEF Shapes, Reindex, IndexToken, Goto
<1>13. CASE StoreRotated(h)
  BY <1>13 DEF Shapes, StoreRotated, StoreToken, Finish, Answer
<1>14. CASE RevokeToken(h)
  BY <1>14 DEF Shapes, RevokeToken, Receive, Goto, Answer
<1>15. CASE FindToken(h)
  BY <1>15, ZenonT(30) DEF Shapes, FindToken, Receive, Goto, Answer, stores
<1>16. CASE DeleteToken(h)
  BY <1>16 DEF Shapes, DeleteToken, Goto
<1>17. CASE Forget(h)
  BY <1>17 DEF Shapes, Forget, Finish, Answer
<1>18. CASE Fail(h)
  BY <1>18 DEF Shapes, Fail, Answer, stores
<1>19. CASE Reject(h)
  BY <1>19 DEF Shapes, Reject, Answer, stores
<1> QED
  BY <1>1, <1>2, <1>3, <1>4, <1>5, <1>6, <1>7, <1>8, <1>9, <1>10, <1>11, <1>12, <1>13, <1>14,
     <1>15, <1>16, <1>17, <1>18, <1>19 DEF Serve

LEMMA HandlerStaysPlaced ==
  ASSUME Shapes, NEW h \in Handlers, PlacedAt(h), Serve(h)
  PROVE  PlacedAt(h)'
<1>1. CASE Authorize(h)
  BY <1>1 DEF Shapes, PlacedAt, Authorize, Finish, Answer
<1>2. CASE Callback(h)
  BY <1>2 DEF Shapes, PlacedAt, Callback, Receive, Goto, Answer, stores
<1>3. CASE SignIn(h)
  BY <1>3 DEF Shapes, PlacedAt, SignIn, Goto, Answer, stores
<1>4. CASE IssueCode(h)
  BY <1>4 DEF Shapes, PlacedAt, IssueCode, Goto
<1>5. CASE CleanUp(h)
  BY <1>5 DEF Shapes, PlacedAt, CleanUp, Finish, Answer
<1>6. CASE ConsumeCode(h)
  BY <1>6 DEF Shapes, PlacedAt, ConsumeCode, Receive, Goto, Answer
<1>7. CASE MintToken(h)
  BY <1>7 DEF Shapes, PlacedAt, MintToken, StoreToken, Goto
<1>8. CASE IndexMinted(h)
  BY <1>8 DEF Shapes, PlacedAt, IndexMinted, IndexToken, Finish, Answer
<1>9. CASE ConsumeToken(h)
  BY <1>9 DEF Shapes, PlacedAt, ConsumeToken, Receive, Goto, Answer
<1>10. CASE Exchange(h)
  BY <1>10 DEF Shapes, PlacedAt, Exchange, Goto, stores
<1>11. CASE Unindex(h)
  BY <1>11 DEF Shapes, PlacedAt, Unindex, Goto
<1>12. CASE Reindex(h)
  BY <1>12 DEF Shapes, PlacedAt, Reindex, IndexToken, Goto
<1>13. CASE StoreRotated(h)
  BY <1>13 DEF Shapes, PlacedAt, StoreRotated, StoreToken, Finish, Answer
<1>14. CASE RevokeToken(h)
  BY <1>14 DEF Shapes, PlacedAt, RevokeToken, Receive, Goto, Answer
<1>15. CASE FindToken(h)
  BY <1>15, ZenonT(30) DEF Shapes, PlacedAt, FindToken, Receive, Goto, Answer, stores
<1>16. CASE DeleteToken(h)
  BY <1>16 DEF Shapes, PlacedAt, DeleteToken, Goto
<1>17. CASE Forget(h)
  BY <1>17 DEF Shapes, PlacedAt, Forget, Finish, Answer
<1>18. CASE Fail(h)
  BY <1>18 DEF Shapes, PlacedAt, Fail, Answer, stores
<1>19. CASE Reject(h)
  BY <1>19 DEF Shapes, PlacedAt, Reject, Answer, stores
<1> QED
  BY <1>1, <1>2, <1>3, <1>4, <1>5, <1>6, <1>7, <1>8, <1>9, <1>10, <1>11, <1>12, <1>13, <1>14,
     <1>15, <1>16, <1>17, <1>18, <1>19 DEF Serve

LEMMA HandlerStaysPrepared ==
  ASSUME TypeOK, NEW h \in Handlers, PlacedAt(h), PreparedAt(h), Serve(h)
  PROVE  PreparedAt(h)'
<1>0. /\ pc \in [Handlers -> Steps] /\ local \in [Handlers -> Data]
      /\ fresh \in [Handlers -> Handlers \union {None}]
      /\ refreshTokenIndex \in [Handlers -> Handlers \union {None}]
      /\ \A x \in authorizationCodes \union refreshTokens : Whole(data[x])
  BY DEF TypeOK
<1>1. CASE Authorize(h)
  <2>1. pc'[h] = "done"
    BY <1>0, <1>1 DEF Authorize, Finish, Answer
  <2> QED
    BY <2>1 DEF PreparedAt, Carrying, Whole
<1>2. CASE Callback(h)
  <2>1. pc'[h] \in {"signing-in", "done"}
    BY <1>2 DEF TypeOK, Callback, Receive, Goto, Answer, stores
  <2> QED
    BY <2>1 DEF PreparedAt, Carrying, Whole
<1>3. CASE SignIn(h)
  <2>1. pc'[h] = "done" \/ (pc'[h] = "issuing" /\ fresh'[h] = h)
    BY <1>3 DEF TypeOK, SignIn, Goto, Answer, stores
  <2> QED
    BY <2>1 DEF PreparedAt, Carrying, Whole
<1>4. CASE IssueCode(h)
  BY <1>4 DEF TypeOK, PlacedAt, PreparedAt, Carrying, Whole, IssueCode, Goto
<1>5. CASE CleanUp(h)
  <2>1. pc'[h] = "done"
    BY <1>0, <1>5 DEF CleanUp, Finish, Answer
  <2> QED
    BY <2>1 DEF PreparedAt, Carrying, Whole
<1>6. CASE ConsumeCode(h)
  <2>1. \/ pc'[h] = "done"
        \/ pc'[h] = "minting" /\ Whole(local'[h]) /\ fresh'[h] \in Handlers
    <3>1. PICK x \in Handlers : ConsumeCode(h)!1!(x)
      BY <1>6 DEF ConsumeCode
    <3> QED
      BY <1>0, <3>1 DEF Receive, Goto, Answer, Whole
  <2> QED
    BY <2>1 DEF PreparedAt, Carrying, Whole
<1>7. CASE MintToken(h)
  BY <1>7 DEF TypeOK, PlacedAt, PreparedAt, Carrying, Whole, MintToken, StoreToken, Goto
<1>8. CASE IndexMinted(h)
  <2>1. pc'[h] = "done"
    BY <1>8 DEF TypeOK, IndexMinted, IndexToken, Finish, Answer
  <2> QED
    BY <2>1 DEF PreparedAt, Carrying, Whole
<1>9. CASE ConsumeToken(h)
  <2>1. pc'[h] = "done" \/ (pc'[h] \in {"exchanging", "forgetting"} /\ Whole(local'[h]))
    <3>1. PICK x \in Handlers : ConsumeToken(h)!1!(x)
      BY <1>9 DEF ConsumeToken
    <3> QED
      BY <1>0, <3>1 DEF Receive, Goto, Answer
  <2> QED
    BY <2>1 DEF PreparedAt, Carrying, Whole
<1>10. CASE Exchange(h)
  <2>1. pc'[h] = "unindexing" /\ Whole(local'[h]) /\ fresh'[h] \in Handlers
    <3>1. Whole(local[h])
      BY <1>10 DEF PreparedAt, Carrying, Exchange
    <3>2. PICK s \in {h, local[h].session} : fresh' = [fresh EXCEPT ![h] = s]
      BY <1>10 DEF Exchange
    <3>3. s \in Handlers
      BY <3>1, <3>2 DEF Whole
    <3>4. pc'[h] = "unindexing" /\ local' = local
      BY <1>0, <1>10 DEF Exchange, Goto
    <3> QED
      BY <1>0, <3>1, <3>2, <3>3, <3>4
  <2> QED
    BY <2>1 DEF PreparedAt, Carrying, Whole
<1>11. CASE Unindex(h)
  BY <1>11 DEF TypeOK, PlacedAt, PreparedAt, Carrying, Whole, Unindex, Goto
<1>12. CASE Reindex(h)
  BY <1>12 DEF TypeOK, PlacedAt, PreparedAt, Carrying, Whole, Reindex, IndexToken, Goto
<1>13. CASE StoreRotated(h)
  BY <1>13 DEF TypeOK, PlacedAt, PreparedAt, Carrying, Whole, StoreRotated, StoreToken, Finish,
     Answer
<1>14. CASE RevokeToken(h)
  <2>1. pc'[h] = "done" \/ (pc'[h] = "forgetting" /\ Whole(local'[h]))
    <3>1. PICK x \in Handlers : RevokeToken(h)!1!(x)
      BY <1>14 DEF RevokeToken
    <3> QED
      BY <1>0, <3>1 DEF Receive, Goto, Answer
  <2> QED
    BY <2>1 DEF PreparedAt, Carrying, Whole
<1>15. CASE FindToken(h)
  <2>1. pc'[h] = "done" \/ (pc'[h] = "deleting" /\ local'[h].session \in Handlers /\ fresh'[h] \in Handlers)
    <3>1. PICK x \in Handlers : FindToken(h)!1!(x)
      BY <1>15 DEF FindToken
    <3> QED
      BY <1>0, <3>1 DEF Receive, Goto, Answer
  <2> QED
    BY <2>1 DEF PreparedAt, Carrying, Whole
<1>16. CASE DeleteToken(h)
  BY <1>16 DEF TypeOK, PlacedAt, PreparedAt, Carrying, Whole, DeleteToken, Goto
<1>17. CASE Forget(h)
  <2>1. pc'[h] = "done"
    BY <1>0, <1>17 DEF Forget, Finish, Answer
  <2> QED
    BY <2>1 DEF PreparedAt, Carrying, Whole
<1>18. CASE Fail(h)
  BY <1>18 DEF TypeOK, PlacedAt, PreparedAt, Carrying, Whole, Fail, Answer, stores
<1>19. CASE Reject(h)
  BY <1>19 DEF TypeOK, PlacedAt, PreparedAt, Carrying, Whole, Reject, Answer, stores
<1> QED
  BY <1>1, <1>2, <1>3, <1>4, <1>5, <1>6, <1>7, <1>8, <1>9, <1>10, <1>11, <1>12, <1>13, <1>14,
     <1>15, <1>16, <1>17, <1>18, <1>19 DEF Serve

LEMMA ShapesStay ==
  ASSUME TypeOK, NEW h \in Handlers, PreparedAt(h), Serve(h)
  PROVE  Shapes'
<1>0. Shapes
  BY TypeOKSplit
<1>t. /\ arg \in [Handlers -> Handlers \union {None}] /\ local \in [Handlers -> Data]
      /\ fresh \in [Handlers -> Handlers \union {None}] /\ data \in [Handlers -> Data]
      /\ refreshTokenIndex \in [Handlers -> Handlers \union {None}]
  BY <1>0 DEF Shapes
<1>1. CASE Authorize(h)
  BY <1>0, <1>1 DEF Shapes, Steps, Data, PreparedAt, Carrying, Whole, Authorize, Finish, Answer
<1>2. CASE Callback(h)
  <2>1. arg' \in [Handlers -> Handlers \union {None}]
    BY <1>t, <1>2 DEF Callback, Receive, Goto, Answer, stores
  <2>2. fresh' \in [Handlers -> Handlers \union {None}]
    BY <1>t, <1>2 DEF Data, Callback, Receive, Goto, Answer, stores
  <2>3. local' \in [Handlers -> Data]
    BY <1>t, <1>2 DEF Data, Callback, Receive, Goto, Answer, stores
  <2>4. /\ pc' \in [Handlers -> Steps]
        /\ reply' \in [Handlers -> {"", "redirect", "tokens", "refused", "ok", "error"}]
    BY <1>0, <1>2 DEF Shapes, Steps, Callback, Receive, Goto, Answer, stores
  <2> QED
    BY <1>0, <1>2, <2>1, <2>2, <2>3, <2>4 DEF Shapes, Callback, stores
<1>3. CASE SignIn(h)
  <2>1. arg' \in [Handlers -> Handlers \union {None}]
    BY <1>t, <1>3 DEF SignIn, Goto, Answer, stores
  <2>2. fresh' \in [Handlers -> Handlers \union {None}]
    BY <1>t, <1>3 DEF Data, SignIn, Goto, Answer, stores
  <2>3. local' \in [Handlers -> Data]
    BY <1>t, <1>3 DEF Data, SignIn, Goto, Answer, stores
  <2>4. /\ pc' \in [Handlers -> Steps]
        /\ reply' \in [Handlers -> {"", "redirect", "tokens", "refused", "ok", "error"}]
    BY <1>0, <1>3 DEF Shapes, Steps, SignIn, Goto, Answer, stores
  <2> QED
    BY <1>0, <1>3, <2>1, <2>2, <2>3, <2>4 DEF Shapes, SignIn, stores
<1>4. CASE IssueCode(h)
  BY <1>0, <1>4 DEF Shapes, Steps, Data, PreparedAt, Carrying, Whole, IssueCode, Goto
<1>5. CASE CleanUp(h)
  BY <1>0, <1>5 DEF Shapes, Steps, Data, PreparedAt, Carrying, Whole, CleanUp, Finish, Answer
<1>6. CASE ConsumeCode(h)
  <2>1. arg' \in [Handlers -> Handlers \union {None}]
    BY <1>t, <1>6 DEF ConsumeCode, Receive, Goto, Answer
  <2>2. fresh' \in [Handlers -> Handlers \union {None}]
    BY <1>t, <1>6 DEF Data, ConsumeCode, Receive, Goto, Answer
  <2>3. local' \in [Handlers -> Data]
    BY <1>t, <1>6 DEF Data, ConsumeCode, Receive, Goto, Answer
  <2>4. /\ pc' \in [Handlers -> Steps]
        /\ reply' \in [Handlers -> {"", "redirect", "tokens", "refused", "ok", "error"}]
    BY <1>0, <1>6 DEF Shapes, Steps, ConsumeCode, Receive, Goto, Answer
  <2> QED
    BY <1>0, <1>6, <2>1, <2>2, <2>3, <2>4 DEF Shapes, ConsumeCode
<1>7. CASE MintToken(h)
  BY <1>0, <1>7 DEF Shapes, Steps, Data, PreparedAt, Carrying, Whole, MintToken, StoreToken, Goto
<1>8. CASE IndexMinted(h)
  BY <1>0, <1>8 DEF Shapes, Steps, Data, PreparedAt, Carrying, Whole, IndexMinted, IndexToken, Finish,
     Answer
<1>9. CASE ConsumeToken(h)
  <2>1. arg' \in [Handlers -> Handlers \union {None}]
    BY <1>t, <1>9 DEF ConsumeToken, Receive, Goto, Answer
  <2>2. fresh' \in [Handlers -> Handlers \union {None}]
    BY <1>t, <1>9 DEF Data, ConsumeToken, Receive, Goto, Answer
  <2>3. local' \in [Handlers -> Data]
    BY <1>t, <1>9 DEF Data, ConsumeToken, Receive, Goto, Answer
  <2>4. /\ pc' \in [Handlers -> Steps]
        /\ reply' \in [Handlers -> {"", "redirect", "tokens", "refused", "ok", "error"}]
    BY <1>0, <1>9 DEF Shapes, Steps, ConsumeToken, Receive, Goto, Answer
  <2> QED
    BY <1>0, <1>9, <2>1, <2>2, <2>3, <2>4 DEF Shapes, ConsumeToken
<1>10. CASE Exchange(h)
  <2>1. arg' \in [Handlers -> Handlers \union {None}]
    BY <1>t, <1>10 DEF Exchange, Goto, stores
  <2>2. fresh' \in [Handlers -> Handlers \union {None}]
    BY <1>t, <1>10 DEF Data, Exchange, Goto, stores
  <2>3. local' \in [Handlers -> Data]
    BY <1>t, <1>10 DEF Data, Exchange, Goto, stores
  <2>4. /\ pc' \in [Handlers -> Steps]
        /\ reply' \in [Handlers -> {"", "redirect", "tokens", "refused", "ok", "error"}]
    BY <1>0, <1>10 DEF Shapes, Steps, Exchange, Goto, stores
  <2> QED
    BY <1>0, <1>10, <2>1, <2>2, <2>3, <2>4 DEF Shapes, Exchange, stores
<1>11. CASE Unindex(h)
  BY <1>0, <1>11 DEF Shapes, Steps, Data, PreparedAt, Carrying, Whole, Unindex, Goto
<1>12. CASE Reindex(h)
  BY <1>0, <1>12 DEF Shapes, Steps, Data, PreparedAt, Carrying, Whole, Reindex, IndexToken, Goto
<1>13. CASE StoreRotated(h)
  BY <1>0, <1>13 DEF Shapes, Steps, Data, PreparedAt, Carrying, Whole, StoreRotated, StoreToken,
     Finish, Answer
<1>14. CASE RevokeToken(h)
  <2>1. arg' \in [Handlers -> Handlers \union {None}]
    BY <1>t, <1>14 DEF RevokeToken, Receive, Goto, Answer
  <2>2. fresh' \in [Handlers -> Handlers \union {None}]
    BY <1>t, <1>14 DEF Data, RevokeToken, Receive, Goto, Answer
  <2>3. local' \in [Handlers -> Data]
    BY <1>t, <1>14 DEF Data, RevokeToken, Receive, Goto, Answer
  <2>4. /\ pc' \in [Handlers -> Steps]
        /\ reply' \in [Handlers -> {"", "redirect", "tokens", "refused", "ok", "error"}]
    BY <1>0, <1>14 DEF Shapes, Steps, RevokeToken, Receive, Goto, Answer
  <2>5. revoked' \subseteq Handlers
    <3>1. revoked \subseteq Handlers /\ \A x \in refreshTokens : data[x].grant \in Handlers
      BY DEF TypeOK, Whole
    <3> QED
      BY <3>1, <1>14 DEF RevokeToken
  <2> QED
    BY <1>0, <1>14, <2>1, <2>2, <2>3, <2>4, <2>5 DEF Shapes, RevokeToken
<1>15. CASE FindToken(h)
  <2>1. arg' \in [Handlers -> Handlers \union {None}]
    BY <1>t, <1>15 DEF FindToken, Receive, Goto, Answer, stores
  <2>2. fresh' \in [Handlers -> Handlers \union {None}]
    BY <1>t, <1>15 DEF Data, FindToken, Receive, Goto, Answer, stores
  <2>3. local' \in [Handlers -> Data]
    BY <1>t, <1>15 DEF Data, FindToken, Receive, Goto, Answer, stores
  <2>4. /\ pc' \in [Handlers -> Steps]
        /\ reply' \in [Handlers -> {"", "redirect", "tokens", "refused", "ok", "error"}]
    BY <1>0, <1>15 DEF Shapes, Steps, FindToken, Receive, Goto, Answer, stores
  <2> QED
    BY <1>0, <1>15, <2>1, <2>2, <2>3, <2>4 DEF Shapes, FindToken, stores
<1>16. CASE DeleteToken(h)
  <2>1. arg' \in [Handlers -> Handlers \union {None}]
    BY <1>t, <1>16 DEF DeleteToken, Goto
  <2>2. fresh' \in [Handlers -> Handlers \union {None}]
    BY <1>t, <1>16 DEF Data, DeleteToken, Goto
  <2>3. local' \in [Handlers -> Data]
    BY <1>t, <1>16 DEF Data, DeleteToken, Goto
  <2>4. /\ pc' \in [Handlers -> Steps]
        /\ reply' \in [Handlers -> {"", "redirect", "tokens", "refused", "ok", "error"}]
    BY <1>0, <1>16 DEF Shapes, Steps, DeleteToken, Goto
  <2>5. revoked' \subseteq Handlers
    <3>1. revoked \subseteq Handlers /\ \A x \in refreshTokens : data[x].grant \in Handlers
      BY DEF TypeOK, Whole
    <3> QED
      BY <3>1, <1>16 DEF DeleteToken
  <2> QED
    BY <1>0, <1>16, <2>1, <2>2, <2>3, <2>4, <2>5 DEF Shapes, DeleteToken
<1>17. CASE Forget(h)
  BY <1>0, <1>17 DEF Shapes, Steps, Data, PreparedAt, Carrying, Whole, Forget, Finish, Answer
<1>18. CASE Fail(h)
  BY <1>0, <1>18 DEF Shapes, Steps, Data, PreparedAt, Carrying, Whole, Fail, Answer, stores
<1>19. CASE Reject(h)
  BY <1>0, <1>19 DEF Shapes, Steps, Data, PreparedAt, Carrying, Whole, Reject, Answer, stores
<1> QED
  BY <1>1, <1>2, <1>3, <1>4, <1>5, <1>6, <1>7, <1>8, <1>9, <1>10, <1>11, <1>12, <1>13, <1>14,
     <1>15, <1>16, <1>17, <1>18, <1>19 DEF Serve

\* Every step of a handler is one of the five.
LEMMA Effects ==
  ASSUME Shapes, NEW h \in Handlers, Serve(h)
  PROVE  Effect(h)
<1>1. CASE Authorize(h)
  <2>1. Shrinks
    BY <1>1 DEF Shapes, Shrinks, CarryOn, Carrying, Authorize, Finish, Answer
  <2> QED
    BY <2>1 DEF Effect
<1>2. CASE Callback(h)
  <2>1. Shrinks
    BY <1>2 DEF Shapes, Shrinks, CarryOn, Carrying, Callback, Receive, Goto, Answer, stores
  <2> QED
    BY <2>1 DEF Effect
<1>3. CASE SignIn(h)
  <2>1. Shrinks
    BY <1>3 DEF Shapes, Shrinks, CarryOn, Carrying, SignIn, Goto, Answer, stores
  <2> QED
    BY <2>1 DEF Effect
<1>4. CASE IssueCode(h)
  <2>1. Issues(h)
    BY <1>4 DEF Shapes, Issues, CarryOn, Carrying, IssueCode, Goto
  <2> QED
    BY <2>1 DEF Effect
<1>5. CASE CleanUp(h)
  <2>1. Shrinks
    BY <1>5 DEF Shapes, Shrinks, CarryOn, Carrying, CleanUp, Finish, Answer
  <2> QED
    BY <2>1 DEF Effect
<1>6. CASE ConsumeCode(h)
  <2>1. Shrinks \/ \E x \in Handlers : Takes(h, x)
    BY <1>6, ZenonT(30) DEF Shapes, Shrinks, Takes, CarryOn, Carrying, ConsumeCode, Receive, Goto, Answer
  <2> QED
    BY <2>1 DEF Effect
<1>7. CASE MintToken(h)
  <2>1. Stores(h)
    BY <1>7 DEF Shapes, Stores, CarryOn, Carrying, MintToken, StoreToken, Goto
  <2> QED
    BY <2>1 DEF Effect
<1>8. CASE IndexMinted(h)
  <2>1. Shrinks
    BY <1>8 DEF Shapes, Shrinks, CarryOn, Carrying, IndexMinted, IndexToken, Finish, Answer
  <2> QED
    BY <2>1 DEF Effect
<1>9. CASE ConsumeToken(h)
  <2>1. Shrinks \/ \E x \in Handlers : Takes(h, x)
    BY <1>9, ZenonT(30) DEF Shapes, Shrinks, Takes, CarryOn, Carrying, ConsumeToken, Receive, Goto, Answer
  <2> QED
    BY <2>1 DEF Effect
<1>10. CASE Exchange(h)
  <2>1. Shrinks
    BY <1>10 DEF Shapes, Shrinks, CarryOn, Carrying, Exchange, Goto, stores
  <2> QED
    BY <2>1 DEF Effect
<1>11. CASE Unindex(h)
  <2>1. Shrinks
    BY <1>11 DEF Shapes, Shrinks, CarryOn, Carrying, Unindex, Goto
  <2> QED
    BY <2>1 DEF Effect
<1>12. CASE Reindex(h)
  <2>1. Shrinks
    BY <1>12 DEF Shapes, Shrinks, CarryOn, Carrying, Reindex, IndexToken, Goto
  <2> QED
    BY <2>1 DEF Effect
<1>13. CASE StoreRotated(h)
  <2>1. Stores(h)
    BY <1>13 DEF Shapes, Stores, CarryOn, Carrying, StoreRotated, StoreToken, Finish, Answer
  <2> QED
    BY <2>1 DEF Effect
<1>14. CASE RevokeToken(h)
  <2>1. Shrinks \/ \E r \in Handlers : Revokes(r)
    BY <1>14, ZenonT(30) DEF Shapes, Shrinks, Revokes, CarryOn, Carrying, RevokeToken, Receive, Goto, Answer
  <2> QED
    BY <2>1 DEF Effect
<1>15. CASE FindToken(h)
  <2>1. Shrinks
    BY <1>15, ZenonT(30) DEF Shapes, Shrinks, CarryOn, Carrying, FindToken, Receive, Goto, Answer, stores
  <2> QED
    BY <2>1 DEF Effect
<1>16. CASE DeleteToken(h)
  <2>1. CarryOn
    BY <1>16 DEF Shapes, DeleteToken, Goto, CarryOn, Carrying
  <2>2. CASE fresh[h] \in refreshTokens
    <3>1. Revokes(fresh[h]) /\ fresh[h] \in Handlers
      BY <1>16, <2>1, <2>2 DEF Shapes, Revokes, DeleteToken
    <3> QED
      BY <3>1 DEF Effect
  <2>3. CASE fresh[h] \notin refreshTokens
    BY <1>16, <2>1, <2>3 DEF Shrinks, DeleteToken, Effect
  <2> QED
    BY <2>2, <2>3
<1>17. CASE Forget(h)
  <2>1. Shrinks
    BY <1>17 DEF Shapes, Shrinks, CarryOn, Carrying, Forget, Finish, Answer
  <2> QED
    BY <2>1 DEF Effect
<1>18. CASE Fail(h)
  <2>1. Shrinks
    BY <1>18 DEF Shapes, Shrinks, CarryOn, Carrying, Fail, Answer, stores
  <2> QED
    BY <2>1 DEF Effect
<1>19. CASE Reject(h)
  <2>1. Shrinks
    BY <1>19 DEF Shapes, Shrinks, CarryOn, Carrying, Reject, Answer, stores
  <2> QED
    BY <2>1 DEF Effect
<1> QED
  BY <1>1, <1>2, <1>3, <1>4, <1>5, <1>6, <1>7, <1>8, <1>9, <1>10, <1>11, <1>12, <1>13, <1>14,
     <1>15, <1>16, <1>17, <1>18, <1>19 DEF Serve

\* A handler that has issued or stored does nothing but answer.
LEMMA Advance ==
  ASSUME Shapes, NEW h \in Handlers, Serve(h)
  PROVE  pc[h] # "done" /\ (pc[h] \in {"cleaning", "indexing"} => pc'[h] = "done")
<1>1. CASE Authorize(h)
  BY <1>1 DEF Shapes, Authorize, Finish, Answer
<1>2. CASE Callback(h)
  BY <1>2 DEF Shapes, Callback, Receive, Goto, Answer
<1>3. CASE SignIn(h)
  BY <1>3 DEF Shapes, SignIn, Goto, Answer
<1>4. CASE IssueCode(h)
  BY <1>4 DEF Shapes, IssueCode, Goto
<1>5. CASE CleanUp(h)
  BY <1>5 DEF Shapes, CleanUp, Finish, Answer
<1>6. CASE ConsumeCode(h)
  BY <1>6, ZenonT(30) DEF Shapes, ConsumeCode, Receive, Goto, Answer
<1>7. CASE MintToken(h)
  BY <1>7 DEF Shapes, MintToken, StoreToken, Goto
<1>8. CASE IndexMinted(h)
  BY <1>8 DEF Shapes, IndexMinted, IndexToken, Finish, Answer
<1>9. CASE ConsumeToken(h)
  BY <1>9 DEF Shapes, ConsumeToken, Receive, Goto, Answer
<1>10. CASE Exchange(h)
  BY <1>10 DEF Shapes, Exchange, Goto
<1>11. CASE Unindex(h)
  BY <1>11 DEF Shapes, Unindex, Goto
<1>12. CASE Reindex(h)
  BY <1>12 DEF Shapes, Reindex, IndexToken, Goto
<1>13. CASE StoreRotated(h)
  BY <1>13 DEF Shapes, StoreRotated, StoreToken, Finish, Answer
<1>14. CASE RevokeToken(h)
  BY <1>14 DEF Shapes, RevokeToken, Receive, Goto, Answer
<1>15. CASE FindToken(h)
  BY <1>15 DEF Shapes, FindToken, Receive, Goto, Answer
<1>16. CASE DeleteToken(h)
  BY <1>16 DEF Shapes, DeleteToken, Goto
<1>17. CASE Forget(h)
  BY <1>17 DEF Shapes, Forget, Finish, Answer
<1>18. CASE Fail(h)
  BY <1>18 DEF Shapes, Fail, Answer
<1>19. CASE Reject(h)
  BY <1>19 DEF Shapes, Reject, Answer
<1> QED
  BY <1>1, <1>2, <1>3, <1>4, <1>5, <1>6, <1>7, <1>8, <1>9, <1>10, <1>11, <1>12, <1>13, <1>14,
     <1>15, <1>16, <1>17, <1>18, <1>19 DEF Serve

\* What has begun, and what has been stored, stays so.
Steady ==
    /\ \A g \in Handlers : Begun(g) => Begun(g)'
    /\ \A c \in Handlers : CodeStored(c) /\ data'[c] = data[c] => CodeStored(c)'
    /\ \A r \in Handlers : TokenStored(r) => TokenStored(r)'

LEMMA ServeIsSteady ==
  ASSUME Shapes, NEW h \in Handlers, Serve(h)
  PROVE  Steady
<1>1. \A g \in Handlers : Begun(g) => Begun(g)'
  BY Advance, OthersStay DEF Begun
<1>2. \A c \in Handlers : CodeStored(c) /\ data'[c] = data[c] => CodeStored(c)'
  BY Advance, OthersStay DEF CodeStored
<1>3. \A r \in Handlers : TokenStored(r) => TokenStored(r)'
  BY Advance, OthersStay DEF TokenStored
<1> QED
  BY <1>1, <1>2, <1>3 DEF Steady

-----------------------------------------------------------------------------
\* What each effect does to the carriers.

Chain == Filled /\ Stored /\ AllBegun /\ OneCarrier /\ Ended

LEMMA CarriersAreBegun ==
  ASSUME IInv
  PROVE  /\ \A r \in refreshTokens : r \in Handlers /\ Whole(data[r]) /\ Begun(data[r].grant)
         /\ \A c \in authorizationCodes : c \in Handlers /\ Whole(data[c]) /\ CodeStored(c) /\ Begun(c)
         /\ \A k \in Handlers : Carrying(k) => Whole(local[k]) /\ Begun(local[k].grant)
         /\ \A g \in revoked : g \in Handlers /\ Begun(g)
<1>1. Shapes /\ Filled
  BY TypeOKSplit DEF IInv
<1>2. \A r \in refreshTokens : r \in Handlers /\ Whole(data[r]) /\ Begun(data[r].grant)
  BY <1>1 DEF IInv, AllBegun, Filled, Shapes
<1>3. \A c \in authorizationCodes : c \in Handlers /\ Whole(data[c]) /\ CodeStored(c) /\ Begun(c)
  BY <1>1 DEF IInv, Stored, Filled, Shapes, CodeStored, Begun
<1>4. \A k \in Handlers : Carrying(k) => Whole(local[k]) /\ Begun(local[k].grant)
  BY DEF IInv, AllBegun, Placed, PreparedAt
<1>5. \A g \in revoked : g \in Handlers /\ Begun(g)
  BY <1>1 DEF IInv, AllBegun, Shapes
<1> QED
  BY <1>2, <1>3, <1>4, <1>5

LEMMA ShrinkingKeepsChain ==
  ASSUME IInv, Steady, Shrinks
  PROVE  Chain'
<1>1. Filled'
  BY TypeOKSplit DEF IInv, Filled, Shrinks
<1>2. Stored'
  BY CarriersAreBegun DEF IInv, Stored, Shrinks, Steady
<1>3. AllBegun'
  BY CarriersAreBegun DEF AllBegun, Shrinks, CarryOn, Steady, Whole
<1>4. OneCarrier'
  BY DEF IInv, OneCarrier, TokensApart, HandlersApart, CodesFromTokens, CodesFromHandlers,
         TokensFromHandlers, Shrinks, CarryOn
<1>5. Ended'
  BY DEF IInv, Ended, Shrinks, CarryOn
<1> QED
  BY <1>1, <1>2, <1>3, <1>4, <1>5 DEF Chain

LEMMA IssuingKeepsChain ==
  ASSUME IInv, Steady, NEW h \in Handlers, Issues(h)
  PROVE  Chain'
<1>0. /\ Shapes /\ Request[h] = "callback" /\ fresh[h] \in Handlers
      /\ ~Begun(h) /\ h \notin authorizationCodes /\ h \notin refreshTokens /\ h \notin revoked
  BY TypeOKSplit, CarriersAreBegun DEF IInv, Placed, PlacedAt, PreparedAt, Issues, Begun, Stored, TokenStored
<1>1. /\ \A k \in authorizationCodes \union refreshTokens : data'[k] = data[k]
      /\ data'[h] = [grant |-> h, session |-> fresh[h]]
  BY <1>0, CarriersAreBegun DEF Issues, Shapes
<1>2. Filled'
  BY <1>0, <1>1, CarriersAreBegun DEF Filled, Issues, Whole
<1>3. Stored'
  <2>1. CodeStored(h)'
    BY <1>0, <1>1 DEF CodeStored, Issues
  <2>2. \A c \in authorizationCodes : CodeStored(c)'
    BY <1>1, CarriersAreBegun DEF Steady
  <2>3. \A r \in refreshTokens : TokenStored(r)'
    BY CarriersAreBegun DEF Steady, IInv, Stored
  <2> QED
    BY <2>1, <2>2, <2>3 DEF Stored, Issues
<1>4. AllBegun'
  BY <1>1, CarriersAreBegun DEF AllBegun, Issues, CarryOn, Steady, Whole
<1>5. OneCarrier'
  <2>1. \A r \in refreshTokens : data[r].grant # h
    BY <1>0, CarriersAreBegun
  <2>2. \A k \in Handlers : Carrying(k) => local[k].grant # h
    BY <1>0, CarriersAreBegun
  <2>3. TokensApart' /\ CodesFromTokens'
    BY <1>1, <2>1 DEF IInv, OneCarrier, TokensApart, CodesFromTokens, Issues
  <2>4. HandlersApart' /\ CodesFromHandlers'
    BY <2>2 DEF IInv, OneCarrier, HandlersApart, CodesFromHandlers, Issues, CarryOn
  <2>5. TokensFromHandlers'
    BY <1>1 DEF IInv, OneCarrier, TokensFromHandlers, Issues, CarryOn
  <2> QED
    BY <2>3, <2>4, <2>5 DEF OneCarrier
<1>6. Ended'
  BY <1>0, <1>1 DEF IInv, Ended, Issues, CarryOn
<1> QED
  BY <1>2, <1>3, <1>4, <1>5, <1>6 DEF Chain

LEMMA TakingKeepsChain ==
  ASSUME IInv, Steady, NEW h \in Handlers, NEW x \in Handlers, Takes(h, x)
  PROVE  Chain'
<1>1. Filled'
  BY CarriersAreBegun DEF Filled, Takes
<1>2. Stored'
  BY CarriersAreBegun DEF IInv, Stored, Takes, Steady
<1>3. Begun(data[x].grant) /\ data[x].grant \in Handlers /\ data[x].grant \notin revoked
  <2>1. CASE x \in authorizationCodes
    BY <2>1, CarriersAreBegun DEF IInv, Ended, CodeStored, Whole
  <2>2. CASE x \in refreshTokens
    BY <2>2, CarriersAreBegun DEF IInv, Ended, Whole
  <2> QED
    BY <2>1, <2>2 DEF Takes
<1>4. AllBegun'
  BY <1>3, CarriersAreBegun DEF AllBegun, Takes, Steady, Whole
<1>5. OneCarrier'
  <2>1. /\ \A r \in refreshTokens' : data[r].grant # data[x].grant
        /\ \A k \in Handlers : Carrying(k) => local[k].grant # data[x].grant
        /\ data[x].grant \notin authorizationCodes'
    <3>1. CASE x \in authorizationCodes
      <4>1. data[x].grant = x /\ x \notin refreshTokens
        BY <3>1, CarriersAreBegun DEF IInv, Stored, CodeStored, TokenStored
      <4>2. authorizationCodes' = authorizationCodes \ {x} /\ refreshTokens' = refreshTokens
        BY <4>1 DEF Takes
      <4> QED
        BY <3>1, <4>1, <4>2 DEF IInv, OneCarrier, CodesFromTokens, CodesFromHandlers
    <3>2. CASE x \in refreshTokens
      <4>1. x \notin authorizationCodes
        BY <3>2 DEF IInv, Stored, CodeStored, TokenStored
      <4>2. authorizationCodes' = authorizationCodes /\ refreshTokens' = refreshTokens \ {x}
        BY <4>1 DEF Takes
      <4> QED
        BY <3>2, <4>2 DEF IInv, OneCarrier, TokensApart, CodesFromTokens, TokensFromHandlers
    <3> QED
      BY <3>1, <3>2 DEF Takes
  <2>2. TokensApart' /\ CodesFromTokens'
    BY DEF IInv, OneCarrier, TokensApart, CodesFromTokens, Takes
  <2>3. HandlersApart' /\ CodesFromHandlers'
    BY <2>1 DEF IInv, OneCarrier, HandlersApart, CodesFromHandlers, Takes
  <2>4. TokensFromHandlers'
    BY <2>1 DEF IInv, OneCarrier, TokensFromHandlers, Takes
  <2> QED
    BY <2>2, <2>3, <2>4 DEF OneCarrier
<1>6. Ended'
  BY <1>3 DEF IInv, Ended, Takes
<1> QED
  BY <1>1, <1>2, <1>4, <1>5, <1>6 DEF Chain

LEMMA StoringKeepsChain ==
  ASSUME IInv, Steady, NEW h \in Handlers, Stores(h)
  PROVE  Chain'
<1>0. /\ Shapes /\ Request[h] \in {"code", "refresh"} /\ fresh[h] \in Handlers
      /\ Whole(local[h]) /\ Begun(local[h].grant)
      /\ h \notin authorizationCodes /\ h \notin refreshTokens
  <2>1. Shapes /\ Whole(local[h]) /\ Begun(local[h].grant)
    BY TypeOKSplit, CarriersAreBegun DEF IInv, Stores
  <2>2. Request[h] \in {"code", "refresh"} /\ fresh[h] \in Handlers
    BY DEF IInv, Placed, PlacedAt, PreparedAt, Stores
  <2>3. h \notin authorizationCodes /\ h \notin refreshTokens
    BY <2>2 DEF IInv, Stored, CodeStored, TokenStored, Stores
  <2> QED
    BY <2>1, <2>2, <2>3
<1>1. /\ \A k \in authorizationCodes \union refreshTokens : data'[k] = data[k]
      /\ data'[h] = [grant |-> local[h].grant, session |-> fresh[h]]
  BY <1>0, CarriersAreBegun DEF Stores, Shapes
<1>2. Filled'
  BY <1>0, <1>1, CarriersAreBegun DEF Filled, Stores, Whole
<1>3. Stored'
  <2>1. TokenStored(h)'
    BY DEF IInv, Placed, PlacedAt, TokenStored, Stores
  <2>2. \A c \in authorizationCodes : CodeStored(c)'
    BY <1>1, CarriersAreBegun DEF Steady
  <2>3. \A r \in refreshTokens : TokenStored(r)'
    BY CarriersAreBegun DEF Steady, IInv, Stored
  <2> QED
    BY <2>1, <2>2, <2>3 DEF Stored, Stores
<1>4. AllBegun'
  BY <1>0, <1>1, CarriersAreBegun DEF AllBegun, Stores, CarryOn, Steady, Whole
<1>5. OneCarrier'
  <2>1. TokensApart'
    BY <1>0, <1>1 DEF IInv, OneCarrier, TokensApart, TokensFromHandlers, Stores
  <2>2. CodesFromTokens'
    BY <1>0, <1>1 DEF IInv, OneCarrier, CodesFromTokens, CodesFromHandlers, Stores
  <2>3. HandlersApart' /\ CodesFromHandlers'
    BY DEF IInv, OneCarrier, HandlersApart, CodesFromHandlers, Stores, CarryOn
  <2>4. TokensFromHandlers'
    BY <1>0, <1>1 DEF IInv, OneCarrier, HandlersApart, TokensFromHandlers, Stores, CarryOn
  <2> QED
    BY <2>1, <2>2, <2>3, <2>4 DEF OneCarrier
<1>6. Ended'
  BY <1>0, <1>1 DEF IInv, Ended, Stores, CarryOn
<1> QED
  BY <1>2, <1>3, <1>4, <1>5, <1>6 DEF Chain

LEMMA RevokingKeepsChain ==
  ASSUME IInv, Steady, NEW r \in Handlers, Revokes(r)
  PROVE  Chain'
<1>1. Filled'
  BY CarriersAreBegun DEF Filled, Revokes
<1>2. Stored'
  BY CarriersAreBegun DEF IInv, Stored, Revokes, Steady
<1>3. AllBegun'
  BY CarriersAreBegun DEF AllBegun, Revokes, CarryOn, Steady, Whole
<1>4. OneCarrier'
  BY DEF IInv, OneCarrier, TokensApart, HandlersApart, CodesFromTokens, CodesFromHandlers,
         TokensFromHandlers, Revokes, CarryOn
<1>5. Ended'
  BY DEF IInv, OneCarrier, TokensApart, CodesFromTokens, TokensFromHandlers, Ended, Revokes, CarryOn
<1> QED
  BY <1>1, <1>2, <1>3, <1>4, <1>5 DEF Chain

-----------------------------------------------------------------------------

LEMMA LapseKeepsIInv ==
  ASSUME IInv, NEW x \in Handlers, Lapse(x)
  PROVE  IInv'
<1>1. Shapes'
  BY TypeOKSplit DEF IInv, Shapes, Lapse, handlerVars
<1>2. Steady /\ Shrinks
  BY DEF Lapse, handlerVars, Steady, Begun, CodeStored, TokenStored, Shrinks, CarryOn, Carrying
<1>3. Placed'
  BY DEF IInv, Placed, PlacedAt, PreparedAt, Carrying, Lapse, handlerVars
<1>4. Chain'
  BY <1>2, ShrinkingKeepsChain
<1>5. TypeOK'
  BY <1>1, <1>4 DEF TypeOK, Shapes, Filled, Chain
<1> QED
  BY <1>3, <1>4, <1>5 DEF IInv, Chain

LEMMA ServeKeepsIInv ==
  ASSUME IInv, NEW h \in Handlers, Serve(h)
  PROVE  IInv'
<1>0. TypeOK /\ Shapes /\ PlacedAt(h) /\ PreparedAt(h)
  BY TypeOKSplit DEF IInv, Placed
<1>1. Shapes'
  BY <1>0, ShapesStay
<1>2. Placed'
  <2>1. PlacedAt(h)' /\ PreparedAt(h)'
    BY <1>0, HandlerStaysPlaced, HandlerStaysPrepared
  <2>2. \A k \in Handlers : k # h => PlacedAt(k)' /\ PreparedAt(k)'
    BY <1>0, OthersStay DEF IInv, Placed, PlacedAt, PreparedAt, Carrying
  <2> QED
    BY <2>1, <2>2 DEF Placed
<1>3. Chain'
  <2>1. Steady
    BY <1>0, ServeIsSteady
  <2>2. Effect(h)
    BY <1>0, Effects
  <2> QED
    BY <2>1, <2>2, ShrinkingKeepsChain, IssuingKeepsChain, StoringKeepsChain, TakingKeepsChain,
       RevokingKeepsChain DEF Effect
<1>4. TypeOK'
  BY <1>1, <1>3 DEF TypeOK, Shapes, Filled, Chain
<1> QED
  BY <1>2, <1>3, <1>4 DEF IInv, Chain

LEMMA NextKeepsIInv == IInv /\ [Next]_vars => IInv'
<1> SUFFICES ASSUME IInv, [Next]_vars PROVE IInv'
  OBVIOUS
<1>1. CASE Next
  BY <1>1, ServeKeepsIInv, LapseKeepsIInv DEF Next
<1>2. CASE UNCHANGED vars
  <2>1. Steady /\ Shrinks
    BY <1>2 DEF vars, stores, handlerVars, Steady, Begun, CodeStored, TokenStored, Shrinks,
                CarryOn, Carrying
  <2>2. Placed'
    BY <1>2 DEF vars, stores, handlerVars, IInv, Placed, PlacedAt, PreparedAt, Carrying
  <2>3. Chain'
    BY <2>1, ShrinkingKeepsChain
  <2>4. TypeOK'
    BY <1>2 DEF vars, stores, handlerVars, IInv, TypeOK
  <2> QED
    BY <2>2, <2>3, <2>4 DEF IInv, Chain
<1> QED
  BY <1>1, <1>2

LEMMA InvariantHolds == Spec => []IInv
  BY InitEstablishesIInv, NextKeepsIInv, PTL DEF Spec

\* The carriers of a grant are at most one.
LEMMA OneCarrierEach == IInv => GrantNeverForks
<1> SUFFICES ASSUME IInv, NEW g \in Handlers, NEW x \in Carriers(g), NEW y \in Carriers(g)
             PROVE  x = y
  BY DEF GrantNeverForks
<1> DEFINE IsCode(z, c) == c \in authorizationCodes /\ data[c].grant = g /\ z = <<"code", c>>
           IsToken(z, r) == r \in refreshTokens /\ data[r].grant = g /\ z = <<"token", r>>
           IsHandler(z, k) == k \in Handlers /\ Carrying(k) /\ local[k].grant = g /\ z = <<"handler", k>>
<1>1. ASSUME NEW z \in Carriers(g)
      PROVE  \E k : IsCode(z, k) \/ IsToken(z, k) \/ IsHandler(z, k)
  BY <1>1 DEF Carriers
<1>2. PICK k : IsCode(x, k) \/ IsToken(x, k) \/ IsHandler(x, k)
  BY <1>1
<1>3. PICK l : IsCode(y, l) \/ IsToken(y, l) \/ IsHandler(y, l)
  BY <1>1
<1>4. \A c \in authorizationCodes : data[c].grant = c
  BY CarriersAreBegun DEF CodeStored
<1> QED
  BY <1>2, <1>3, <1>4 DEF IInv, OneCarrier, TokensApart, HandlersApart, CodesFromTokens,
                          CodesFromHandlers, TokensFromHandlers

-----------------------------------------------------------------------------

\* Codes and tokens are stored with the grant and the session they stand for,
\* whatever Tableau, the stores and the clients do (callback.ts, token.ts).
THEOREM TypeCorrect == Spec => []TypeOK
<1>1. IInv => TypeOK
  BY DEF IInv
<1> QED
  BY <1>1, InvariantHolds, PTL

\* For any number of requests, codes and refresh tokens are redeemed once:
\* consume takes what it returns, so a grant has one code, token or handler.
THEOREM NoFork == Spec => []GrantNeverForks
  BY OneCarrierEach, InvariantHolds, PTL

\* For any number of requests, when a revocation took a grant's token no
\* refresh under way stores another one.
THEOREM NoRevival == Spec => []RevokedStaysRevoked
<1>1. IInv => RevokedStaysRevoked
  <2> SUFFICES ASSUME IInv, NEW g \in revoked PROVE Carriers(g) = {}
    BY DEF RevokedStaysRevoked
  <2>1. \A c \in authorizationCodes : data[c].grant # g
    BY CarriersAreBegun DEF CodeStored, IInv, Ended
  <2>2. \A r \in refreshTokens : data[r].grant # g
    BY DEF IInv, Ended
  <2>3. \A k \in Handlers : Carrying(k) => local[k].grant # g
    BY DEF IInv, Ended
  <2> QED
    BY <2>1, <2>2, <2>3 DEF Carriers
<1> QED
  BY <1>1, InvariantHolds, PTL

-----------------------------------------------------------------------------
(***************************************************************************)
(* That a live token is found.  A Tableau session belongs to one grant, so *)
(* whoever writes the index entry of a session carries the grant of every  *)
(* token and handler that relies on the entry, and there is one of them.   *)
(***************************************************************************)

\* Tableau gave the session s to the sign-in or to a refresh of grant g.
Belongs(s, g) ==
    /\ s \in Handlers
    /\ \/ Request[s] = "callback" /\ pc[s] \notin {"idle", "signing-in"} /\ g = s
       \/ Request[s] = "refresh" /\ pc[s] \notin {"idle", "exchanging"} /\ g = local[s].grant

SessionAt(h) ==
    /\ pc[h] # "done" => reply[h] = ""
    /\ pc[h] = "issuing" => fresh[h] = h
    /\ Carrying(h) \/ pc[h] = "indexing" => Belongs(local[h].session, local[h].grant)
    /\ pc[h] \in {"minting", "indexing", "unindexing", "reindexing", "storing"}
          => fresh[h] \in Handlers /\ Belongs(fresh[h], local[h].grant)
    /\ pc[h] = "indexing" => data[h] = [grant |-> local[h].grant, session |-> fresh[h]]

Sessions ==
    /\ \A h \in Handlers : SessionAt(h)
    /\ \A x \in authorizationCodes \union refreshTokens : Belongs(data[x].session, data[x].grant)

\* Until its client has it a minted token is all there is of its grant.
MintedAlone(h) ==
    /\ local[h].grant \in Handlers /\ Begun(local[h].grant)
    /\ local[h].grant \notin authorizationCodes
    /\ \A r \in refreshTokens : data[r].grant = local[h].grant => r = h
    /\ \A k \in Handlers \ {h} : Carrying(k) \/ pc[k] = "indexing" => local[k].grant # local[h].grant

Alone == \A h \in Handlers : pc[h] = "indexing" => MintedAlone(h)

\* The index leads from session s to token x, or the entry was lost or revoked.
Findable(x, s) == refreshTokenIndex[s] = x \/ s \in dropped

Found ==
    /\ LiveTokenIsIndexed
    /\ \A h \in Handlers : pc[h] = "storing" => Findable(h, fresh[h])

JInv == IInv /\ Sessions /\ Alone /\ Found

LEMMA OneGrant ==
  ASSUME NEW s, NEW g, NEW e, Belongs(s, g), Belongs(s, e)
  PROVE  g = e
BY DEF Belongs

LEMMA InitEstablishesJInv == Init => JInv
BY InitEstablishesIInv DEF Init, JInv, Sessions, SessionAt, Alone, Found, LiveTokenIsIndexed, Carrying

LEMMA Replies ==
  ASSUME Shapes, NEW h \in Handlers, Serve(h)
  PROVE  /\ \A k \in Handlers : k # h => reply'[k] = reply[k]
         /\ pc'[h] # "done" => reply'[h] = reply[h]
         /\ reply'[h] = "tokens" /\ reply[h] # "tokens" =>
              /\ IndexMinted(h) \/ StoreRotated(h)
              /\ pc'[h] = "done"
<1>1. CASE Authorize(h)
  BY <1>1 DEF Shapes, Authorize, Finish, Answer
<1>2. CASE Callback(h)
  BY <1>2 DEF Shapes, Callback, Receive, Goto, Answer
<1>3. CASE SignIn(h) \/ IssueCode(h) \/ MintToken(h) \/ Exchange(h) \/ Unindex(h) \/ Reindex(h) \/ DeleteToken(h)
  BY <1>3 DEF Shapes, SignIn, IssueCode, MintToken, Exchange, Unindex, Reindex, DeleteToken, Goto, Answer
<1>4. CASE CleanUp(h)
  BY <1>4 DEF Shapes, CleanUp, Finish, Answer
<1>5. CASE ConsumeCode(h)
  BY <1>5 DEF Shapes, ConsumeCode, Receive, Goto, Answer
<1>6. CASE ConsumeToken(h)
  BY <1>6 DEF Shapes, ConsumeToken, Receive, Goto, Answer
<1>7. CASE IndexMinted(h)
  BY <1>7 DEF Shapes, IndexMinted, Finish, Answer
<1>8. CASE StoreRotated(h)
  BY <1>8 DEF Shapes, StoreRotated, Finish, Answer
<1>9. CASE RevokeToken(h)
  BY <1>9 DEF Shapes, RevokeToken, Receive, Goto, Answer
<1>10. CASE FindToken(h)
  BY <1>10 DEF Shapes, FindToken, Receive, Goto, Answer
<1>11. CASE Forget(h)
  BY <1>11 DEF Shapes, Forget, Finish, Answer
<1>12. CASE Fail(h)
  BY <1>12 DEF Shapes, Fail, Answer
<1>13. CASE Reject(h)
  BY <1>13 DEF Shapes, Reject, Answer
<1> QED
  BY <1>1, <1>2, <1>3, <1>4, <1>5, <1>6, <1>7, <1>8, <1>9, <1>10, <1>11, <1>12, <1>13 DEF Serve

\* Where a handler goes, and when it takes something or is given a session.
LEMMA Moves ==
  ASSUME Shapes, NEW h \in Handlers, Serve(h)
  PROVE  \/ pc'[h] = "done" /\ local'[h] = local[h]
         \/ Callback(h) /\ pc[h] = "idle" /\ pc'[h] = "signing-in" /\ Request[h] = "callback"
         \/ SignIn(h) /\ pc[h] = "signing-in" /\ pc'[h] = "issuing" /\ fresh'[h] = h
         \/ IssueCode(h) /\ pc[h] = "issuing" /\ pc'[h] = "cleaning"
         \/ ConsumeCode(h) /\ pc[h] = "idle" /\ pc'[h] = "minting" /\ Request[h] = "code"
         \/ MintToken(h) /\ pc[h] = "minting" /\ pc'[h] = "indexing" /\ local'[h] = local[h] /\ fresh'[h] = fresh[h]
         \/ ConsumeToken(h) /\ pc[h] = "idle" /\ pc'[h] = "exchanging" /\ Request[h] = "refresh"
         \/ pc'[h] = "forgetting" /\ pc[h] \in {"idle", "deleting"}
         \/ Exchange(h) /\ pc[h] = "exchanging" /\ pc'[h] = "unindexing" /\ local'[h] = local[h]
         \/ Unindex(h) /\ pc[h] = "unindexing" /\ pc'[h] = "reindexing" /\ local'[h] = local[h] /\ fresh'[h] = fresh[h]
         \/ Reindex(h) /\ pc[h] = "reindexing" /\ pc'[h] = "storing" /\ local'[h] = local[h] /\ fresh'[h] = fresh[h]
         \/ pc[h] = "idle" /\ pc'[h] = "deleting"
<1>1. CASE Authorize(h) \/ CleanUp(h) \/ IndexMinted(h) \/ StoreRotated(h) \/ Forget(h) \/ Fail(h) \/ Reject(h)
  BY <1>1 DEF Shapes, Authorize, CleanUp, IndexMinted, StoreRotated, Forget, Fail, Reject, Finish, Answer
<1>2. CASE Callback(h)
  BY <1>2 DEF Shapes, Callback, Receive, Goto, Answer
<1>3. CASE SignIn(h)
  BY <1>3 DEF Shapes, SignIn, Goto, Answer
<1>4. CASE IssueCode(h)
  BY <1>4 DEF Shapes, IssueCode, Goto
<1>9. CASE MintToken(h)
  BY <1>9 DEF Shapes, MintToken, Goto
<1>10. CASE Exchange(h)
  BY <1>10 DEF Shapes, Exchange, Goto
<1>11. CASE Unindex(h) \/ Reindex(h)
  BY <1>11 DEF Shapes, Unindex, Reindex, Goto
<1>12. CASE DeleteToken(h)
  BY <1>12 DEF Shapes, DeleteToken, Goto
<1>5. CASE ConsumeCode(h)
  BY <1>5 DEF Shapes, ConsumeCode, Receive, Goto, Answer
<1>6. CASE ConsumeToken(h)
  BY <1>6 DEF Shapes, ConsumeToken, Receive, Goto, Answer
<1>7. CASE RevokeToken(h)
  BY <1>7 DEF Shapes, RevokeToken, Receive, Goto, Answer
<1>8. CASE FindToken(h)
  BY <1>8 DEF Shapes, FindToken, Receive, Goto, Answer
<1> QED
  BY <1>1, <1>2, <1>3, <1>4, <1>5, <1>6, <1>7, <1>8, <1>9, <1>10, <1>11, <1>12 DEF Serve

\* A session stays with its grant.
LEMMA BelongsStays ==
  ASSUME Shapes, NEW h \in Handlers, PlacedAt(h), Serve(h), NEW s, NEW g, Belongs(s, g)
  PROVE  Belongs(s, g)'
<1>1. CASE s # h
  <2>1. s \in Handlers
    BY DEF Belongs
  <2>2. pc'[s] = pc[s] /\ local'[s] = local[s]
    BY <1>1, <2>1, OthersStay
  <2> QED
    BY <2>1, <2>2 DEF Belongs
<1>2. CASE s = h
  <2>1. pc'[h] \notin {"idle", "signing-in", "exchanging"}
        /\ (Request[h] = "refresh" => local'[h] = local[h])
    <3>1. pc[h] # "idle" /\ (Request[h] = "callback" => pc[h] # "signing-in")
          /\ (Request[h] = "refresh" => pc[h] # "exchanging")
      BY <1>2 DEF Belongs
    <3>2. Request[h] = "refresh" => pc[h] # "deleting"
      BY DEF PlacedAt
    <3> QED BY <3>1, <3>2, Moves DEF PlacedAt
  <2> QED BY <1>2, <2>1 DEF Belongs
<1> QED BY <1>1, <1>2

\* What is stored under a key stays as it is.
LEMMA DataStays ==
  ASSUME IInv, NEW h \in Handlers, Serve(h), NEW x \in authorizationCodes \union refreshTokens
  PROVE  x \in Handlers /\ data'[x] = data[x]
<1>1. Shapes /\ x \in Handlers
  BY TypeOKSplit DEF IInv, Shapes
<1>2. CASE x # h
  BY <1>1, <1>2, OthersStay
<1>3. CASE x = h
  <2>1. pc[h] \notin {"issuing", "minting", "storing"}
    BY <1>3 DEF IInv, Stored, CodeStored, TokenStored, Placed, PlacedAt
  <2> QED
    BY <1>1, <2>1, Effects DEF Effect, Shrinks, Issues, Takes, Stores, Revokes
<1> QED
  BY <1>1, <1>2, <1>3

\* A key that was not stored is of a code issued or a token stored just now.
LEMMA NewKeys ==
  ASSUME IInv, NEW h \in Handlers, Serve(h)
  PROVE  /\ \A c \in authorizationCodes' : c \in authorizationCodes \/ (c = h /\ Issues(h))
         /\ \A r \in refreshTokens' : r \in refreshTokens \/ (r = h /\ Stores(h))
<1>1. Effect(h)
  BY Effects, TypeOKSplit DEF IInv
<1> QED
  BY <1>1 DEF Effect, Shrinks, Issues, Takes, Stores, Revokes

LEMMA SessionsStay ==
  ASSUME IInv, Sessions, NEW h \in Handlers, Serve(h)
  PROVE  Sessions'
<1>0. Shapes /\ PlacedAt(h) /\ PreparedAt(h)
  BY TypeOKSplit DEF IInv, Placed
<1>1. \A s, g : Belongs(s, g) => Belongs(s, g)'
  BY <1>0, BelongsStays
<1>2. \A k \in Handlers : k # h => SessionAt(k)'
  <2> SUFFICES ASSUME NEW k \in Handlers, k # h PROVE SessionAt(k)'
    OBVIOUS
  <2>1. SessionAt(k)
    BY DEF Sessions
  <2>2. /\ pc'[k] = pc[k] /\ local'[k] = local[k] /\ fresh'[k] = fresh[k]
        /\ data'[k] = data[k] /\ reply'[k] = reply[k]
    BY <1>0, OthersStay, Replies
  <2> QED
    BY <1>1, <2>1, <2>2 DEF SessionAt, Carrying
<1>3. SessionAt(h)'
  <2>0. SessionAt(h)
    BY DEF Sessions
  <2>r. pc'[h] # "done" => reply'[h] = ""
    BY <1>0, <2>0, Replies, Advance DEF SessionAt
  <2>1. CASE pc'[h] \in {"done", "signing-in", "cleaning", "forgetting", "deleting"}
    BY <2>1, <2>r DEF SessionAt, Carrying
  <2>2. CASE pc'[h] = "issuing" /\ fresh'[h] = h
    BY <2>2, <2>r DEF SessionAt, Carrying
  <2>3. CASE ConsumeCode(h) /\ pc'[h] = "minting"
    <3>1. PICK x \in authorizationCodes : local'[h] = data[x] /\ fresh'[h] = data[x].session
      BY <1>0, <2>3 DEF Shapes, ConsumeCode, Answer, Goto
    <3>2. Belongs(data[x].session, data[x].grant)
      BY DEF Sessions
    <3>3. PICK s, g : s = data[x].session /\ g = data[x].grant
      OBVIOUS
    <3>4. Belongs(s, g)'
      BY <1>1, <3>2, <3>3
    <3>5. local'[h].session = s /\ local'[h].grant = g /\ fresh'[h] = s
      BY <3>1, <3>3
    <3> QED
      BY <2>3, <2>r, <3>4, <3>5 DEF SessionAt, Carrying, Belongs
  <2>4. CASE MintToken(h) /\ pc[h] = "minting" /\ pc'[h] = "indexing"
             /\ local'[h] = local[h] /\ fresh'[h] = fresh[h]
    <3>1. data'[h] = [grant |-> local[h].grant, session |-> fresh[h]]
      BY <1>0, <2>4 DEF Shapes, MintToken, StoreToken
    <3> QED
      BY <1>1, <2>0, <2>4, <2>r, <3>1 DEF SessionAt, Carrying
  <2>5. CASE ConsumeToken(h) /\ pc'[h] = "exchanging"
    <3>1. PICK x \in refreshTokens : local'[h] = data[x]
      BY <1>0, <2>5 DEF Shapes, ConsumeToken, Answer, Goto
    <3>2. Belongs(data[x].session, data[x].grant)
      BY DEF Sessions
    <3>3. PICK s, g : s = data[x].session /\ g = data[x].grant
      OBVIOUS
    <3>4. Belongs(s, g)'
      BY <1>1, <3>2, <3>3
    <3>5. local'[h].session = s /\ local'[h].grant = g
      BY <3>1, <3>3
    <3> QED
      BY <2>5, <2>r, <3>4, <3>5 DEF SessionAt, Carrying
  <2>6. CASE Exchange(h) /\ pc[h] = "exchanging" /\ pc'[h] = "unindexing" /\ local'[h] = local[h]
    <3>1. fresh'[h] \in {h, local[h].session}
      BY <1>0, <2>6 DEF Shapes, Exchange
    <3>2. Belongs(h, local[h].grant)'
      BY <1>0, <2>6 DEF PlacedAt, Belongs
    <3>3. Belongs(local[h].session, local[h].grant)
      BY <2>0, <2>6 DEF SessionAt, Carrying
    <3>4. PICK s, g : s = local[h].session /\ g = local[h].grant
      OBVIOUS
    <3>5. Belongs(s, g)'
      BY <1>1, <3>3, <3>4
    <3>6. local'[h].session = s /\ local'[h].grant = g /\ fresh'[h] \in {h, s}
      BY <2>6, <3>1, <3>4
    <3> QED
      BY <2>6, <2>r, <3>2, <3>5, <3>6 DEF SessionAt, Carrying, Belongs
  <2>7. CASE /\ \/ pc[h] = "unindexing" /\ pc'[h] = "reindexing"
                \/ pc[h] = "reindexing" /\ pc'[h] = "storing"
             /\ local'[h] = local[h] /\ fresh'[h] = fresh[h]
    BY <1>1, <2>0, <2>7, <2>r DEF SessionAt, Carrying
  <2> QED
    BY <1>0, <2>1, <2>2, <2>3, <2>4, <2>5, <2>6, <2>7, Moves
<1>4. ASSUME NEW x \in (authorizationCodes \union refreshTokens)'
      PROVE  Belongs(data[x].session, data[x].grant)'
  <2>1. CASE x \in authorizationCodes \union refreshTokens
    <3>1. PICK s, g : s = data[x].session /\ g = data[x].grant
      OBVIOUS
    <3>2. Belongs(s, g)'
      BY <1>1, <2>1, <3>1 DEF Sessions
    <3> QED
      BY <2>1, <3>1, <3>2, DataStays
  <2>2. CASE x = h /\ Issues(h)
    <3>1. fresh[h] = h
      BY <2>2 DEF Issues, Sessions, SessionAt
    <3>2. data'[h].session = h /\ data'[h].grant = h
      BY <1>0, <2>2, <3>1 DEF Issues, Shapes
    <3> QED
      BY <1>0, <2>2, <3>2 DEF Issues, PlacedAt, Belongs
  <2>3. CASE x = h /\ Stores(h)
    <3>1. PICK s, g : s = fresh[h] /\ g = local[h].grant
      OBVIOUS
    <3>2. Belongs(s, g)'
      BY <1>1, <2>3, <3>1 DEF Stores, Sessions, SessionAt
    <3>3. data'[h].session = s /\ data'[h].grant = g
      BY <1>0, <2>3, <3>1 DEF Stores, Shapes
    <3> QED
      BY <2>3, <3>2, <3>3
  <2> QED
    BY <2>1, <2>2, <2>3, NewKeys
<1> QED
  BY <1>2, <1>3, <1>4 DEF Sessions

\* A minted token no client has yet cannot be sent, so nothing takes it.
LEMMA StaysAlone ==
  ASSUME IInv, Sessions, Alone, NEW h \in Handlers, Serve(h),
         NEW k \in Handlers, k # h, pc[k] = "indexing"
  PROVE  MintedAlone(k)'
<1>0. Shapes /\ PlacedAt(h)
  BY TypeOKSplit DEF IInv, Placed
<1> DEFINE g == local[k].grant
<1>1. /\ g \in Handlers /\ Begun(g) /\ g \notin authorizationCodes
      /\ \A r \in refreshTokens : data[r].grant = g => r = k
      /\ \A j \in Handlers \ {k} : Carrying(j) \/ pc[j] = "indexing" => local[j].grant # g
  BY DEF Alone, MintedAlone
<1>2. local'[k] = local[k]
  BY <1>0, OthersStay
<1>3. Begun(g)'
  <2>1. PICK e \in Handlers : e = g
    BY <1>1
  <2>2. Begun(e)'
    BY <1>0, <1>1, <2>1, ServeIsSteady DEF Steady
  <2> QED
    BY <1>2, <2>1, <2>2
<1>4. g \notin authorizationCodes'
  BY <1>0, <1>1, NewKeys DEF Begun, Issues, PlacedAt
<1>5. \A r \in refreshTokens' : data'[r].grant = g => r = k
  <2> SUFFICES ASSUME NEW r \in refreshTokens', data'[r].grant = g PROVE r = k
    OBVIOUS
  <2>1. CASE r \in refreshTokens
    BY <1>1, <2>1, DataStays
  <2>2. CASE r = h /\ Stores(h)
    <3>1. data'[h].grant = local[h].grant /\ Carrying(h)
      BY <1>0, <2>2 DEF Stores, Shapes
    <3> QED
      BY <1>1, <2>2, <3>1
  <2> QED
    BY <2>1, <2>2, NewKeys
<1>6. \A j \in Handlers \ {k} : (Carrying(j) \/ pc[j] = "indexing")' => local'[j].grant # g
  <2>1. \A j \in Handlers \ {k, h} : (Carrying(j) \/ pc[j] = "indexing")' => local'[j].grant # g
    BY <1>0, <1>1, OthersStay DEF Carrying
  <2>2. ASSUME (Carrying(h) \/ pc[h] = "indexing")', local'[h].grant = g PROVE FALSE
    <3>1. CASE Carrying(h)
      BY <1>0, <1>1, <2>2, <3>1, Moves DEF Carrying
    <3>2. CASE ConsumeCode(h)
      <4>1. pc'[h] # "done"
        BY <2>2 DEF Carrying
      <4>2. PICK x \in authorizationCodes : local'[h] = data[x]
        BY <1>0, <3>2, <4>1 DEF Shapes, ConsumeCode, Answer, Goto
      <4> QED
        BY <1>1, <2>2, <4>2, CarriersAreBegun DEF CodeStored
    <3>3. CASE ConsumeToken(h)
      <4>1. PICK x \in refreshTokens : local'[h] = data[x] /\ Known(h, x)
        BY <1>0, <2>2, <3>3 DEF Shapes, ConsumeToken, Receive, Answer, Goto, Carrying
      <4>2. x = k
        BY <1>1, <2>2, <4>1
      <4>3. reply[k] = ""
        BY DEF Sessions, SessionAt
      <4>4. HasTokens(x)
        BY <3>3, <4>1 DEF ConsumeToken, Receive, Known
      <4> QED
        BY <4>2, <4>3, <4>4 DEF HasTokens
    <3> QED
      BY <1>0, <2>2, <3>1, <3>2, <3>3, Moves DEF Carrying
  <2> QED
    BY <2>1, <2>2
<1> QED
  BY <1>1, <1>2, <1>3, <1>4, <1>5, <1>6 DEF MintedAlone

LEMMA AloneStays ==
  ASSUME IInv, Sessions, Alone, NEW h \in Handlers, Serve(h)
  PROVE  Alone'
<1>0. Shapes /\ PlacedAt(h)
  BY TypeOKSplit DEF IInv, Placed
<1> SUFFICES ASSUME NEW k \in Handlers, pc'[k] = "indexing" PROVE MintedAlone(k)'
  BY DEF Alone
<1>1. CASE k # h
  BY <1>0, <1>1, StaysAlone, OthersStay
<1>2. CASE k = h
  <2> DEFINE g == local[h].grant
  <2>1. MintToken(h) /\ Carrying(h) /\ local'[h] = local[h]
    BY <1>0, <1>2, Moves DEF Carrying
  <2>2. g \in Handlers /\ Begun(g) /\ g \notin authorizationCodes
    BY <2>1, CarriersAreBegun DEF IInv, OneCarrier, CodesFromHandlers, Whole
  <2>3. Begun(g)'
    <3>1. PICK e \in Handlers : e = g
      BY <2>2
    <3>2. Begun(e)'
      BY <1>0, <2>2, <3>1, ServeIsSteady DEF Steady
    <3> QED
      BY <2>1, <3>1, <3>2
  <2>4. authorizationCodes' = authorizationCodes
    BY <2>1 DEF MintToken
  <2>5. \A r \in refreshTokens' : data'[r].grant = g => r = h
    <3>1. \A r \in refreshTokens : data[r].grant # g
      BY <2>1 DEF IInv, OneCarrier, TokensFromHandlers
    <3> QED
      BY <3>1, DataStays, NewKeys
  <2>6. \A j \in Handlers \ {h} : Carrying(j) \/ pc[j] = "indexing" => local[j].grant # g
    <3>1. \A j \in Handlers \ {h} : Carrying(j) => local[j].grant # g
      BY <2>1 DEF IInv, OneCarrier, HandlersApart
    <3>2. \A j \in Handlers \ {h} : pc[j] = "indexing" => local[j].grant # g
      BY <2>1 DEF Alone, MintedAlone
    <3> QED
      BY <3>1, <3>2
  <2>7. \A j \in Handlers \ {h} : (Carrying(j) \/ pc[j] = "indexing")' => local'[j].grant # g
    BY <1>0, <2>6, OthersStay DEF Carrying
  <2> QED
    BY <1>2, <2>1, <2>2, <2>3, <2>4, <2>5, <2>7 DEF MintedAlone
<1> QED
  BY <1>1, <1>2

\* What a step does to the index: nothing; it leads from one session to the
\* handler's token, or nowhere while the handler rotates; or entries are lost.
Leads(h) ==
    /\ \/ pc[h] = "indexing"
       \/ pc[h] = "reindexing" /\ pc'[h] = "storing"
    /\ refreshTokenIndex' = [refreshTokenIndex EXCEPT ![fresh[h]] = h]
    /\ dropped' = dropped \ {fresh[h]}

Interrupts(h) ==
    /\ pc[h] = "unindexing"
    /\ refreshTokenIndex' = [refreshTokenIndex EXCEPT ![local[h].session] = None]
    /\ dropped' = dropped

Loses ==
    /\ dropped \subseteq dropped'
    /\ \A s \in Handlers : refreshTokenIndex'[s] = refreshTokenIndex[s] \/ s \in dropped'

LEMMA IndexEffects ==
  ASSUME Shapes, NEW h \in Handlers, PreparedAt(h), Serve(h)
  PROVE  Leads(h) \/ Interrupts(h) \/ Loses
<1>1. CASE IndexMinted(h)
  BY <1>1 DEF IndexMinted, IndexToken, Leads
<1>2. CASE Reindex(h)
  BY <1>2 DEF Shapes, Reindex, IndexToken, Goto, Leads
<1>3. CASE Unindex(h)
  BY <1>3 DEF Unindex, Interrupts
<1>4. CASE Forget(h)
  BY <1>4 DEF Shapes, Forget, Loses
<1>5. CASE refreshTokenIndex' = refreshTokenIndex /\ dropped' = dropped
  BY <1>5 DEF Loses
<1>6. CASE Authorize(h) \/ IssueCode(h) \/ CleanUp(h)
  BY <1>5, <1>6 DEF Authorize, IssueCode, CleanUp
<1>7. CASE Callback(h) \/ SignIn(h) \/ Exchange(h) \/ FindToken(h) \/ Fail(h) \/ Reject(h)
  BY <1>5, <1>7 DEF Callback, SignIn, Exchange, FindToken, Fail, Reject, stores
<1>8. CASE ConsumeCode(h) \/ MintToken(h) \/ ConsumeToken(h) \/ StoreRotated(h)
  BY <1>5, <1>8 DEF ConsumeCode, MintToken, ConsumeToken, StoreRotated
<1>9. CASE RevokeToken(h) \/ DeleteToken(h)
  BY <1>5, <1>9 DEF RevokeToken, DeleteToken
<1> QED
  BY <1>1, <1>2, <1>3, <1>4, <1>6, <1>7, <1>8, <1>9 DEF Serve

\* An entry stays unless the handler that writes it carries the same grant.
LEMMA FindableStays ==
  ASSUME Shapes, NEW h \in Handlers, PreparedAt(h), SessionAt(h), Serve(h),
         NEW x, NEW s, NEW g, Belongs(s, g), Findable(x, s),
         Carrying(h) => local[h].grant # g,
         pc[h] = "indexing" => x = h \/ local[h].grant # g
  PROVE  Findable(x, s)'
<1>0. s \in Handlers
  BY DEF Belongs
<1>1. CASE Leads(h)
  <2>1. Belongs(fresh[h], local[h].grant)
    BY <1>1 DEF Leads, SessionAt
  <2>2. fresh[h] # s \/ x = h
    BY <1>1, <2>1, OneGrant DEF Leads, Carrying
  <2> QED
    BY <1>0, <1>1, <2>2 DEF Leads, Findable, Shapes
<1>2. CASE Interrupts(h)
  <2>1. Belongs(local[h].session, local[h].grant) /\ Carrying(h)
    BY <1>2 DEF Interrupts, SessionAt, Carrying
  <2>2. local[h].session # s
    BY <2>1, OneGrant
  <2> QED
    BY <1>0, <1>2, <2>2 DEF Interrupts, Findable, Shapes
<1>3. CASE Loses
  BY <1>0, <1>3 DEF Loses, Findable
<1> QED
  BY <1>1, <1>2, <1>3, IndexEffects

LEMMA FoundStays ==
  ASSUME IInv, Sessions, Alone, Found, NEW h \in Handlers, Serve(h)
  PROVE  Found'
<1>0. Shapes /\ PlacedAt(h) /\ PreparedAt(h) /\ SessionAt(h)
  BY TypeOKSplit DEF IInv, Placed, Sessions
<1>1. ASSUME NEW r \in refreshTokens', HasTokens(r)'
      PROVE  Findable(r, data[r].session)'
  <2>1. CASE r \in refreshTokens /\ HasTokens(r)
    <3>1. PICK s, g : s = data[r].session /\ g = data[r].grant
      OBVIOUS
    <3>2. Belongs(s, g) /\ Findable(r, s)
      BY <2>1, <3>1 DEF Sessions, Found, LiveTokenIsIndexed, Findable
    <3>3. Carrying(h) => local[h].grant # g
      BY <2>1, <3>1 DEF IInv, OneCarrier, TokensFromHandlers
    <3>4. pc[h] = "indexing" => r = h \/ local[h].grant # g
      BY <2>1, <3>1 DEF Alone, MintedAlone
    <3>5. Findable(r, s)'
      BY <1>0, <3>2, <3>3, <3>4, FindableStays
    <3> QED
      BY <2>1, <3>1, <3>5, DataStays
  <2>2. CASE r \in refreshTokens /\ ~HasTokens(r)
    <3>1. r = h /\ (IndexMinted(h) \/ StoreRotated(h))
      BY <1>0, <1>1, <2>2, Replies DEF HasTokens, IInv, Shapes
    <3>2. IndexMinted(h)
      BY <2>2, <3>1 DEF IInv, Stored, TokenStored, StoreRotated, Placed, PlacedAt
    <3>3. data'[h].session = fresh[h] /\ fresh[h] \in Handlers
      <4>1. data'[h] = data[h]
        BY <2>2, <3>1, DataStays
      <4>2. data[h].session = fresh[h] /\ fresh[h] \in Handlers
        <5>1. pc[h] = "indexing"
          BY <3>2 DEF IndexMinted
        <5>2. data[h] = [grant |-> local[h].grant, session |-> fresh[h]] /\ fresh[h] \in Handlers
          BY <1>0, <5>1 DEF SessionAt
        <5> QED
          BY <5>2
      <4> QED
        BY <4>1, <4>2
    <3>4. refreshTokenIndex'[fresh[h]] = h
      BY <1>0, <3>2, <3>3 DEF IndexMinted, IndexToken, Shapes
    <3> QED
      BY <3>1, <3>3, <3>4 DEF Findable
  <2>3. CASE r = h /\ Stores(h)
    <3>1. pc'[h] = "done" /\ reply[h] = ""
      BY <1>0, <1>1, <2>3, Replies DEF Stores, SessionAt, HasTokens
    <3>2. StoreRotated(h)
      BY <1>0, <1>1, <2>3, <3>1, Replies DEF HasTokens, IndexMinted, Stores
    <3>3. PICK s : s = fresh[h]
      OBVIOUS
    <3>4. Findable(h, s)
      BY <3>2, <3>3 DEF StoreRotated, Found
    <3>5. Findable(h, s)'
      BY <3>2, <3>4 DEF StoreRotated, Findable
    <3>6. data'[h].session = s
      BY <1>0, <2>3, <3>3 DEF Stores, Shapes
    <3> QED
      BY <2>3, <3>5, <3>6
  <2> QED
    BY <2>1, <2>2, <2>3, NewKeys
<1>2. ASSUME NEW k \in Handlers, pc'[k] = "storing"
      PROVE  Findable(k, fresh[k])'
  <2>1. CASE k = h
    <3>1. Reindex(h) /\ pc[h] = "reindexing" /\ fresh'[h] = fresh[h]
      BY <1>0, <1>2, <2>1, Moves
    <3>2. refreshTokenIndex'[fresh[h]] = h
      BY <1>0, <3>1 DEF Reindex, IndexToken, Shapes, SessionAt
    <3> QED
      BY <2>1, <3>1, <3>2 DEF Findable
  <2>2. CASE k # h
    <3>1. pc[k] = "storing" /\ fresh'[k] = fresh[k]
      BY <1>0, <1>2, <2>2, OthersStay
    <3>2. PICK s, g : s = fresh[k] /\ g = local[k].grant
      OBVIOUS
    <3>3. Belongs(s, g) /\ Findable(k, s)
      BY <3>1, <3>2 DEF Sessions, SessionAt, Found
    <3>4. Carrying(h) => local[h].grant # g
      BY <2>2, <3>1, <3>2 DEF IInv, OneCarrier, HandlersApart, Carrying
    <3>5. pc[h] = "indexing" => local[h].grant # g
      BY <2>2, <3>1, <3>2 DEF Alone, MintedAlone, Carrying
    <3>6. Findable(k, s)'
      BY <1>0, <3>3, <3>4, <3>5, FindableStays
    <3> QED
      BY <3>1, <3>2, <3>6
  <2> QED
    BY <2>1, <2>2
<1>3. LiveTokenIsIndexed'
  BY <1>1 DEF LiveTokenIsIndexed, Findable
<1> QED
  BY <1>2, <1>3 DEF Found

LEMMA UntouchedSessions ==
  ASSUME Sessions, pc' = pc, local' = local, fresh' = fresh, reply' = reply, data' = data,
         authorizationCodes' \subseteq authorizationCodes, refreshTokens' \subseteq refreshTokens
  PROVE  Sessions'
<1>1. \A s, g : Belongs(s, g) => Belongs(s, g)'
  BY DEF Belongs
<1>2. ASSUME NEW k \in Handlers PROVE SessionAt(k)'
  <2>1. SessionAt(k)
    BY DEF Sessions
  <2> QED
    BY <1>1, <2>1 DEF SessionAt, Carrying
<1>3. ASSUME NEW x \in (authorizationCodes \union refreshTokens)'
      PROVE  Belongs(data[x].session, data[x].grant)'
  BY <1>1 DEF Sessions
<1> QED
  BY <1>2, <1>3 DEF Sessions

LEMMA LapseKeepsJInv ==
  ASSUME JInv, NEW x \in Handlers, Lapse(x)
  PROVE  JInv'
<1>1. IInv'
  BY LapseKeepsIInv DEF JInv
<1>2. /\ authorizationCodes' \subseteq authorizationCodes
      /\ refreshTokens' \subseteq refreshTokens
      /\ pc' = pc /\ local' = local /\ fresh' = fresh /\ reply' = reply /\ data' = data
  BY DEF Lapse, handlerVars
<1>3. Loses
  BY TypeOKSplit DEF Lapse, Loses, JInv, IInv, Shapes
<1>4. \A y, s : s \in Handlers /\ Findable(y, s) => Findable(y, s)'
  BY <1>3 DEF Loses, Findable
<1>5. Sessions'
  BY <1>2, UntouchedSessions DEF JInv
<1>6. Alone'
  BY <1>2 DEF JInv, Alone, MintedAlone, Begun, Carrying
<1>7. Found'
  <2>1. LiveTokenIsIndexed'
    <3> SUFFICES ASSUME NEW r \in refreshTokens', HasTokens(r)'
                 PROVE  Findable(r, data[r].session)'
      BY DEF LiveTokenIsIndexed, Findable
    <3>1. PICK s : s = data[r].session
      OBVIOUS
    <3>2. s \in Handlers /\ Findable(r, s)
      BY <1>2, <3>1 DEF JInv, Sessions, Belongs, Found, LiveTokenIsIndexed, HasTokens, Findable
    <3> QED
      BY <1>2, <1>4, <3>1, <3>2
  <2>2. ASSUME NEW k \in Handlers, pc'[k] = "storing" PROVE Findable(k, fresh[k])'
    <3>1. PICK s : s = fresh[k]
      OBVIOUS
    <3>2. s \in Handlers /\ Findable(k, s)
      BY <1>2, <2>2, <3>1 DEF JInv, Sessions, SessionAt, Found
    <3> QED
      BY <1>2, <1>4, <3>1, <3>2
  <2> QED
    BY <2>1, <2>2 DEF Found
<1> QED
  BY <1>1, <1>5, <1>6, <1>7 DEF JInv

LEMMA NextKeepsJInv == JInv /\ [Next]_vars => JInv'
<1> SUFFICES ASSUME JInv, [Next]_vars PROVE JInv'
  OBVIOUS
<1>1. CASE \E h \in Handlers : Serve(h)
  BY <1>1, NextKeepsIInv, SessionsStay, AloneStays, FoundStays DEF JInv, Next
<1>2. CASE \E x \in Handlers : Lapse(x)
  BY <1>2, LapseKeepsJInv
<1>3. CASE UNCHANGED vars
  <2>1. IInv'
    BY NextKeepsIInv DEF JInv
  <2>2. Sessions'
    BY <1>3, UntouchedSessions DEF vars, stores, handlerVars, JInv
  <2>3. Alone'
    BY <1>3 DEF vars, stores, handlerVars, JInv, Alone, MintedAlone, Begun, Carrying
  <2>4. Found'
    BY <1>3 DEF vars, stores, handlerVars, JInv, Found, Findable, LiveTokenIsIndexed, HasTokens
  <2> QED
    BY <2>1, <2>2, <2>3, <2>4 DEF JInv
<1> QED
  BY <1>1, <1>2, <1>3 DEF Next

\* For any number of sign-ins, rotations and revocations, a refresh token that a
\* client holds can be found from its access token: the index entry that the
\* order of writes in token.ts leaves, unless it lapsed or its session was revoked.
THEOREM LiveTokensAreFound == Spec => []LiveTokenIsIndexed
<1>1. Spec => []JInv
  BY InitEstablishesJInv, NextKeepsJInv, PTL DEF Spec
<1>2. JInv => LiveTokenIsIndexed
  BY DEF JInv, Found
<1> QED
  BY <1>1, <1>2, PTL
=============================================================================
