--------------------------- MODULE MCOAuthGrants ---------------------------
(* One sign-in whose code and refresh token are each sent twice, while its *)
(* tokens are revoked, by refresh token and by access token.               *)
EXTENDS OAuthGrants

CONSTANTS au, cb, t1, t2, f1, f2, vr, va

Sent == {au, cb, t1, t2, f1, f2, vr, va}
Requested == [h \in Handlers |->
    CASE h = au -> "authorize"
      [] h = cb -> "callback"
      [] h \in {t1, t2} -> "code"
      [] h \in {f1, f2} -> "refresh"
      [] h = vr -> "revoke-refresh"
      [] h = va -> "revoke-access"]
=============================================================================
