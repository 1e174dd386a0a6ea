---------------------------- MODULE MCKeyCache ----------------------------
(* Two keys of Auth0 and one of somebody else; tokens that differ from a good *)
(* one in a single claim.                                                     *)
EXTENDS KeyCache, TLC

CONSTANTS k1, k2, other, good, ageless, foreign, elsewhere,
          misdirected, mislabelled

Good ==
  [kid |-> k1, signer |-> k1, issuer |-> "auth0", audience |-> {"service", "more"},
   subject |-> "ann", scopes |-> {}, from |-> 0,
   expires |-> TRUE, exp |-> 1]

MCClaims ==
  good :> Good
    @@ ageless :> [Good EXCEPT !.expires = FALSE, !.from = 1]
    @@ foreign :> [Good EXCEPT !.signer = other]
    @@ elsewhere :> [Good EXCEPT !.issuer = "elsewhere"]
    @@ misdirected :> [Good EXCEPT !.audience = {"more"}]
    @@ mislabelled :> [Good EXCEPT !.kid = k2]
=============================================================================
