--------------------------- MODULE TokenVerifier ---------------------------
(***************************************************************************)
(* The two parsers of internal/infrastructure/jwt.  What a caller sends is *)
(* a string, here its fields as strings.Fields splits them; a compact      *)
(* token is one field.  Signatures, times and the decoding of claims are   *)
(* the jwx library's; the tests that follow are the service's.             *)
(***************************************************************************)
EXTENDS Naturals, Sequences

CONSTANTS
  Token,       \* the compact tokens that may be sent
  Claims,      \* Claims[t]: what the library reads from token t
  Junk,        \* fields that are no token
  Bearer,      \* the fields that strings.EqualFold calls "Bearer"
  Kid,         \* key identifiers
  Issuer,      \* ExpectedIssuer
  Audience     \* ExpectedAudience

OK == ""

\* kid is the identifier in the header, signer the key that made the signature;
\* the token is good from "from" (nbf and iat) and, if it expires, until "exp".
\* A blank subject is "".
ClaimsType ==
  [kid : Kid, signer : Kid, issuer : STRING, audience : SUBSET STRING,
   subject : STRING, scopes : SUBSET STRING, from : Nat,
   expires : BOOLEAN, exp : Nat]

ASSUME TokenAssumption ==
  /\ Claims \in [Token -> ClaimsType]
  /\ Token \cap (Junk \cup Bearer) = {}
  \* NewConfigFromJWKS leaves neither empty, which would stand for any.
  /\ Issuer \in STRING \ {""} /\ Audience \in STRING \ {""}

Field == Token \cup Junk \cup Bearer
-----------------------------------------------------------------------------
\* cleanTokenString: the fields that are left, or none for "token is required".
CleanTokenString(fields, allowBearer) ==
  IF allowBearer /\ Len(fields) > 1 /\ fields[1] \in Bearer
    THEN Tail(fields) ELSE fields

\* Validation by the library: the boundary of exp is excluded.
Timely(t, now) ==
  /\ Claims[t].from <= now
  /\ Claims[t].expires => now < Claims[t].exp

\* jwt.Parse with a key set looks the key up by the kid of the header; with a
\* single key it does not look at the kid.
ParsesWithKeySet(fields, keys, now) ==
  \E t \in Token :
    /\ fields = <<t>> /\ Timely(t, now)
    /\ Claims[t].kid \in keys /\ Claims[t].signer = Claims[t].kid

ParsesWithKey(fields, key, now) ==
  \E t \in Token :
    fields = <<t>> /\ Timely(t, now) /\ Claims[t].signer = key

\* Not the code: the issuer is not compared.
VerifyAnyIssuer(fields, keys, now) ==
  LET clean == CleanTokenString(fields, TRUE)
      claims == Claims[clean[1]]
  IN IF clean = <<>> THEN "token is required"
     ELSE IF ~ParsesWithKeySet(clean, keys, now) THEN "signature verification failed"
     ELSE IF Audience \notin claims.audience THEN "invalid audience"
     ELSE IF claims.subject = "" THEN "missing sub"
     ELSE OK

\* Config.Verify.
Verify(fields, keys, now) ==
  LET clean == CleanTokenString(fields, TRUE)
      claims == Claims[clean[1]]
  IN IF clean = <<>> THEN "token is required"
     ELSE IF ~ParsesWithKeySet(clean, keys, now) THEN "signature verification failed"
     ELSE IF claims.issuer # Issuer THEN "invalid issuer"
     ELSE IF Audience \notin claims.audience THEN "invalid audience"
     ELSE IF claims.subject = "" THEN "missing sub"
     ELSE OK

\* ParseOptions, with the key by its identifier; "" expects nothing.
DefaultParseOptions(key) ==
  [expires |-> TRUE, scopes |-> {}, bearer |-> TRUE, subject |-> TRUE,
   key |-> key, issuer |-> "", audience |-> ""]

ParseVerified(fields, opts, now) ==
  LET clean == CleanTokenString(fields, opts.bearer)
      claims == Claims[clean[1]]
  IN IF clean = <<>> THEN "token is required"
     ELSE IF ~ParsesWithKey(clean, opts.key, now) THEN "signature verification failed"
     ELSE IF opts.issuer \notin {"", claims.issuer} THEN "invalid issuer"
     ELSE IF opts.audience \notin {""} \cup claims.audience THEN "invalid audience"
     ELSE IF opts.expires /\ ~claims.expires THEN "missing exp"
     ELSE IF opts.subject /\ claims.subject = "" THEN "missing sub"
     ELSE IF ~(opts.scopes \subseteq claims.scopes) THEN "missing scope"
     ELSE OK
-----------------------------------------------------------------------------
\* ParseVerified as Verify expects a token to be: the options are the default ones,
\* which demand an expiration, with the issuer and the audience.
ExpectingOptions(key) ==
  [DefaultParseOptions(key) EXCEPT !.issuer = Issuer, !.audience = Audience]

\* What ParseVerified accepts, under the key that the header names and that is one
\* of the keys, are the tokens with an expiration among those that Verify accepts.
AgreeButForExpiry(fields, keys, now) ==
  LET claims == Claims[fields[Len(fields)]]
  IN (\E k \in keys :
        k = claims.kid /\ ParseVerified(fields, ExpectingOptions(k), now) = OK)
       <=> Verify(fields, keys, now) = OK /\ claims.expires
=============================================================================
