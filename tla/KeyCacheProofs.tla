--------------------------- MODULE KeyCacheProofs ---------------------------
(***************************************************************************)
(* Proofs for KeyCache: for any number of keys and tokens, the cache is as *)
(* fresh as its last successful fetch, and whoever is let in holds a token *)
(* that Auth0 issued with a key not known to be withdrawn.  The two        *)
(* parsers of a token never disagree.                                      *)
(***************************************************************************)
EXTENDS KeyCache, TLAPS

\* A key that was withdrawn does not come back, and what Auth0 is seen to serve it
\* serves until it withdraws it.
Seen(snapshot, keys) ==
  /\ keys \cap snapshot.withdrawn = {}
  /\ snapshot.served \subseteq keys \cup withdrawn
  /\ keys \subseteq served \cup withdrawn

IInv ==
  /\ TypeOK
  /\ served \cap withdrawn = {}
  /\ asked.served \subseteq served \cup withdrawn /\ asked.withdrawn \subseteq withdrawn
  /\ fetch = "answered" => Seen(asked, answer)
  /\ Seen(basis, cached)
  /\ \A t \in issued : Issuable(t)
  /\ OnlyIssued /\ KnownIsAccepted
-----------------------------------------------------------------------------
\* A pair is not a single, and its tail is one.
LEMMA PairFacts ==
  ASSUME NEW S, NEW a \in S, NEW b \in S, NEW c
  PROVE  Len(<<a, b>>) = 2 /\ Tail(<<a, b>>) = <<b>> /\ <<a, b>> # <<c>>
  <1>1. Len(<<a, b>>) = 2 /\ Len(<<c>>) = 1
    OBVIOUS
  <1>2. <<a, b>> \in Seq(S)
    OBVIOUS
  <1>3. Tail(<<a, b>>) = <<b>>
    BY <1>2
  <1> QED
    BY <1>1, <1>3

\* A token that Verify lets in is one that the library parses, from Issuer.
LEMMA AcceptedIsIssuable ==
  ASSUME NEW t \in Token, NEW fields \in Sendings(t), NEW keys \in SUBSET Key,
         NEW time, Verify(fields, keys, time) = OK
  PROVE  Issuable(t) /\ Claims[t].kid \in keys
  <1> DEFINE clean == CleanTokenString(fields, TRUE)
  <1>1. ParsesWithKeySet(clean, keys, time) /\ Claims[clean[1]].issuer = Issuer
    <2> HIDE DEF clean
    <2> QED
      BY DEF Verify, OK, clean
  <1>2. PICK u \in Token :
          clean = <<u>> /\ Claims[u].kid \in keys /\ Claims[u].signer = Claims[u].kid
    BY <1>1 DEF ParsesWithKeySet
  <1>3. u = t
    <2>1. CASE fields = <<t>>
      BY <2>1, <1>2 DEF CleanTokenString
    <2>2. CASE \E b \in Field : fields = <<b, t>>
      <3>1. PICK b \in Field : fields = <<b, t>>
        BY <2>2
      <3>2. Len(fields) = 2 /\ Tail(fields) = <<t>> /\ fields # <<u>>
        BY <3>1, PairFacts DEF Field
      <3>3. clean = fields \/ clean = <<t>>
        BY <3>2 DEF CleanTokenString
      <3>4. clean # fields
        BY <1>2, <3>2
      <3>5. <<u>> = <<t>>
        BY <1>2, <3>3, <3>4
      <3> HIDE DEF clean
      <3> QED
        BY <3>5
    <2> QED
      BY <2>1, <2>2 DEF Sendings, Field
  <1>4. Claims[t].issuer = Issuer
    <2> HIDE DEF clean
    <2>1. clean[1] = t
      BY <1>2, <1>3
    <2> QED
      BY <1>1, <2>1
  <1> QED
    BY <1>2, <1>3, <1>4 DEF Issuable

\* A single field is left alone.
LEMMA SingleIsKept == ASSUME NEW t PROVE CleanTokenString(<<t>>, TRUE) = <<t>>
  <1>1. ~(Len(<<t>>) > 1)
    OBVIOUS
  <1> QED
    BY <1>1 DEF CleanTokenString

\* A prefix is cut off.
LEMMA PrefixIsCut ==
  ASSUME NEW t \in Token, NEW b \in Bearer
  PROVE  CleanTokenString(<<b, t>>, TRUE) = <<t>>
  <1>1. Len(<<b, t>>) > 1 /\ <<b, t>>[1] = b
    OBVIOUS
  <1>2. Tail(<<b, t>>) = <<t>>
    BY PairFacts DEF Field
  <1> QED
    BY <1>1, <1>2 DEF CleanTokenString

\* A token that is right in all that Verify looks at is let in, with its prefix.
LEMMA RightIsAccepted ==
  ASSUME NEW t \in Token, NEW fields \in Sendings(t), NEW keys \in SUBSET Key, NEW time,
         Issuable(t), Claims[t].kid \in keys, Timely(t, time),
         Audience \in Claims[t].audience, Claims[t].subject # "", fields[1] \notin Junk
  PROVE  Verify(fields, keys, time) = OK
  <1> DEFINE clean == CleanTokenString(fields, TRUE)
  <1>1. clean = <<t>>
    <2>1. CASE fields = <<t>> \/ \E b \in Bearer : fields = <<b, t>>
      BY <2>1, SingleIsKept, PrefixIsCut
    <2>2. CASE \E j \in Junk : fields = <<j, t>>
      <3>1. PICK j \in Junk : fields = <<j, t>>
        BY <2>2
      <3>2. <<j, t>>[1] = j
        OBVIOUS
      <3> QED
        BY <3>1, <3>2
    <2> QED
      BY <2>1, <2>2 DEF Sendings
  <1>2. clean # <<>> /\ clean[1] = t
    <2> HIDE DEF clean
    <2> QED
      BY <1>1
  <1>3. ParsesWithKeySet(clean, keys, time)
    <2> HIDE DEF clean
    <2> QED
      BY <1>1 DEF ParsesWithKeySet, Issuable
  <1>4. Claims[clean[1]] = Claims[t]
    BY <1>2
  <1> HIDE DEF clean
  <1> QED
    BY <1>2, <1>3, <1>4 DEF Verify, Issuable, clean

\* Nothing is known at first.
LEMMA InitIInv == Init => IInv
  BY KeyAssumption DEF Init, IInv, TypeOK, Nothing, Snapshot, Seen, OnlyIssued, KnownIsAccepted

\* The verdict on a token is right, by what the cache is known to be.
LEMMA JudgeStep == ASSUME IInv, NEW t \in Token, Judge(t) PROVE IInv'
  <1> USE DEF IInv, Judge, auth0
  <1>1. PICK fields \in Sendings(t) :
          verdict' = {[token |-> t,
            result |-> IF Verify(fields, cached, now) = OK THEN "accepted" ELSE "rejected",
            merit |-> IF Valid(t, fields) THEN "valid" ELSE "invalid",
            key |-> IF Claims[t].kid \in basis.withdrawn THEN "withdrawn" ELSE "in use"]}
    OBVIOUS
  <1>2. Verify(fields, cached, now) = OK =>
          t \in issued /\ Claims[t].kid \notin basis.withdrawn
    BY AcceptedIsIssuable DEF TypeOK, Seen
  <1>3. issued' = issued
    OBVIOUS
  <1>11. Valid(t, fields) => Verify(fields, cached, now) = OK
    BY RightIsAccepted DEF TypeOK, Seen, Valid
  <1> HIDE DEF IInv, Judge, auth0
  <1> DEFINE result == IF Verify(fields, cached, now) = OK THEN "accepted" ELSE "rejected"
             merit == IF Valid(t, fields) THEN "valid" ELSE "invalid"
             key == IF Claims[t].kid \in basis.withdrawn THEN "withdrawn" ELSE "in use"
             v == [token |-> t, result |-> result, merit |-> merit, key |-> key]
  <1>4. /\ result \in {"accepted", "rejected"} /\ merit \in {"valid", "invalid"}
        /\ key \in {"withdrawn", "in use"}
        /\ result = "accepted" => t \in issued' /\ key # "withdrawn"
        /\ merit = "valid" => result = "accepted"
    BY <1>2, <1>3, <1>11
  <1>5. verdict' = {v}
    BY <1>1
  <1> HIDE DEF result, merit, key
  <1>6. v \in Verdict /\ v.token = t /\ v.result = result /\ v.merit = merit /\ v.key = key
    BY <1>4 DEF Verdict
  <1> HIDE DEF v
  <1>7. OnlyIssued' /\ KnownIsAccepted'
    BY <1>4, <1>5, <1>6 DEF OnlyIssued, KnownIsAccepted
  <1>8. verdict' \subseteq Verdict
    BY <1>5, <1>6
  <1> USE DEF IInv, Judge, auth0
  <1>9. UNCHANGED <<served, withdrawn, issued, now, phase, fetch, answer, cached, asked, basis>>
    OBVIOUS
  <1>10. TypeOK'
    BY <1>8, <1>9 DEF TypeOK
  <1> QED
    BY <1>7, <1>9, <1>10 DEF Seen, Issuable

\* Every other step leaves the verdict alone and takes no token back.
LEMMA VerdictKept ==
  ASSUME OnlyIssued, KnownIsAccepted, verdict' = verdict, issued \subseteq issued'
  PROVE  OnlyIssued' /\ KnownIsAccepted'
  BY DEF OnlyIssued, KnownIsAccepted

\* IInv is inductive.
LEMMA NextIInv == IInv /\ [Next]_vars => IInv'
  <1> SUFFICES ASSUME IInv, [Next]_vars PROVE IInv'
    OBVIOUS
  <1> USE DEF IInv, TypeOK, Seen, auth0, Snapshot, Issuable
  <1>1. ASSUME NEW k \in Key, AddKey(k) PROVE IInv'
    BY <1>1, VerdictKept DEF AddKey
  <1>2. ASSUME NEW k \in Key, WithdrawKey(k) PROVE IInv'
    BY <1>2, VerdictKept DEF WithdrawKey
  <1>3. ASSUME NEW t \in Token, Issue(t) PROVE IInv'
    BY <1>3, VerdictKept DEF Issue
  <1>4. ASSUME NEW t \in Token, Judge(t) PROVE IInv'
    BY <1>4, JudgeStep
  <1>5. CASE Tick
    BY <1>5, VerdictKept, KeyAssumption DEF Tick
  <1>6. CASE Stop
    BY <1>6, VerdictKept DEF Stop
  <1>7. CASE AskKeys
    BY <1>7, VerdictKept DEF AskKeys
  <1>8. CASE AnswerKeys
    BY <1>8, VerdictKept DEF AnswerKeys
  <1>9. CASE StoreKeys
    BY <1>9, VerdictKept DEF StoreKeys
  <1>10. CASE FetchFails
    BY <1>10, VerdictKept DEF FetchFails
  <1>11. CASE UNCHANGED vars
    BY <1>11, VerdictKept DEF vars
  <1> QED
    BY <1>1, <1>2, <1>3, <1>4, <1>5, <1>6, <1>7, <1>8, <1>9, <1>10, <1>11 DEF Next

\* IInv holds throughout.
LEMMA InvariantHolds == Spec => []IInv
  BY InitIInv, NextIInv, PTL DEF Spec

\* The variables keep their types, and a process that does not run fetches nothing.
THEOREM KeyCacheTypeCorrect == Spec => []TypeOK
  <1>1. IInv => TypeOK
    BY DEF IInv
  <1> QED
    BY InvariantHolds, <1>1, PTL

\* The cache is as fresh as its last successful fetch, whatever was rotated while
\* that or a later, failed one was under way.
THEOREM FreshAsOfBasisHolds == Spec => []FreshAsOfBasis
  <1>1. IInv => FreshAsOfBasis
    BY DEF IInv, FreshAsOfBasis, Seen
  <1> QED
    BY InvariantHolds, <1>1, PTL

\* Whoever is let in holds a token that Auth0 issued, with a key not known to be
\* withdrawn.
THEOREM OnlyIssuedHolds == Spec => []OnlyIssued
  <1>1. IInv => OnlyIssued
    BY DEF IInv
  <1> QED
    BY InvariantHolds, <1>1, PTL

\* A token that is good, and whose key was served at the last successful fetch and
\* still is, is let in.
THEOREM KnownIsAcceptedHolds == Spec => []KnownIsAccepted
  <1>1. IInv => KnownIsAccepted
    BY DEF IInv
  <1> QED
    BY InvariantHolds, <1>1, PTL
-----------------------------------------------------------------------------
(* The two parsers.                                                        *)

\* The last field of whatever is sent is the token.
LEMMA TokenIsLast ==
  ASSUME NEW t \in Token, NEW fields \in Sendings(t)
  PROVE  fields[Len(fields)] = t
  <1>1. CASE fields = <<t>>
    BY <1>1
  <1>2. CASE \E b \in Field : fields = <<b, t>>
    <2>1. PICK b \in Field : fields = <<b, t>>
      BY <1>2
    <2>2. Len(fields) = 2 /\ <<b, t>>[2] = t
      BY <2>1, PairFacts DEF Field
    <2> QED
      BY <2>1, <2>2
  <1> QED
    BY <1>1, <1>2 DEF Sendings, Field

\* What is left of it is the token, or two fields, of which no parser makes a token.
LEMMA CleanIsTokenOrPair ==
  ASSUME NEW t \in Token, NEW fields \in Sendings(t)
  PROVE  LET clean == CleanTokenString(fields, TRUE)
         IN  \/ clean = <<t>>
             \/ clean # <<>> /\ \A u \in Token : clean # <<u>>
  <1>1. CASE fields = <<t>> \/ \E b \in Bearer : fields = <<b, t>>
    BY <1>1, SingleIsKept, PrefixIsCut
  <1>2. CASE \E j \in Junk \ Bearer : fields = <<j, t>>
    <2>1. PICK j \in Junk \ Bearer : fields = <<j, t>>
      BY <1>2
    <2>2. <<j, t>>[1] = j
      OBVIOUS
    <2>3. CleanTokenString(fields, TRUE) = <<j, t>>
      BY <2>1, <2>2 DEF CleanTokenString
    <2>4. <<j, t>> # <<>> /\ \A u \in Token : <<j, t>> # <<u>>
      BY PairFacts DEF Field
    <2> QED
      BY <2>3, <2>4
  <1> QED
    BY <1>1, <1>2 DEF Sendings

\* The claims that both test.
Right(t, time) ==
  /\ Timely(t, time) /\ Claims[t].issuer = Issuer
  /\ Audience \in Claims[t].audience /\ Claims[t].subject # ""

\* With the issuer and the audience expected, ParseVerified tests these claims, and
\* that there is an expiration.
LEMMA ExpectingParse ==
  ASSUME NEW t \in Token, NEW fields \in Sendings(t), NEW time,
         CleanTokenString(fields, TRUE) = <<t>>
  PROVE  \A k : ParseVerified(fields, ExpectingOptions(k), time) = OK <=>
           Right(t, time) /\ Claims[t].signer = k /\ Claims[t].expires
  <1> TAKE k
  <1> DEFINE opts == ExpectingOptions(k)
             clean == CleanTokenString(fields, TRUE)
  <1>1. /\ opts.bearer = TRUE /\ opts.key = k /\ opts.issuer = Issuer
        /\ opts.audience = Audience /\ opts.expires = TRUE /\ opts.subject = TRUE
        /\ opts.scopes = {}
    BY DEF ExpectingOptions, DefaultParseOptions
  <1> HIDE DEF clean
  <1>6. clean = <<t>>
    BY DEF clean
  <1>2. clean # <<>> /\ clean[1] = t
    BY <1>6
  <1>3. ParsesWithKey(clean, k, time) <=> Timely(t, time) /\ Claims[t].signer = k
    BY <1>6 DEF ParsesWithKey
  <1>4. Issuer \notin {""} /\ Audience \notin {""}
    BY TokenAssumption
  <1> HIDE DEF opts
  <1>5. ParseVerified(fields, opts, time) =
          IF ~ParsesWithKey(clean, k, time) THEN "signature verification failed"
          ELSE IF Issuer # Claims[t].issuer THEN "invalid issuer"
          ELSE IF Audience \notin Claims[t].audience THEN "invalid audience"
          ELSE IF ~Claims[t].expires THEN "missing exp"
          ELSE IF Claims[t].subject = "" THEN "missing sub"
          ELSE OK
    BY <1>1, <1>2, <1>4 DEF ParseVerified, clean
  <1> QED
    BY <1>3, <1>5 DEF OK, opts, Right

\* Verify tests, beside, that the key is cached and the one the header names.
LEMMA VerifyTests ==
  ASSUME NEW t \in Token, NEW fields \in Sendings(t), NEW keys, NEW time,
         CleanTokenString(fields, TRUE) = <<t>>
  PROVE  Verify(fields, keys, time) = OK <=>
           Right(t, time) /\ Claims[t].kid \in keys /\ Claims[t].signer = Claims[t].kid
  <1> DEFINE clean == CleanTokenString(fields, TRUE)
  <1> HIDE DEF clean
  <1>3. clean = <<t>>
    BY DEF clean
  <1>1. clean # <<>> /\ clean[1] = t
    BY <1>3
  <1>2. ParsesWithKeySet(clean, keys, time) <=>
          Timely(t, time) /\ Claims[t].kid \in keys /\ Claims[t].signer = Claims[t].kid
    BY <1>3 DEF ParsesWithKeySet
  <1> QED
    BY <1>1, <1>2 DEF Verify, OK, clean, Right

\* The parsers differ in the expiration alone, on every token, key set and moment.
LEMMA ExpiryAlone ==
  ASSUME NEW t \in Token, NEW fields \in Sendings(t), NEW keys, NEW time
  PROVE  AgreeButForExpiry(fields, keys, time)
  <1>1. CASE CleanTokenString(fields, TRUE) = <<t>>
    <2>1. \A k : ParseVerified(fields, ExpectingOptions(k), time) = OK <=>
            Right(t, time) /\ Claims[t].signer = k /\ Claims[t].expires
      BY <1>1, ExpectingParse
    <2>2. Verify(fields, keys, time) = OK <=>
            Right(t, time) /\ Claims[t].kid \in keys /\ Claims[t].signer = Claims[t].kid
      BY <1>1, VerifyTests
    <2>3. fields[Len(fields)] = t
      BY TokenIsLast
    <2>4. Claims[t].expires \in BOOLEAN
      BY TokenAssumption DEF ClaimsType
    <2> QED
      BY <2>1, <2>2, <2>3, <2>4 DEF AgreeButForExpiry
  <1> DEFINE clean == CleanTokenString(fields, TRUE)
  <1>2. CASE clean # <<>> /\ \A u \in Token : clean # <<u>>
    <2>1. Verify(fields, keys, time) # OK
      <3>1. ~ParsesWithKeySet(clean, keys, time)
        BY <1>2 DEF ParsesWithKeySet
      <3> QED
        BY <1>2, <3>1 DEF Verify, OK
    <2>2. ASSUME NEW k \in keys PROVE ParseVerified(fields, ExpectingOptions(k), time) # OK
      <3>1. ~ParsesWithKey(clean, k, time)
        BY <1>2 DEF ParsesWithKey
      <3>2. ExpectingOptions(k).bearer = TRUE /\ ExpectingOptions(k).key = k
        BY DEF ExpectingOptions, DefaultParseOptions
      <3> HIDE DEF clean
      <3> QED
        BY <1>2, <3>1, <3>2 DEF ParseVerified, OK, clean
    <2> QED
      BY <2>1, <2>2 DEF AgreeButForExpiry
  <1> QED
    BY <1>1, <1>2, CleanIsTokenOrPair

\* Whatever may be sent, Verify, which is used in production, lets in what
\* ParseVerified would under its default options, and beside that only tokens that
\* have no expiration and are right in all the rest.
THEOREM ParsersDifferInExpiry == Spec => []OnlyExpiryDiffers
  <1>1. IInv => OnlyExpiryDiffers
    <2> SUFFICES ASSUME IInv, NEW v \in verdict, NEW fields \in Sendings(v.token)
                 PROVE  AgreeButForExpiry(fields, cached, now)
      BY DEF OnlyExpiryDiffers
    <2>1. v.token \in Token
      BY DEF IInv, TypeOK, Verdict
    <2> QED
      BY <2>1, ExpiryAlone
  <1> QED
    BY InvariantHolds, <1>1, PTL
=============================================================================
