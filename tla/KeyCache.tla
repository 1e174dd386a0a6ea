------------------------------ MODULE KeyCache ------------------------------
(***************************************************************************)
(* The signing keys.  Auth0 serves a set of keys that it rotates; the      *)
(* process fetches it once before it starts to serve and then again and    *)
(* again in the background, each fetch taking its time and perhaps         *)
(* failing; handlers verify tokens against the last set that was stored.   *)
(***************************************************************************)
EXTENDS TokenVerifier

CONSTANTS
  Key,      \* the identifiers of the keys Auth0 may have
  MaxNow    \* bound: the last moment of the clock

ASSUME KeyAssumption == Key \subseteq Kid /\ MaxNow \in Nat

VARIABLES
  served,    \* the keys at the JWKS endpoint
  withdrawn, \* the keys that were taken from it
  issued,    \* the tokens Auth0 has issued
  now,       \* the clock
  phase,     \* starting, running, failed (to start), stopping
  fetch,     \* the fetch under way: none, asked, answered
  answer,    \* the key set its answer carries
  cached,    \* what Config.keySet shows
  asked,     \* history: Auth0's keys when the last fetch was asked for
  basis,     \* history: the same for the fetch that was stored last
  verdict    \* what the last Verify came to: of which token, whether it was valid
             \*   then, and whether its key was known to be withdrawn

auth0 == <<served, withdrawn, issued>>
vars == <<served, withdrawn, issued, now, phase, fetch, answer, cached, asked,
          basis, verdict>>

Verdict ==
  [token : Token, result : {"accepted", "rejected"},
   merit : {"valid", "invalid"}, key : {"withdrawn", "in use"}]
Snapshot == [served : SUBSET Key, withdrawn : SUBSET Key]
Nothing == [served |-> {}, withdrawn |-> {}]

TypeOK ==
  /\ served \subseteq Key /\ withdrawn \subseteq Key /\ issued \subseteq Token
  /\ now \in 0..MaxNow
  /\ phase \in {"starting", "running", "failed", "stopping"}
  /\ fetch \in {"none", "asked", "answered"}
  /\ answer \subseteq Key /\ cached \subseteq Key
  /\ asked \in Snapshot /\ basis \in Snapshot
  /\ verdict \subseteq Verdict
  /\ fetch # "none" => phase \in {"starting", "running"}

Init ==
  /\ served \in SUBSET Key
  /\ withdrawn = {} /\ issued = {}
  /\ now = 0
  /\ phase = "starting" /\ fetch = "none"
  /\ answer = {} /\ cached = {}
  /\ asked = Nothing /\ basis = Nothing
  /\ verdict = {}
-----------------------------------------------------------------------------
(* Auth0, the clock and the callers.                                       *)

AddKey(k) ==
  /\ k \notin served \cup withdrawn
  /\ served' = served \cup {k}
  /\ UNCHANGED <<withdrawn, issued, now, phase, fetch, answer, cached, asked, basis, verdict>>

\* A key is retired; a compromised one at once.
WithdrawKey(k) ==
  /\ k \in served
  /\ served' = served \ {k} /\ withdrawn' = withdrawn \cup {k}
  /\ UNCHANGED <<issued, now, phase, fetch, answer, cached, asked, basis, verdict>>

\* The tokens Auth0 may make: it signs with a key it serves, and names it in the
\* header.  Others may make any token that is not one of these.
Issuable(t) ==
  Claims[t].signer \in Key /\ Claims[t].kid = Claims[t].signer /\ Claims[t].issuer = Issuer

Issue(t) ==
  /\ Issuable(t) /\ Claims[t].signer \in served
  /\ issued' = issued \cup {t}
  /\ UNCHANGED <<served, withdrawn, now, phase, fetch, answer, cached, asked, basis, verdict>>

Tick ==
  /\ now < MaxNow
  /\ now' = now + 1
  /\ UNCHANGED <<auth0, phase, fetch, answer, cached, asked, basis, verdict>>

\* Not the code: the refresh is not tied to the context of the process.
StopServing ==
  /\ phase = "running"
  /\ phase' = "stopping"
  /\ UNCHANGED <<auth0, now, fetch, answer, cached, asked, basis, verdict>>

\* The process gets its stop signal: handlers go on, the refresh does not.
Stop ==
  /\ phase = "running"
  /\ phase' = "stopping"
  /\ fetch' = "none"
  /\ UNCHANGED <<auth0, now, answer, cached, asked, basis, verdict>>
-----------------------------------------------------------------------------
(* Fetching.                                                               *)

\* Not the code: the keys are fetched once.
AskKeysOnce ==
  /\ phase = "starting" /\ fetch = "none"
  /\ fetch' = "asked"
  /\ asked' = [served |-> served, withdrawn |-> withdrawn]
  /\ UNCHANGED <<auth0, now, phase, answer, cached, basis, verdict>>

\* NewConfigFromJWKS asks first; later the cache does, every now and then.
AskKeys ==
  /\ phase \in {"starting", "running"} /\ fetch = "none"
  /\ fetch' = "asked"
  /\ asked' = [served |-> served, withdrawn |-> withdrawn]
  /\ UNCHANGED <<auth0, now, phase, answer, cached, basis, verdict>>

AnswerKeys ==
  /\ fetch = "asked"
  /\ fetch' = "answered" /\ answer' = served
  /\ UNCHANGED <<auth0, now, phase, cached, asked, basis, verdict>>

\* Not the code: keys are only ever added.
StoreMoreKeys ==
  /\ fetch = "answered"
  /\ fetch' = "none"
  /\ phase' = IF phase # "starting" THEN phase
              ELSE IF answer = {} THEN "failed" ELSE "running"
  /\ cached' = cached \cup answer /\ basis' = asked
  /\ UNCHANGED <<auth0, now, answer, asked, verdict>>

\* The set is replaced; the first one must have a key.
StoreKeys ==
  /\ fetch = "answered"
  /\ fetch' = "none"
  /\ phase' = IF phase # "starting" THEN phase
              ELSE IF answer = {} THEN "failed" ELSE "running"
  /\ cached' = answer /\ basis' = asked
  /\ UNCHANGED <<auth0, now, answer, asked, verdict>>

\* Not the code: a failed refresh empties the cache.
FetchFailsEmptying ==
  /\ fetch # "none"
  /\ fetch' = "none"
  /\ phase' = IF phase = "starting" THEN "failed" ELSE phase
  /\ cached' = {}
  /\ UNCHANGED <<auth0, now, answer, asked, basis, verdict>>

\* Not reachable, too slow (10 s), or not a key set: what is cached stays.
FetchFails ==
  /\ fetch # "none"
  /\ fetch' = "none"
  /\ phase' = IF phase = "starting" THEN "failed" ELSE phase
  /\ UNCHANGED <<auth0, now, answer, cached, asked, basis, verdict>>
-----------------------------------------------------------------------------
\* A handler verifies a token that a caller sends, in whatever form.
Sendings(t) == {<<t>>} \cup {<<b, t>> : b \in Bearer} \cup {<<j, t>> : j \in Junk}

\* A token that Auth0 issued for the service, in time, with a key that it serves
\* and did when the last successful fetch was asked for.
Valid(t, fields) ==
  /\ t \in issued /\ Claims[t].kid \in served \cap basis.served /\ Timely(t, now)
  /\ Audience \in Claims[t].audience /\ Claims[t].subject # ""
  /\ fields[1] \notin Junk

Judge(t) ==
  /\ phase \in {"running", "stopping"}
  /\ t \in issued \/ ~Issuable(t)
  /\ \E fields \in Sendings(t) :
       verdict' =
         {[token |-> t,
           result |-> IF Verify(fields, cached, now) = OK THEN "accepted" ELSE "rejected",
           merit |-> IF Valid(t, fields) THEN "valid" ELSE "invalid",
           key |-> IF Claims[t].kid \in basis.withdrawn THEN "withdrawn" ELSE "in use"]}
  /\ UNCHANGED <<auth0, now, phase, fetch, answer, cached, asked, basis>>

Next ==
  \/ \E k \in Key : AddKey(k) \/ WithdrawKey(k)
  \/ \E t \in Token : Issue(t) \/ Judge(t)
  \/ Tick \/ Stop
  \/ AskKeys \/ AnswerKeys \/ StoreKeys \/ FetchFails

Spec == Init /\ [][Next]_vars

\* The cache asks again for ever; the endpoint is not out of reach for ever.
FairSpec ==
  /\ Spec
  /\ WF_vars(AskKeys)
  /\ SF_vars(AnswerKeys) /\ SF_vars(StoreKeys)
-----------------------------------------------------------------------------
(* Properties.                                                             *)

\* Whoever is let in holds a token that Auth0 issued, with a key it had not yet
\* withdrawn when the last successful fetch was asked for: no rotation, failed
\* refresh or form in which the token is sent lets in another.
OnlyIssued ==
  \A v \in verdict : v.result = "accepted" => v.token \in issued /\ v.key # "withdrawn"

\* The cache is never older than its last successful fetch: what was withdrawn
\* before that was asked for is gone, what was served then and still is is there,
\* and a failed or overtaken fetch takes nothing of it back.
FreshAsOfBasis ==
  phase \in {"running", "stopping"} =>
    /\ cached \cap basis.withdrawn = {}
    /\ basis.served \subseteq cached \cup withdrawn
    /\ cached \subseteq served \cup withdrawn

\* parser.go:126-127: a retired key is dropped without a restart.
RetiredIsDropped ==
  \A k \in Key : k \in withdrawn ~> k \notin cached \/ phase \in {"failed", "stopping"}

\* A new key is learned without a restart, unless it is withdrawn before.
NewIsLearned ==
  \A k \in Key :
    k \in served ~> k \in cached \cup withdrawn \/ phase \in {"failed", "stopping"}

\* What parser_test.go establishes of ParseVerified, which nothing else calls, holds of
\* Verify, which serves, with one exception: parser.go:173-213 lets in a token
\* without an expiration, parser.go:80-84 does not.
OnlyExpiryDiffers ==
  \A v \in verdict : \A fields \in Sendings(v.token) :
    AgreeButForExpiry(fields, cached, now)

\* parser.go:174-175, as far as the fetches go: key rotation does not cause valid
\* tokens to be rejected, with or without a prefix, when their key was served at
\* the last successful fetch and still is.
KnownIsAccepted ==
  \A v \in verdict : v.merit = "valid" => v.result = "accepted"
=============================================================================
