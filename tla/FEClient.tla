------------------------------ MODULE FEClient ------------------------------
(***************************************************************************)
(* Client.do: one HTTP request to forwardemail.net, tried again with the   *)
(* same body while the answer is 429, at most MaxRetries times, and given  *)
(* up at the first transport error.  The calls of the three subscription   *)
(* goroutines share the client but no state of it.                         *)
(***************************************************************************)
EXTENDS Naturals

CONSTANTS
  Call,        \* the calls of GetAlias, CreateAlias and UpdateAlias
  MaxRetries   \* maxRetries

ASSUME RetriesAssumption == MaxRetries \in Nat \ {0}

Method == {"GET", "POST", "PUT"}
Attempt == 1..MaxRetries

\* What became of an attempt at forwardemail.net.  429 and 404 mean it was not
\* carried out; another status outside 2xx, a gateway's for one, may come after
\* it was.
CarriedOut == {"2xx", "error after all"}
TurnedAway == {"429", "404", "error"}
Exchange == {"unsent", "travelling"} \cup CarriedOut \cup TurnedAway

\* How do returns: nil, ErrAliasNotFound, an apiError for 429 or another status,
\* the context's error during the backoff, the transport's, or the decoder's.
Result == {"none", "nil", "404", "429", "error", "cancelled", "transport", "decode"}

VARIABLES
  method,    \* method[c]: the HTTP method
  pc,        \* pc[c]: where do is: send, await, backoff, returned
  attempt,   \* attempt[c]: the current attempt
  reader,    \* reader[c]: what is left to read of the request's body
  exchange,  \* exchange[c][a]: what became of attempt a
  carried,   \* carried[c][a]: the body that attempt a carried
  result     \* result[c]: what do returned

vars == <<method, pc, attempt, reader, exchange, carried, result>>
remote == <<exchange, carried>>

TypeOK ==
  /\ method \in [Call -> Method]
  /\ pc \in [Call -> {"send", "await", "backoff", "returned"}]
  /\ attempt \in [Call -> Attempt]
  /\ reader \in [Call -> {"whole", "empty"}]
  /\ exchange \in [Call -> [Attempt -> Exchange]]
  /\ carried \in [Call -> [Attempt -> {"nothing", "whole", "empty"}]]
  /\ result \in [Call -> Result]

HasBody(c) == method[c] # "GET"

Init ==
  /\ method \in [Call -> Method]
  /\ pc = [c \in Call |-> "send"]
  /\ attempt = [c \in Call |-> 1]
  /\ reader = [c \in Call |-> IF HasBody(c) THEN "whole" ELSE "empty"]
  /\ exchange = [c \in Call |-> [a \in Attempt |-> "unsent"]]
  /\ carried = [c \in Call |-> [a \in Attempt |-> "nothing"]]
  /\ result = [c \in Call |-> "none"]
-----------------------------------------------------------------------------
\* Not the code: the reader of the first attempt is used for all.
BodyOnce(c) == reader[c]

\* The body is rebuilt for every attempt: sending it consumed the reader.
Body(c) == IF HasBody(c) THEN "whole" ELSE reader[c]

Send(c) ==
  /\ pc[c] = "send"
  /\ pc' = [pc EXCEPT ![c] = "await"]
  /\ exchange' = [exchange EXCEPT ![c][attempt[c]] = "travelling"]
  /\ carried' = [carried EXCEPT ![c][attempt[c]] = Body(c)]
  /\ reader' = [reader EXCEPT ![c] = "empty"]
  /\ UNCHANGED <<method, attempt, result>>

\* forwardemail.net handles an attempt, whether or not do still waits for it.
Handle(c, a, status) ==
  /\ exchange[c][a] = "travelling"
  /\ exchange' = [exchange EXCEPT ![c][a] = status]
  /\ UNCHANGED <<method, pc, attempt, reader, carried, result>>

Return(c, value) ==
  /\ pc' = [pc EXCEPT ![c] = "returned"]
  /\ result' = [result EXCEPT ![c] = value]
  /\ UNCHANGED <<method, attempt, reader, remote>>

Answered(c, status) == pc[c] = "await" /\ exchange[c][attempt[c]] = status

\* Not the code: one attempt too many.
BackOffOnceMore(c) ==
  /\ Answered(c, "429")
  /\ pc' = [pc EXCEPT ![c] = "backoff"]
  /\ UNCHANGED <<method, attempt, reader, remote, result>>

\* 429 before the last attempt: wait and try again.
BackOff(c) ==
  /\ Answered(c, "429") /\ attempt[c] # MaxRetries
  /\ pc' = [pc EXCEPT ![c] = "backoff"]
  /\ UNCHANGED <<method, attempt, reader, remote, result>>

\* Not the code: the attempts are not counted.
TryAgainUncounted(c) ==
  /\ pc[c] = "backoff"
  /\ pc' = [pc EXCEPT ![c] = "send"]
  /\ UNCHANGED <<method, attempt, reader, remote, result>>

TryAgain(c) ==
  /\ pc[c] = "backoff"
  /\ pc' = [pc EXCEPT ![c] = "send"]
  /\ attempt' = [attempt EXCEPT ![c] = @ + 1]
  /\ UNCHANGED <<method, reader, remote, result>>

\* The context ends during the backoff.
Cancel(c) == pc[c] = "backoff" /\ Return(c, "cancelled")

RateLimited(c) ==
  Answered(c, "429") /\ attempt[c] = MaxRetries /\ Return(c, "429")

Missing(c) == Answered(c, "404") /\ Return(c, "404")

\* Not the code: every error status is taken for a 404.
FailedAsMissing(c) ==
  /\ Answered(c, "error") \/ Answered(c, "error after all")
  /\ Return(c, "404")

Failed(c) ==
  /\ Answered(c, "error") \/ Answered(c, "error after all")
  /\ Return(c, "error")

\* A 2xx answer: its body decodes, or not.
Succeed(c) == Answered(c, "2xx") /\ Return(c, "nil")
DecodeFails(c) == Answered(c, "2xx") /\ Return(c, "decode")

\* Not the code: a transport error is retried too.
TransportRetried(c) ==
  /\ pc[c] = "await" /\ attempt[c] # MaxRetries
  /\ pc' = [pc EXCEPT ![c] = "backoff"]
  /\ UNCHANGED <<method, attempt, reader, remote, result>>

\* No answer: the connection broke, or the client's or the context's time is up.
TransportFails(c) == pc[c] = "await" /\ Return(c, "transport")
-----------------------------------------------------------------------------
DoStep(c) ==
  \/ Send(c) \/ BackOff(c) \/ TryAgain(c) \/ Cancel(c) \/ RateLimited(c)
  \/ Missing(c) \/ Failed(c) \/ Succeed(c) \/ DecodeFails(c)
  \/ TransportFails(c)

Next ==
  \E c \in Call :
    \/ DoStep(c)
    \/ \E a \in Attempt, status \in CarriedOut \cup TurnedAway : Handle(c, a, status)

\* The time of the HTTP client and of the context is bounded, so do is never
\* stuck in a wait.  Nothing is assumed of forwardemail.net.
Spec == Init /\ [][Next]_vars /\ \A c \in Call : WF_vars(DoStep(c))
-----------------------------------------------------------------------------
(* Properties.                                                             *)

\* A retry never repeats what was done: of all the attempts of a call at most one
\* is, or can yet be, carried out.
AtMostOnce ==
  \A c \in Call : \A a, b \in Attempt :
    {exchange[c][a], exchange[c][b]} \subseteq {"travelling"} \cup CarriedOut =>
      a = b

\* Every attempt of a POST or PUT carries the whole body, the retries too.
RetriesCarryBody ==
  \A c \in Call : \A a \in Attempt :
    HasBody(c) /\ exchange[c][a] # "unsent" => carried[c][a] = "whole"

\* do returns: three answers of 429, or a server that never answers, end the call.
Returns == \A c \in Call : <>(pc[c] = "returned")

\* What the caller learns: 429, 404 and a context that ends during the backoff
\* say that nothing was and nothing will be carried out; every other error says
\* nothing.
Denials == {"429", "404", "cancelled"}

StatusBar ==
  [c \in Call |->
     IF result[c] = "none" THEN "waiting"
     ELSE IF result[c] = "nil" THEN "ok"
     ELSE IF result[c] \in Denials THEN "denied" ELSE "unknown"]

EffectBar ==
  [c \in Call |->
     IF \E a \in Attempt : exchange[c][a] \in CarriedOut THEN "done"
     ELSE IF result[c] \in Denials THEN "never" ELSE "pending"]

Remote == INSTANCE RemoteCall WITH status <- StatusBar, effect <- EffectBar

\* do is a RemoteCall: at most one effect, none after a denial, one before a
\* success.
ImplementsRemoteCall == Remote!Spec
=============================================================================
