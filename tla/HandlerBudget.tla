---------------------------- MODULE HandlerBudget ----------------------------
(***************************************************************************)
(* The clock of one subscription.  Its goroutine handles one message after *)
(* another; a handler makes its calls one after another, each under a time *)
(* limit of its own, a call to forwardemail.net up to MaxRetries times,    *)
(* and all of them under the deadline of the message.  Time passes only    *)
(* while something is waited for.                                          *)
(***************************************************************************)
EXTENDS Naturals, Sequences

CONSTANTS
  Message,      \* the messages, each sent again once it is answered
  Plan,         \* the calls a handler may make, in order: sequences of "auth"
                \*   and "http"
  Setting,      \* the values of AUTH_SERVICE_REQUEST_TIMEOUT, 0 for one that is
                \*   zero or negative
  DefaultAuth,  \* the timeout New takes in its place
  Budget,       \* msgHandlerTimeout
  HTTPTimeout,  \* the timeout of the HTTP client, for each attempt
  MaxRetries,   \* maxRetries
  FirstBackoff  \* the first backoff; it doubles

ASSUME BudgetAssumption ==
  /\ Plan \subseteq Seq({"auth", "http"})
  /\ Setting \subseteq Nat /\ DefaultAuth \in Nat \ {0}
  /\ Budget \in Nat \ {0} /\ HTTPTimeout \in Nat \ {0}
  /\ MaxRetries \in Nat \ {0} /\ FirstBackoff \in Nat

VARIABLES
  authTimeout, \* authServiceTimeout
  queue,       \* the messages on hand, the one being handled first
  plan,        \* the calls of the running handler
  at,          \* the call it is in, 0 when no handler runs
  attempt,     \* the attempt of that call
  mode,        \* calls, or pauses before it tries again
  elapsed,     \* how long the handler has run
  waited,      \* how long its present wait has lasted
  ahead,       \* history: ahead[m]: how many messages m, if it waits, found before it
  age          \* history: age[m]: how long m, if it waits, has waited

handler == <<plan, at, attempt, mode>>
vars == <<authTimeout, queue, handler, elapsed, waited, ahead, age>>

TypeOK ==
  /\ authTimeout \in Nat \ {0}
  /\ queue \in Seq(Message)
  /\ plan \in Seq({"auth", "http"})
  /\ at \in 0..Len(plan)
  /\ attempt \in 1..MaxRetries
  /\ mode \in {"calls", "pauses"}
  /\ elapsed \in Nat /\ waited \in Nat
  /\ ahead \in [Message -> Nat] /\ age \in [Message -> Nat]

\* Not the code: the configured value is used as it is.
AuthServiceTimeoutAsIs(setting) == setting

\* New.
AuthServiceTimeout(setting) == IF setting = 0 THEN DefaultAuth ELSE setting

Init ==
  /\ authTimeout \in {AuthServiceTimeout(s) : s \in Setting}
  /\ queue = <<>>
  /\ plan = <<>> /\ at = 0 /\ attempt = 1 /\ mode = "calls"
  /\ elapsed = 0 /\ waited = 0
  /\ ahead = [m \in Message |-> 0] /\ age = [m \in Message |-> 0]

Running == at # 0
Waiting(m) == \E i \in DOMAIN queue : queue[i] = m
-----------------------------------------------------------------------------
Arrive(m) ==
  /\ ~Waiting(m)
  /\ queue' = Append(queue, m)
  /\ ahead' = [ahead EXCEPT ![m] = Len(queue)]
  /\ UNCHANGED <<authTimeout, handler, elapsed, waited, age>>

\* The handler's context starts with the handler, not with the message.
Start ==
  /\ ~Running /\ queue # <<>>
  /\ plan' \in Plan /\ plan' # <<>>
  /\ at' = 1 /\ attempt' = 1 /\ mode' = "calls"
  /\ elapsed' = 0 /\ waited' = 0
  /\ UNCHANGED <<authTimeout, queue, ahead, age>>

\* The reply; it may come before any call, for a message that is refused.
Reply ==
  /\ queue' = Tail(queue)
  /\ plan' = <<>> /\ at' = 0 /\ attempt' = 1 /\ mode' = "calls"
  /\ elapsed' = 0 /\ waited' = 0
  /\ ahead' = [ahead EXCEPT ![Head(queue)] = 0]
  /\ age' = [age EXCEPT ![Head(queue)] = 0]
  /\ UNCHANGED authTimeout

Refuse == ~Running /\ queue # <<>> /\ Reply

\* A call has its answer and the next one is made.
Proceed ==
  /\ Running /\ mode = "calls" /\ at < Len(plan)
  /\ at' = at + 1 /\ attempt' = 1 /\ waited' = 0
  /\ UNCHANGED <<authTimeout, queue, plan, mode, elapsed, ahead, age>>

\* A call has its answer, an error, or no time left, and the handler replies.
Finish == Running /\ mode = "calls" /\ Reply

\* 429 before the last attempt.
BackOff ==
  /\ Running /\ mode = "calls" /\ plan[at] = "http" /\ attempt < MaxRetries
  /\ mode' = "pauses" /\ waited' = 0
  /\ UNCHANGED <<authTimeout, queue, plan, at, attempt, elapsed, ahead, age>>

Pause == FirstBackoff * 2 ^ (attempt - 1)

TryAgain ==
  /\ Running /\ mode = "pauses" /\ waited >= Pause
  /\ mode' = "calls" /\ attempt' = attempt + 1 /\ waited' = 0
  /\ UNCHANGED <<authTimeout, queue, plan, at, elapsed, ahead, age>>

\* The handler's context ends during the backoff.
Cancel == Running /\ mode = "pauses" /\ elapsed >= Budget /\ Reply
-----------------------------------------------------------------------------
\* The limit of the present wait, without the handler's deadline.
Limit ==
  IF mode = "pauses" THEN Pause ELSE IF plan[at] = "auth" THEN authTimeout ELSE HTTPTimeout

\* Not the code: the calls do not carry the context of the handler.
WaitOverByItself == waited >= Limit

\* No wait outlasts its own limit, or the deadline of the handler.
WaitOver == waited >= Limit \/ elapsed >= Budget

\* Time passes in the waits: computing takes none, and timers are not late.
Tick ==
  /\ Running /\ ~WaitOver
  /\ elapsed' = elapsed + 1 /\ waited' = waited + 1
  /\ age' = [m \in Message |-> IF Waiting(m) THEN age[m] + 1 ELSE age[m]]
  /\ UNCHANGED <<authTimeout, queue, handler, ahead>>

Next ==
  \/ \E m \in Message : Arrive(m)
  \/ Start \/ Refuse \/ Proceed \/ Finish \/ BackOff \/ TryAgain \/ Cancel
  \/ Tick

Spec == Init /\ [][Next]_vars
-----------------------------------------------------------------------------
(* Properties.                                                             *)

\* subscriptions.go:20-21: msgHandlerTimeout caps the total wall time of a message,
\* whatever its calls, retries and backoffs would take by themselves and whatever
\* timeout is configured.  A caller has its answer within as many budgets as
\* there were messages before its own, and one more.
AnsweredInTurn ==
  \A i \in DOMAIN queue : age[queue[i]] <= (ahead[queue[i]] + 1) * Budget
=============================================================================
