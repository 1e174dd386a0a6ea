------------------------ MODULE HandlerBudgetProofs ------------------------
(***************************************************************************)
(* Proofs for HandlerBudget: whatever the timeouts, the number of retries  *)
(* and the plans, a message is answered within one budget for itself and   *)
(* one for each message it found before it.                                *)
(***************************************************************************)
EXTENDS HandlerBudget, TLAPS

\* The i-th message on hand found at least i - 1 before it; the handlers that have
\* ended since, ahead - (i - 1) of them, took a budget each at most, and the one
\* that runs has taken what has elapsed.
Accounted ==
  \A i \in DOMAIN queue :
    /\ i <= ahead[queue[i]] + 1
    /\ age[queue[i]] <= (ahead[queue[i]] + 1 - i) * Budget + elapsed

IInv ==
  /\ TypeOK
  /\ \A i, j \in DOMAIN queue : queue[i] = queue[j] => i = j
  /\ \A m \in Message : ~Waiting(m) => age[m] = 0
  /\ Running => queue # <<>>
  /\ mode = "pauses" => attempt < MaxRetries
  /\ ~Running => elapsed = 0
  /\ elapsed <= Budget
  /\ Accounted
-----------------------------------------------------------------------------
\* Removing the head of a sequence moves the others up by one.
LEMMA TailFacts ==
  ASSUME NEW S, NEW s \in Seq(S), s # <<>>
  PROVE  /\ Tail(s) \in Seq(S)
         /\ DOMAIN Tail(s) = 1..(Len(s) - 1)
         /\ \A i \in DOMAIN Tail(s) : Tail(s)[i] = s[i + 1] /\ i + 1 \in DOMAIN s
         /\ Head(s) \in S /\ Head(s) = s[1] /\ 1 \in DOMAIN s
  OBVIOUS

\* Removing the head of a sequence loses no other.
LEMMA TailKeeps ==
  ASSUME NEW S, NEW s \in Seq(S), s # <<>>, NEW i \in DOMAIN s, i # 1
  PROVE  i - 1 \in DOMAIN Tail(s) /\ Tail(s)[i - 1] = s[i]
<1>1. i \in Nat /\ i - 1 \in 1..(Len(s) - 1) /\ (i - 1) + 1 = i
  OBVIOUS
<1> QED
  BY <1>1, TailFacts

\* Appending leaves no sequence empty.
LEMMA AppendFacts ==
  ASSUME NEW S, NEW s \in Seq(S), NEW x \in S PROVE Append(s, x) # <<>>
<1>1. Len(Append(s, x)) = Len(s) + 1 /\ Len(s) \in Nat
  OBVIOUS
<1>2. Len(<<>>) = 0
  OBVIOUS
<1>3. Len(Append(s, x)) # 0
  BY <1>1
<1> QED
  BY <1>2, <1>3

\* A budget more is a budget added.
LEMMA OneMore ==
  ASSUME NEW n \in Nat PROVE (n + 1) * Budget = n * Budget + Budget
  BY BudgetAssumption

\* When a handler ends, what it took is covered by one more budget.
LEMMA OneServed ==
  ASSUME NEW a \in Nat, NEW i \in Nat, NEW g \in Nat, NEW e \in Nat,
         i + 1 <= a + 1, e <= Budget, g <= (a + 1 - (i + 1)) * Budget + e
  PROVE  g <= (a + 1 - i) * Budget + 0
  <1> DEFINE n == a + 1 - (i + 1)
  <1>1. n \in Nat /\ a + 1 - i = n + 1
    OBVIOUS
  <1> HIDE DEF n
  <1>2. (n + 1) * Budget = n * Budget + Budget /\ n * Budget \in Nat
    BY <1>1, OneMore, BudgetAssumption
  <1>3. g <= n * Budget + e
    BY DEF n
  <1>4. g <= (n + 1) * Budget + 0
    BY <1>2, <1>3, BudgetAssumption
  <1> QED
    BY <1>1, <1>4

\* Initially nothing is on hand.
LEMMA InitIInv == Init => IInv
  <1> SUFFICES ASSUME Init PROVE IInv
    OBVIOUS
  <1>1. authTimeout \in Nat \ {0}
    BY BudgetAssumption DEF Init, AuthServiceTimeout
  <1> QED
    BY <1>1, BudgetAssumption DEF Init, IInv, TypeOK, Accounted, Running

\* The reply ends the handler and moves the queue up.
LEMMA ReplyStep ==
  ASSUME IInv, queue # <<>>, Reply PROVE IInv'
  <1> USE DEF Reply, IInv, TypeOK
  <1> DEFINE h == Head(queue)
  <1>1. /\ Tail(queue) \in Seq(Message)
        /\ DOMAIN Tail(queue) = 1..(Len(queue) - 1)
        /\ \A i \in DOMAIN Tail(queue) :
             Tail(queue)[i] = queue[i + 1] /\ i + 1 \in DOMAIN queue
        /\ h \in Message /\ h = queue[1] /\ 1 \in DOMAIN queue
    BY TailFacts
  <1>2. TypeOK'
    BY <1>1, BudgetAssumption
  <1>3. \A i, j \in DOMAIN queue' : queue'[i] = queue'[j] => i = j
    BY <1>1
  <1>4. \A i \in DOMAIN queue' :
          queue'[i] = queue[i + 1] /\ i + 1 \in DOMAIN queue /\ queue'[i] # h /\ i \in Nat
    BY SMTT(30), <1>1
  <1>5. \A m \in Message : ~Waiting(m)' => age'[m] = 0
    <2> SUFFICES ASSUME NEW m \in Message, ~Waiting(m)', m # h PROVE age'[m] = 0
      BY <1>1
    <2>1. ~Waiting(m)
      <3> SUFFICES ASSUME NEW i \in DOMAIN queue, queue[i] = m PROVE FALSE
        BY DEF Waiting
      <3>1. i # 1
        BY <1>1
      <3>2. i - 1 \in DOMAIN Tail(queue) /\ Tail(queue)[i - 1] = queue[i]
        BY <3>1, TailKeeps
      <3> QED
        BY <3>2 DEF Waiting
    <2> QED
      BY <2>1
  <1>6. Accounted'
    <2> SUFFICES ASSUME NEW i \in DOMAIN queue'
                 PROVE /\ i <= ahead'[queue'[i]] + 1
                       /\ age'[queue'[i]] <= (ahead'[queue'[i]] + 1 - i) * Budget + elapsed'
      BY DEF Accounted
    <2> DEFINE m == queue[i + 1]
    <2>1. m \in Message /\ ahead'[queue'[i]] = ahead[m] /\ age'[queue'[i]] = age[m]
      BY SMTT(30), <1>4
    <2>2. /\ i + 1 <= ahead[m] + 1
          /\ age[m] <= (ahead[m] + 1 - (i + 1)) * Budget + elapsed
      BY <1>4 DEF Accounted
    <2>3. i \in Nat /\ ahead[m] \in Nat /\ age[m] \in Nat
      BY <1>4, <2>1
    <2> HIDE DEF m
    <2>4. elapsed \in Nat /\ elapsed <= Budget /\ elapsed' = 0
      OBVIOUS
    <2> HIDE DEF Reply, IInv, TypeOK
    <2>5. age[m] <= (ahead[m] + 1 - i) * Budget + 0
      BY <2>2, <2>3, <2>4, OneServed
    <2>6. i <= ahead[m] + 1
      BY <2>2, <2>3
    <2> QED
      BY <2>1, <2>4, <2>5, <2>6
  <1> QED
    BY <1>2, <1>3, <1>5, <1>6, BudgetAssumption DEF Running

\* A message that arrives finds the others before it and has not waited.
LEMMA ArriveStep ==
  ASSUME IInv, NEW m \in Message, Arrive(m) PROVE IInv'
  <1> USE DEF Arrive, handler, IInv, TypeOK
  <1>1. /\ Len(queue) \in Nat /\ DOMAIN queue = 1..Len(queue)
        /\ queue' \in Seq(Message) /\ DOMAIN queue' = 1..(Len(queue) + 1)
        /\ \A i \in DOMAIN queue : queue'[i] = queue[i] /\ queue[i] # m
        /\ queue'[Len(queue) + 1] = m
    BY DEF Waiting
  <1>2. TypeOK'
    BY <1>1
  <1>3. \A i, j \in DOMAIN queue' : queue'[i] = queue'[j] => i = j
    BY SMTT(30), <1>1
  <1>4. \A n \in Message : ~Waiting(n)' => age'[n] = 0
    BY <1>1 DEF Waiting
  <1>5. Accounted'
    <2> SUFFICES ASSUME NEW i \in DOMAIN queue'
                 PROVE /\ i <= ahead'[queue'[i]] + 1
                       /\ age'[queue'[i]] <= (ahead'[queue'[i]] + 1 - i) * Budget + elapsed'
      BY DEF Accounted
    <2>1. CASE i \in DOMAIN queue
      <3>1. queue'[i] = queue[i] /\ ahead'[queue[i]] = ahead[queue[i]]
        BY <1>1, <2>1
      <3> QED
        BY <2>1, <3>1 DEF Accounted
    <2>2. CASE i = Len(queue) + 1
      <3>1. queue'[i] = m /\ ahead'[m] = Len(queue) /\ age'[m] = 0
        BY <1>1, <2>2
      <3>2. Len(queue) + 1 - i = 0 /\ 0 * Budget = 0
        BY <1>1, <2>2, BudgetAssumption
      <3> QED
        BY <1>1, <2>2, <3>1, <3>2
    <2> QED
      BY SMTT(30), <1>1, <2>1, <2>2
  <1>6. queue' # <<>>
    BY AppendFacts
  <1>7. UNCHANGED <<at, attempt, mode, elapsed>>
    OBVIOUS
  <1>8. IInv!5' /\ IInv!6' /\ IInv!7'
    BY <1>7 DEF Running
  <1> QED
    BY <1>2, <1>3, <1>4, <1>5, <1>6, <1>8

\* Time passes for everybody on hand alike.
LEMMA TickStep ==
  ASSUME IInv, Tick PROVE IInv'
  <1> USE DEF Tick, handler, IInv, TypeOK
  <1>1. elapsed' <= Budget
    BY BudgetAssumption DEF WaitOver
  <1>2. TypeOK'
    OBVIOUS
  <1>3. Accounted'
    <2> SUFFICES ASSUME NEW i \in DOMAIN queue
                 PROVE /\ i <= ahead[queue[i]] + 1
                       /\ age'[queue[i]] <= (ahead[queue[i]] + 1 - i) * Budget + elapsed'
      BY DEF Accounted
    <2>1. queue[i] \in Message /\ age'[queue[i]] = age[queue[i]] + 1
      BY DEF Waiting
    <2>2. /\ i <= ahead[queue[i]] + 1
          /\ age[queue[i]] <= (ahead[queue[i]] + 1 - i) * Budget + elapsed
      BY DEF Accounted
    <2>3. (ahead[queue[i]] + 1 - i) * Budget \in Nat
      BY SMTT(30), <2>1, <2>2, BudgetAssumption
    <2> DEFINE b == (ahead[queue[i]] + 1 - i) * Budget
    <2> HIDE DEF b
    <2> QED
      BY <2>1, <2>2, <2>3 DEF b
  <1>4. \A m \in Message : ~Waiting(m)' => age'[m] = 0
    BY DEF Waiting
  <1> QED
    BY <1>1, <1>2, <1>3, <1>4 DEF Running

\* The steps of a handler that answer nothing leave the queue and the clocks of the
\* messages alone; only Start sets the clock of the handler, to 0.
LEMMA CallStep ==
  ASSUME IInv, Start \/ Proceed \/ BackOff \/ TryAgain PROVE IInv'
  <1> USE DEF IInv, TypeOK
  <1>1. /\ UNCHANGED <<authTimeout, queue, ahead, age>>
        /\ elapsed' = elapsed /\ Running' /\ queue # <<>>
    BY DEF Start, Proceed, BackOff, TryAgain, Running
  <1>2. plan' \in Seq({"auth", "http"}) /\ at' \in 0..Len(plan')
    <2>1. CASE Start
      BY <2>1, BudgetAssumption DEF Start
    <2>2. CASE Proceed \/ BackOff \/ TryAgain
      BY <2>2 DEF Proceed, BackOff, TryAgain, Running
    <2> QED
      BY <2>1, <2>2
  <1>3. attempt' \in 1..MaxRetries /\ mode' \in {"calls", "pauses"} /\ waited' \in Nat
    BY SMTT(30), BudgetAssumption DEF Start, Proceed, BackOff, TryAgain
  <1>4. Accounted' /\ \A m \in Message : ~Waiting(m)' => age'[m] = 0
    BY <1>1 DEF Accounted, Waiting
  <1>5. mode' = "pauses" => attempt' < MaxRetries
    BY DEF Start, Proceed, BackOff, TryAgain
  <1>6. IInv!2' /\ IInv!4' /\ IInv!6' /\ IInv!7'
    BY <1>1
  <1>7. authTimeout' \in Nat \ {0} /\ queue' \in Seq(Message) /\ elapsed' \in Nat
        /\ ahead' \in [Message -> Nat] /\ age' \in [Message -> Nat]
    BY <1>1
  <1> QED
    BY <1>2, <1>3, <1>4, <1>5, <1>6, <1>7
-----------------------------------------------------------------------------
\* IInv is inductive.
LEMMA NextIInv == IInv /\ [Next]_vars => IInv'
  <1> SUFFICES ASSUME IInv, [Next]_vars PROVE IInv'
    OBVIOUS
  <1>1. CASE \E m \in Message : Arrive(m)
    BY <1>1, ArriveStep
  <1>2. CASE Start \/ Proceed \/ BackOff \/ TryAgain
    BY <1>2, CallStep
  <1>3. CASE Refuse \/ Finish \/ Cancel
    <2>1. queue # <<>> /\ Reply
      BY <1>3 DEF Refuse, Finish, Cancel, IInv
    <2> QED
      BY <2>1, ReplyStep
  <1>4. CASE Tick
    BY <1>4, TickStep
  <1>5. CASE UNCHANGED vars
    BY <1>5 DEF vars, handler, IInv, TypeOK, Accounted, Waiting, Running
  <1> QED
    BY <1>1, <1>2, <1>3, <1>4, <1>5 DEF Next

\* What is accounted for is within the bound.
LEMMA IInvBounds == IInv => AnsweredInTurn
  <1> SUFFICES ASSUME IInv, NEW i \in DOMAIN queue
               PROVE age[queue[i]] <= (ahead[queue[i]] + 1) * Budget
    BY DEF AnsweredInTurn
  <1> DEFINE m == queue[i]
             n == ahead[m] + 1 - i
  <1>1. /\ m \in Message /\ i \in Nat /\ 1 <= i /\ ahead[m] \in Nat /\ age[m] \in Nat
        /\ elapsed \in Nat /\ elapsed <= Budget
    BY DEF IInv, TypeOK
  <1>2. i <= ahead[m] + 1 /\ age[m] <= n * Budget + elapsed
    BY DEF IInv, Accounted
  <1>3. n \in Nat /\ n <= ahead[m]
    BY <1>1, <1>2
  <1>4. ahead[m] - n \in Nat /\ ahead[m] = n + (ahead[m] - n)
    BY <1>1, <1>3
  <1> HIDE DEF n, m
  <1>5. \A d \in Nat : (n + d) * Budget = n * Budget + d * Budget /\ d * Budget \in Nat
    BY <1>3, BudgetAssumption
  <1>6. n * Budget <= ahead[m] * Budget /\ n * Budget \in Nat /\ ahead[m] * Budget \in Nat
    <2> DEFINE d == ahead[m] - n
    <2>1. d \in Nat /\ ahead[m] = n + d
      BY <1>4
    <2> HIDE DEF d
    <2>2. ahead[m] * Budget = n * Budget + d * Budget /\ d * Budget \in Nat
      BY <2>1, <1>5
    <2>3. n * Budget \in Nat
      BY <1>3, BudgetAssumption
    <2> QED
      BY <2>2, <2>3
  <1>7. (ahead[m] + 1) * Budget = ahead[m] * Budget + Budget
    BY <1>1, OneMore
  <1>8. age[m] <= (ahead[m] + 1) * Budget
    BY <1>1, <1>2, <1>6, <1>7, BudgetAssumption
  <1> QED
    BY <1>8 DEF m

\* The variables keep their types: the timeout of the auth-service call stays
\* positive and the attempts within MaxRetries.
THEOREM BudgetTypeCorrect == Spec => []TypeOK
  <1>1. IInv => TypeOK
    BY DEF IInv
  <1> QED
    BY InitIInv, NextIInv, <1>1, PTL DEF Spec

\* A message is answered within one budget for itself and one for each message that
\* was there before it, for every choice of the timeouts.
THEOREM AnsweredInTurnHolds == Spec => []AnsweredInTurn
  BY InitIInv, NextIInv, IInvBounds, PTL DEF Spec
=============================================================================
