---------------------------- MODULE FEClientProofs ----------------------------
(***************************************************************************)
(* What one call of the forwardemail.net client guarantees, for any number *)
(* of calls and any limit on the attempts.                                 *)
(***************************************************************************)
EXTENDS FEClient, TLAPS

\* The attempts of a call, in order: those before the current one were answered
\* 429, those after it are not sent.
Sequential ==
  \A c \in Call : \A a \in Attempt :
    /\ a < attempt[c] => exchange[c][a] = "429"
    /\ a > attempt[c] => exchange[c][a] = "unsent"

\* Where do is agrees with what became of its current attempt.
Synchronised ==
  \A c \in Call :
    /\ pc[c] = "send" => exchange[c][attempt[c]] = "unsent"
    /\ pc[c] = "backoff" => exchange[c][attempt[c]] = "429" /\ attempt[c] < MaxRetries
    /\ pc[c] \in {"await", "returned"} => exchange[c][attempt[c]] # "unsent"
    /\ pc[c] = "returned" <=> result[c] # "none"

\* A result that denies the effect, and one that asserts it, are well founded.
Founded ==
  \A c \in Call :
    /\ result[c] \in Denials => exchange[c][attempt[c]] \in TurnedAway
    /\ result[c] = "nil" => exchange[c][attempt[c]] \in CarriedOut

Inv == TypeOK /\ Sequential /\ Synchronised /\ Founded /\ RetriesCarryBody
-----------------------------------------------------------------------------
\* The retry limit is positive, so there is a first attempt.
LEMMA Attempts ==
  /\ MaxRetries \in Nat /\ 1 \in Attempt
  /\ \A a \in Attempt : a \in Nat /\ 1 <= a /\ a <= MaxRetries
  /\ \A a \in Attempt : a # MaxRetries => a < MaxRetries /\ a + 1 \in Attempt
  BY RetriesAssumption DEF Attempt

\* Calls that have not started satisfy the invariant.
LEMMA InvInit == Init => Inv
<1> SUFFICES ASSUME Init PROVE Inv
  OBVIOUS
<1>1. TypeOK
  BY Attempts DEF Init, TypeOK, Exchange, Result, HasBody
<1>2. Sequential
  BY Attempts DEF Init, Sequential
<1>3. Synchronised /\ Founded
  BY Attempts DEF Init, Synchronised, Founded, Denials
<1>4. RetriesCarryBody
  BY DEF Init, RetriesCarryBody
<1> QED
  BY <1>1, <1>2, <1>3, <1>4 DEF Inv

\* A step that returns keeps it, if the value is founded.
LEMMA ReturnKeeps ==
  ASSUME Inv, NEW c \in Call, NEW value \in Result \ {"none"}, Return(c, value),
         pc[c] \in {"await", "backoff"},
         value \in Denials => exchange[c][attempt[c]] \in TurnedAway,
         value = "nil" => exchange[c][attempt[c]] \in CarriedOut
  PROVE  Inv'
<1> USE DEF Inv
<1>1. TypeOK'
  BY DEF TypeOK, Return, remote
<1>2. Sequential'
  BY DEF Sequential, Return, remote
<1>3. Synchronised'
  BY DEF Synchronised, TypeOK, Return, remote
<1>4. Founded'
  BY DEF Founded, TypeOK, Return, remote
<1>5. RetriesCarryBody'
  BY DEF RetriesCarryBody, HasBody, Return, remote
<1> QED
  BY <1>1, <1>2, <1>3, <1>4, <1>5

\* Every step of do keeps it.
LEMMA InvDo ==
  ASSUME Inv, NEW c \in Call, DoStep(c)
  PROVE  Inv'
<1> USE DEF Inv
<1>0. attempt[c] \in Attempt /\ exchange[c] \in [Attempt -> Exchange]
  BY DEF TypeOK
<1>1. CASE Send(c)
  <2>1. /\ pc' = [pc EXCEPT ![c] = "await"]
        /\ exchange' = [exchange EXCEPT ![c][attempt[c]] = "travelling"]
        /\ carried' = [carried EXCEPT ![c][attempt[c]] = Body(c)]
        /\ reader' = [reader EXCEPT ![c] = "empty"]
        /\ UNCHANGED <<method, attempt, result>> /\ pc[c] = "send"
    BY <1>1 DEF Send
  <2>2. TypeOK'
    <3>1. Body(c) \in {"whole", "empty"}
      BY DEF TypeOK, Body
    <3> QED
      BY <1>0, <2>1, <3>1 DEF TypeOK, Exchange
  <2>3. \A d \in Call, a \in Attempt :
          exchange'[d][a] = IF d = c /\ a = attempt[c] THEN "travelling"
                            ELSE exchange[d][a]
    BY <1>0, <2>1 DEF TypeOK
  <2>4. Sequential'
    BY <2>1, <2>3, Attempts DEF Sequential, TypeOK
  <2>5. Synchronised' /\ Founded'
    BY <1>0, <2>1, <2>3 DEF Synchronised, Founded, TypeOK, Denials
  <2>6. RetriesCarryBody'
    <3>1. \A d \in Call, a \in Attempt :
            carried'[d][a] = IF d = c /\ a = attempt[c] THEN Body(c)
                             ELSE carried[d][a]
      BY <1>0, <2>1 DEF TypeOK
    <3> QED
      BY <2>1, <2>3, <3>1 DEF RetriesCarryBody, HasBody, Body
  <2> QED
    BY <2>2, <2>4, <2>5, <2>6
<1>2. CASE BackOff(c)
  <2>1. /\ pc[c] = "await" /\ exchange[c][attempt[c]] = "429" /\ attempt[c] < MaxRetries
        /\ pc' = [pc EXCEPT ![c] = "backoff"]
        /\ UNCHANGED <<method, attempt, reader, exchange, carried, result>>
    BY <1>0, <1>2, Attempts DEF BackOff, Answered, remote
  <2>2. TypeOK'
    BY <2>1 DEF TypeOK
  <2>3. Sequential' /\ Founded' /\ RetriesCarryBody'
    BY <2>1 DEF Sequential, Founded, RetriesCarryBody, HasBody
  <2>4. Synchronised'
    BY <2>1 DEF Synchronised, TypeOK
  <2> QED
    BY <2>2, <2>3, <2>4
<1>3. CASE TryAgain(c)
  <2>1. /\ pc[c] = "backoff" /\ pc' = [pc EXCEPT ![c] = "send"]
        /\ attempt' = [attempt EXCEPT ![c] = @ + 1]
        /\ UNCHANGED <<method, reader, exchange, carried, result>>
    BY <1>3 DEF TryAgain, remote
  <2>2. exchange[c][attempt[c]] = "429" /\ attempt[c] < MaxRetries /\ result[c] = "none"
    BY <2>1 DEF Synchronised, TypeOK
  <2>3. attempt[c] + 1 \in Attempt /\ attempt[c] \in Nat
    BY <1>0, <2>2, Attempts
  <2>4. TypeOK'
    BY <2>1, <2>3 DEF TypeOK
  <2>5. Sequential'
    <3> SUFFICES ASSUME NEW d \in Call, NEW a \in Attempt
                 PROVE  /\ a < attempt'[d] => exchange[d][a] = "429"
                        /\ a > attempt'[d] => exchange[d][a] = "unsent"
      BY <2>1 DEF Sequential
    <3>1. a \in Nat /\ attempt[d] \in Nat
      BY Attempts DEF TypeOK
    <3>2. CASE d = c
      <4>1. attempt'[d] = attempt[d] + 1
        BY <2>1, <3>2 DEF TypeOK
      <4>2. a < attempt'[d] => a < attempt[d] \/ a = attempt[d]
        BY <3>1, <4>1
      <4>3. a > attempt'[d] => a > attempt[d]
        BY <3>1, <4>1
      <4> QED
        BY <2>2, <3>2, <4>2, <4>3 DEF Sequential
    <3>3. CASE d # c
      BY <2>1, <3>3 DEF Sequential, TypeOK
    <3> QED
      BY <3>2, <3>3
  <2>6. exchange[c][attempt[c] + 1] = "unsent"
    BY <1>0, <2>3, Attempts DEF Sequential
  <2>7. Synchronised' /\ Founded'
    BY <2>1, <2>2, <2>6 DEF Synchronised, Founded, TypeOK, Denials
  <2>8. RetriesCarryBody'
    BY <2>1 DEF RetriesCarryBody, HasBody
  <2> QED
    BY <2>4, <2>5, <2>7, <2>8
<1>4. CASE Cancel(c)
  <2>1. exchange[c][attempt[c]] \in TurnedAway
    BY <1>4 DEF Cancel, Synchronised, TurnedAway
  <2> QED
    BY <1>4, <2>1, ReturnKeeps DEF Cancel, Result
<1>5. CASE RateLimited(c)
  BY <1>5, ReturnKeeps DEF RateLimited, Answered, Result, TurnedAway
<1>6. CASE Missing(c)
  BY <1>6, ReturnKeeps DEF Missing, Answered, Result, TurnedAway
<1>7. CASE Failed(c)
  BY <1>7, ReturnKeeps DEF Failed, Answered, Result, Denials
<1>8. CASE Succeed(c)
  BY <1>8, ReturnKeeps DEF Succeed, Answered, Result, Denials, CarriedOut
<1>9. CASE DecodeFails(c)
  BY <1>9, ReturnKeeps DEF DecodeFails, Answered, Result, Denials
<1>10. CASE TransportFails(c)
  BY <1>10, ReturnKeeps DEF TransportFails, Result, Denials
<1> QED
  BY <1>1, <1>2, <1>3, <1>4, <1>5, <1>6, <1>7, <1>8, <1>9, <1>10 DEF DoStep

\* What forwardemail.net does with an attempt.
LEMMA Handled ==
  ASSUME Inv, NEW c \in Call, NEW a \in Attempt,
         NEW status \in CarriedOut \cup TurnedAway, Handle(c, a, status)
  PROVE  /\ a = attempt[c] /\ pc[c] \in {"await", "returned"}
         /\ result[c] \notin Denials \cup {"nil"}
         /\ \A d \in Call, b \in Attempt :
              exchange'[d][b] = IF d = c /\ b = a THEN status ELSE exchange[d][b]
<1> USE DEF Inv
<1>1. exchange[c][a] = "travelling"
  BY DEF Handle
<1>2. a = attempt[c]
  <2>1. a \in Nat /\ attempt[c] \in Nat
    BY Attempts DEF TypeOK
  <2>2. ~(a < attempt[c]) /\ ~(a > attempt[c])
    BY <1>1 DEF Sequential
  <2> QED
    BY <2>1, <2>2
<1>3. pc[c] \in {"await", "returned"}
  BY <1>1, <1>2 DEF Synchronised, TypeOK
<1>4. result[c] \notin Denials \cup {"nil"}
  BY <1>1, <1>2 DEF Founded, TurnedAway, CarriedOut
<1>5. \A d \in Call, b \in Attempt :
        exchange'[d][b] = IF d = c /\ b = a THEN status ELSE exchange[d][b]
  BY DEF Handle, TypeOK
<1> QED
  BY <1>2, <1>3, <1>4, <1>5

\* It keeps the invariant.
LEMMA InvHandle ==
  ASSUME Inv, NEW c \in Call, NEW a \in Attempt,
         NEW status \in CarriedOut \cup TurnedAway, Handle(c, a, status)
  PROVE  Inv'
<1> USE DEF Inv
<1>1. UNCHANGED <<method, pc, attempt, reader, carried, result>>
  BY DEF Handle
<1>2. TypeOK'
  BY <1>1 DEF Handle, TypeOK, Exchange
<1>3. status # "unsent"
  BY DEF CarriedOut, TurnedAway
<1>4. Sequential'
  <2>1. attempt[c] \in Nat /\ a = attempt[c]
    BY Handled, Attempts DEF TypeOK
  <2>2. \A d \in Call, b \in Attempt :
          exchange'[d][b] = exchange[d][b] \/ (d = c /\ b = attempt[c])
    BY <2>1, Handled
  <2> QED
    BY <1>1, <2>1, <2>2 DEF Sequential
<1>5. Synchronised'
  BY <1>1, <1>3, Handled DEF Synchronised, TypeOK
<1>6. Founded'
  <2> SUFFICES ASSUME NEW d \in Call
               PROVE  /\ result[d] \in Denials => exchange'[d][attempt[d]] \in TurnedAway
                      /\ result[d] = "nil" => exchange'[d][attempt[d]] \in CarriedOut
    BY <1>1 DEF Founded
  <2>1. CASE d = c
    BY <2>1, Handled
  <2>2. CASE d # c
    <3>1. attempt[d] \in Attempt /\ exchange'[d][attempt[d]] = exchange[d][attempt[d]]
      BY <2>2, Handled DEF TypeOK
    <3> QED
      BY <3>1 DEF Founded
  <2> QED
    BY <2>1, <2>2
<1>7. RetriesCarryBody'
  <2>1. exchange[c][a] # "unsent"
    BY DEF Handle
  <2> QED
    BY <1>1, <2>1, Handled DEF RetriesCarryBody, HasBody
<1> QED
  BY <1>2, <1>4, <1>5, <1>6, <1>7

\* Every step keeps it.
LEMMA InvStep == Inv /\ [Next]_vars => Inv'
<1> SUFFICES ASSUME Inv, [Next]_vars PROVE Inv'
  OBVIOUS
<1>1. CASE Next
  BY <1>1, InvDo, InvHandle DEF Next
<1>2. CASE UNCHANGED vars
  BY <1>2 DEF vars, Inv, TypeOK, Sequential, Synchronised, Founded,
              RetriesCarryBody, HasBody
<1> QED
  BY <1>1, <1>2

\* It holds in every state the calls reach.
LEMMA Invariant == Spec => []Inv
  BY InvInit, InvStep, PTL DEF Spec

\* Every variable of a call keeps its type; in particular do never starts an
\* attempt beyond the last.
THEOREM TypeCorrect == Spec => []TypeOK
  BY Invariant, PTL DEF Inv

\* However often do tries, at most one of its attempts is, or can yet be,
\* carried out at forwardemail.net.
THEOREM NothingRepeated == Spec => []AtMostOnce
<1>1. Inv => AtMostOnce
  <2> SUFFICES ASSUME Inv, NEW c \in Call, NEW a \in Attempt, NEW b \in Attempt,
                      exchange[c][a] \in {"travelling"} \cup CarriedOut,
                      exchange[c][b] \in {"travelling"} \cup CarriedOut
               PROVE  a = b
    BY DEF AtMostOnce
  <2>1. a \in Nat /\ b \in Nat /\ attempt[c] \in Nat
    BY Attempts DEF Inv, TypeOK
  <2>2. ~(a < attempt[c]) /\ ~(a > attempt[c]) /\ ~(b < attempt[c]) /\ ~(b > attempt[c])
    BY DEF Inv, Sequential, CarriedOut
  <2> QED
    BY <2>1, <2>2
<1> QED
  BY <1>1, Invariant, PTL

\* Every attempt of a POST or PUT carries the whole body.
THEOREM BodiesWhole == Spec => []RetriesCarryBody
  BY Invariant, PTL DEF Inv
-----------------------------------------------------------------------------
(* The client implements RemoteCall.                                       *)

\* A call before its first attempt is one whose outcome is open.
LEMMA RemoteInit == Init => Remote!Init
<1> SUFFICES ASSUME Init PROVE Remote!Init
  OBVIOUS
<1>1. StatusBar = [c \in Call |-> "waiting"]
  BY DEF Init, StatusBar
<1>2. EffectBar = [c \in Call |-> "pending"]
  BY DEF Init, EffectBar, CarriedOut, Denials
<1> QED
  BY <1>1, <1>2 DEF Remote!Init

\* A call that was carried out was so at its current attempt.
LEMMA EffectOfCurrent ==
  ASSUME Inv, NEW c \in Call
  PROVE  (\E a \in Attempt : exchange[c][a] \in CarriedOut)
           <=> exchange[c][attempt[c]] \in CarriedOut
<1>1. attempt[c] \in Attempt
  BY DEF Inv, TypeOK
<1>2. ASSUME NEW a \in Attempt, exchange[c][a] \in CarriedOut
      PROVE  a = attempt[c]
  <2>1. a \in Nat /\ attempt[c] \in Nat
    BY <1>1, Attempts
  <2>2. ~(a < attempt[c]) /\ ~(a > attempt[c])
    BY <1>2 DEF Inv, Sequential, CarriedOut
  <2> QED
    BY <2>1, <2>2
<1> QED
  BY <1>1, <1>2

\* A return is a success, a denial or a loss, as its value says.
LEMMA RemoteReturn ==
  ASSUME Inv, Inv', NEW c \in Call, NEW value \in Result \ {"none"}, Return(c, value),
         pc[c] \in {"await", "backoff"}
  PROVE  Remote!Next
<1> DEFINE s == IF value = "nil" THEN "ok"
                ELSE IF value \in Denials THEN "denied" ELSE "unknown"
<1>1. result[c] = "none" /\ StatusBar[c] = "waiting"
  BY DEF Inv, Synchronised, StatusBar
<1>2. /\ result' = [result EXCEPT ![c] = value] /\ result \in [Call -> Result]
      /\ exchange' = exchange /\ attempt' = attempt
  BY DEF Return, remote, Inv, TypeOK
<1>3. StatusBar' = [StatusBar EXCEPT ![c] = s]
  BY <1>2 DEF StatusBar
<1>4. CASE value \in Denials
  <2>1. exchange[c][attempt[c]] \notin CarriedOut
    BY ZenonT(40), <1>2, <1>4 DEF Inv, Founded, TurnedAway, CarriedOut, TypeOK
  <2>2. EffectBar[c] = "pending" /\ EffectBar' = [EffectBar EXCEPT ![c] = "never"]
    BY <1>1, <1>2, <1>4, <2>1, EffectOfCurrent DEF EffectBar, Denials
  <2> QED
    BY <1>1, <1>3, <1>4, <2>2 DEF Remote!Next, Remote!Deny, Denials
<1>5. CASE value \notin Denials
  <2>1. EffectBar' = EffectBar
    BY <1>1, <1>2, <1>5 DEF EffectBar, Denials
  <2>2. value = "nil" => EffectBar[c] = "done"
    BY <1>2, EffectOfCurrent DEF Inv, Founded, TypeOK, EffectBar
  <2> QED
    BY <1>1, <1>3, <1>5, <2>1, <2>2
       DEF Remote!Next, Remote!Succeed, Remote!Lose
<1> QED
  BY <1>4, <1>5

\* Every other step of do changes nothing the caller or the server can see.
LEMMA RemoteDo ==
  ASSUME Inv, Inv', NEW c \in Call, DoStep(c)
  PROVE  Remote!Next \/ UNCHANGED <<StatusBar, EffectBar>>
<1>1. CASE Send(c)
  <2>1. /\ result' = result
        /\ \A d \in Call, a \in Attempt :
             exchange'[d][a] \in CarriedOut <=> exchange[d][a] \in CarriedOut
    <3>1. attempt[c] \in Attempt /\ exchange[c][attempt[c]] = "unsent"
      BY <1>1 DEF Send, Inv, TypeOK, Synchronised
    <3>2. \A d \in Call, a \in Attempt :
            exchange'[d][a] = IF d = c /\ a = attempt[c] THEN "travelling"
                              ELSE exchange[d][a]
      BY <1>1, <3>1 DEF Send, Inv, TypeOK
    <3>3. \A d \in Call, a \in Attempt :
            exchange'[d][a] \in CarriedOut <=> exchange[d][a] \in CarriedOut
      BY <3>1, <3>2 DEF CarriedOut
    <3> QED
      BY <1>1, <3>3 DEF Send
  <2> QED
    BY <2>1 DEF StatusBar, EffectBar
<1>2. CASE BackOff(c) \/ TryAgain(c)
  BY <1>2 DEF BackOff, TryAgain, remote, StatusBar, EffectBar
<1>3. CASE Cancel(c)
  BY <1>3, RemoteReturn DEF Cancel, Result
<1>4. CASE RateLimited(c) \/ Missing(c) \/ Failed(c) \/ Succeed(c) \/ DecodeFails(c)
  BY <1>4, RemoteReturn
     DEF RateLimited, Missing, Failed, Succeed, DecodeFails, Answered, Result
<1>5. CASE TransportFails(c)
  BY <1>5, RemoteReturn DEF TransportFails, Result
<1> QED
  BY <1>1, <1>2, <1>3, <1>4, <1>5 DEF DoStep

\* An attempt that is carried out is the effect; one that is turned away is none.
LEMMA RemoteHandle ==
  ASSUME Inv, NEW c \in Call, NEW a \in Attempt,
         NEW status \in CarriedOut \cup TurnedAway, Handle(c, a, status)
  PROVE  Remote!Next \/ UNCHANGED <<StatusBar, EffectBar>>
<1>1. result' = result /\ exchange[c][a] = "travelling"
  BY DEF Handle
<1>2. StatusBar' = StatusBar
  BY <1>1 DEF StatusBar
<1>3. CASE status \in CarriedOut
  <2>1. EffectBar[c] = "pending"
    BY ZenonT(40), <1>1, Handled, EffectOfCurrent DEF EffectBar, CarriedOut
  <2>2. \A d \in Call : EffectBar'[d] = IF d = c THEN "done" ELSE EffectBar[d]
    <3> SUFFICES ASSUME NEW d \in Call
                 PROVE  EffectBar'[d] = IF d = c THEN "done" ELSE EffectBar[d]
      OBVIOUS
    <3>1. CASE d = c
      <4>1. exchange'[c][a] \in CarriedOut
        BY <1>3, Handled
      <4> QED
        BY <3>1, <4>1 DEF EffectBar
    <3>2. CASE d # c
      <4>1. \A b \in Attempt : exchange'[d][b] = exchange[d][b]
        BY <3>2, Handled
      <4> QED
        BY <1>1, <3>2, <4>1 DEF EffectBar
    <3> QED
      BY <3>1, <3>2
  <2>3. EffectBar' = [EffectBar EXCEPT ![c] = "done"]
    BY <2>2 DEF EffectBar
  <2> QED
    BY <1>2, <2>1, <2>3 DEF Remote!Next, Remote!TakeEffect
<1>4. CASE status \in TurnedAway
  <2>1. \A d \in Call, b \in Attempt :
          exchange'[d][b] \in CarriedOut <=> exchange[d][b] \in CarriedOut
    <3>1. status \notin CarriedOut /\ exchange[c][a] \notin CarriedOut
      BY <1>1, <1>4 DEF CarriedOut, TurnedAway
    <3>2. \A d \in Call, b \in Attempt :
            exchange'[d][b] = IF d = c /\ b = a THEN status ELSE exchange[d][b]
      BY Handled
    <3> QED
      BY <3>1, <3>2
  <2> QED
    BY <1>1, <1>2, <2>1 DEF EffectBar
<1> QED
  BY <1>3, <1>4

\* do is a RemoteCall: it takes effect at most once, before it succeeds, and
\* never after it was denied.
THEOREM ClientImplementsRemoteCall == Spec => ImplementsRemoteCall
<1>1. Inv /\ Inv' /\ [Next]_vars => [Remote!Next]_<<StatusBar, EffectBar>>
  <2> SUFFICES ASSUME Inv, Inv', [Next]_vars
               PROVE  Remote!Next \/ UNCHANGED <<StatusBar, EffectBar>>
    OBVIOUS
  <2>1. CASE Next
    BY <2>1, RemoteDo, RemoteHandle DEF Next
  <2>2. CASE UNCHANGED vars
    BY <2>2 DEF vars, StatusBar, EffectBar
  <2> QED
    BY <2>1, <2>2
<1> QED
  BY <1>1, RemoteInit, Invariant, PTL DEF Spec, ImplementsRemoteCall, Remote!Spec, Remote!rvars
=============================================================================
