--------------------------- MODULE LifecycleProofs ---------------------------
(***************************************************************************)
(* One process, whatever messages are published: it takes messages only    *)
(* while it can serve them, leaves nothing behind when it returns, and     *)
(* keeps the promise of the queue group.                                   *)
(***************************************************************************)
EXTENDS Lifecycle, TLAPS, SequenceTheorems

NoRepeat(list) == \A i, j \in DOMAIN list : list[i] = list[j] => i = j

\* The list is the beginning of the whole one.
Begins(list, whole) ==
  /\ list \in Seq(Range(whole))
  /\ Len(list) <= Len(whole)
  /\ \A i \in 1..Len(list) : list[i] = whole[i]

\* How many calls are deferred.
Depth == Len(deferred)

\* How far run is tells how many calls it has deferred.
Control ==
  /\ pc \in Startup \cup {"ready", "unwinding", "shutting", "stopping"} \cup Gone
  /\ failed \in BOOLEAN /\ cancelled \in BOOLEAN
  /\ Begins(deferred, Deferrable)
  /\ pc \in {"telemetry", "shutting", "returned"} => Depth = 0
  /\ pc \in {"config", "connect", "keys", "wire"} => Depth = 1
  /\ pc \in {"subscribe", "stopping"} => Depth = 2
  /\ pc = "ready" => Depth = 3

\* The providers that run are those still to be shut down: all of them as long as
\* a call is deferred, and none once run has nothing left to do.
Telemetry ==
  /\ funcs \in Seq(Provider) /\ NoRepeat(funcs)
  /\ provider \in [Provider -> {"absent", "running", "shut"}]
  /\ \A p \in Provider : provider[p] = "running" <=> p \in Range(funcs)
  /\ pc = "telemetry" => Begins(funcs, Providers)
  /\ Depth > 0 => Range(funcs) = Provider
  /\ pc \in {"unwinding", "returned"} /\ Depth = 0 => funcs = <<>>

\* What is bound has a stop function that is still to be called, and will be.
Stoppable ==
  /\ stops \in Seq(Subject) /\ NoRepeat(stops)
  /\ bound \subseteq Range(stops)
  /\ pc \in Startup \ {"subscribe"} => stops = <<>>
  /\ pc = "subscribe" => Begins(stops, Subscribers)
  /\ bound # {} => \/ pc \in {"subscribe", "ready", "stopping"}
                   \/ pc = "unwinding" /\ Depth = 3

\* The connection is open as long as its Shutdown is deferred; where it is open
\* and that is not deferred, it never carried a message, and run does not succeed.
Connection ==
  /\ conn \in {"none", "open", "draining", "flushing", "closed"} /\ linked \in BOOLEAN
  /\ pc \in {"telemetry", "config", "connect"} => conn = "none"
  /\ pc \in {"keys", "wire"} \/ Depth > 1 => conn = "open"
  /\ conn = "open" /\ Depth < 2 =>
       /\ bound = {} /\ \A m \in Message : stage[m] = "new"
       /\ pc \in {"unwinding", "shutting", "returned"} => failed = TRUE
  /\ pc \in Startup \ {"subscribe"} => \A m \in Message : stage[m] = "new"

\* What waits in a subscription is not new.
Traffic ==
  /\ queue \in [Subject -> Seq(Message)]
  /\ stage \in [Message -> {"new", "queued", "served", "lost"} \cup Handled]
  /\ \A s \in Subject : \A i \in DOMAIN queue[s] : stage[queue[s][i]] # "new"

IInv == Control /\ Telemetry /\ Stoppable /\ Connection /\ Traffic
-----------------------------------------------------------------------------
(* Facts about the lists.                                                  *)

\* What the three lists are made of.
LEMMA Lists ==
  /\ Len(Providers) = 3 /\ Providers \in Seq(Provider) /\ NoRepeat(Providers)
  /\ Len(Subscribers) = 3 /\ Subscribers \in Seq(Subject) /\ NoRepeat(Subscribers)
  /\ Len(Deferrable) = 3 /\ Deferrable \in Seq(Range(Deferrable)) /\ NoRepeat(Deferrable)
  /\ Deferrable[1] = "telemetry" /\ Deferrable[2] = "connection"
  /\ Deferrable[3] = "subscriptions"
<1>1. /\ Len(Providers) = 3 /\ DOMAIN Providers = 1..3 /\ Providers[1] = "tracer"
      /\ Providers[2] = "meter" /\ Providers[3] = "logger"
  BY DEF Providers
<1>2. /\ Len(Subscribers) = 3 /\ DOMAIN Subscribers = 1..3
      /\ Subscribers[1] = "check_alias" /\ Subscribers[2] = "set_target"
      /\ Subscribers[3] = "get_forward"
  BY DEF Subscribers
<1>3. /\ Len(Deferrable) = 3 /\ DOMAIN Deferrable = 1..3
      /\ Deferrable[1] = "telemetry" /\ Deferrable[2] = "connection"
      /\ Deferrable[3] = "subscriptions"
  BY DEF Deferrable
<1>4. NoRepeat(Providers) /\ NoRepeat(Subscribers) /\ NoRepeat(Deferrable)
  BY <1>1, <1>2, <1>3 DEF NoRepeat
<1>5. Providers \in Seq(Provider)
  <2>1. "tracer" \in Provider /\ "meter" \in Provider /\ "logger" \in Provider
    BY <1>1 DEF Provider, Range
  <2> QED
    BY <2>1 DEF Providers
<1>6. Subscribers \in Seq(Subject)
  <2>1. /\ "check_alias" \in Subject /\ "set_target" \in Subject
        /\ "get_forward" \in Subject
    BY <1>2 DEF Subject, Range
  <2> QED
    BY <2>1 DEF Subscribers
<1>7. Deferrable \in Seq(Range(Deferrable))
  <2>1. /\ "telemetry" \in Range(Deferrable) /\ "connection" \in Range(Deferrable)
        /\ "subscriptions" \in Range(Deferrable)
    BY <1>3 DEF Range
  <2> DEFINE S == Range(Deferrable)
  <2>2. "telemetry" \in S /\ "connection" \in S /\ "subscriptions" \in S
    BY <2>1
  <2> HIDE DEF S
  <2>3. Deferrable \in Seq(S)
    BY <2>2 DEF Deferrable
  <2> QED
    BY <2>3 DEF S
<1> QED
  BY <1>1, <1>2, <1>3, <1>4, <1>5, <1>6, <1>7

\* A list without entries is the empty one.
LEMMA NoEntries ==
  ASSUME NEW S, NEW list \in Seq(S)
  PROVE  Len(list) \in Nat /\ (Len(list) = 0 <=> list = <<>>)
  OBVIOUS

\* The beginning of a list without repetitions, and the next entry.
LEMMA Longer ==
  ASSUME NEW S, NEW whole \in Seq(S), NoRepeat(whole),
         NEW list, Begins(list, whole), Len(list) < Len(whole)
  PROVE  LET x == whole[Len(list) + 1]
         IN /\ x \in S /\ x \notin Range(list)
            /\ Append(list, x) \in Seq(S) /\ NoRepeat(Append(list, x))
            /\ Begins(Append(list, x), whole)
            /\ Range(Append(list, x)) = Range(list) \cup {x}
            /\ Len(Append(list, x)) = Len(list) + 1
<1> DEFINE n == Len(list)
           T == Range(whole)
           x == whole[n + 1]
           longer == Append(list, x)
<1>1. /\ list \in Seq(T) /\ n \in Nat /\ n < Len(whole) /\ Len(whole) \in Nat
      /\ DOMAIN list = 1..n /\ DOMAIN whole = 1..Len(whole)
      /\ \A i \in 1..n : list[i] = whole[i]
  BY DEF Begins
<1>2. x \in T /\ x \in S
  <2>1. n + 1 \in DOMAIN whole
    BY <1>1
  <2> QED
    BY <2>1 DEF Range
<1>3. T \subseteq S
  BY DEF Range
<1> HIDE DEF n, T, x
<1>4. /\ longer \in Seq(T) /\ Len(longer) = n + 1 /\ DOMAIN longer = 1..(n + 1)
      /\ \A i \in 1..n : longer[i] = list[i]
      /\ longer[n + 1] = x
  BY <1>1, <1>2 DEF n
<1> HIDE DEF longer
<1>5. \A i \in 1..(n + 1) : longer[i] = whole[i] /\ longer[i] \in T
  <2> SUFFICES ASSUME NEW i \in 1..(n + 1) PROVE longer[i] = whole[i] /\ longer[i] \in T
    OBVIOUS
  <2>1. CASE i \in 1..n
    <3>1. i \in DOMAIN whole
      BY <1>1, <2>1
    <3> QED
      BY <1>1, <1>4, <2>1, <3>1 DEF T, Range
  <2>2. CASE i = n + 1
    BY <1>2, <1>4, <2>2 DEF x
  <2> QED
    BY <1>1, <2>1, <2>2
<1>6. longer \in Seq(S)
  BY <1>3, <1>4, <1>5
<1>7. NoRepeat(longer)
  <2> SUFFICES ASSUME NEW i \in 1..(n + 1), NEW j \in 1..(n + 1), longer[i] = longer[j]
               PROVE  i = j
    BY <1>4 DEF NoRepeat
  <2>1. i \in DOMAIN whole /\ j \in DOMAIN whole
    BY <1>1
  <2> QED
    BY <1>5, <2>1 DEF NoRepeat
<1>8. Begins(longer, whole)
  BY <1>1, <1>4, <1>5 DEF Begins, T
<1>9. x \notin Range(list)
  <2> SUFFICES ASSUME NEW i \in 1..n, list[i] = x PROVE FALSE
    BY <1>1 DEF Range
  <2>1. i \in DOMAIN whole /\ n + 1 \in DOMAIN whole /\ i # n + 1
    BY <1>1
  <2> QED
    BY <1>1, <2>1 DEF NoRepeat, x
<1>10. Range(longer) = Range(list) \cup {x}
  <2>1. \A y \in Range(longer) : y \in Range(list) \cup {x}
    <3> SUFFICES ASSUME NEW i \in 1..(n + 1) PROVE longer[i] \in Range(list) \cup {x}
      BY <1>4 DEF Range
    <3>1. CASE i \in 1..n
      BY <1>1, <1>4, <3>1 DEF Range
    <3>2. CASE i = n + 1
      BY <1>4, <3>2
    <3> QED
      BY <1>1, <3>1, <3>2
  <2>2. n + 1 \in DOMAIN longer
    BY <1>1, <1>4
  <2>3. x \in Range(longer)
    BY <1>4, <2>2 DEF Range
  <2>4. \A y \in Range(list) : y \in Range(longer)
    <3> SUFFICES ASSUME NEW i \in 1..n PROVE list[i] \in Range(longer)
      BY <1>1 DEF Range
    <3>1. i \in DOMAIN longer
      BY <1>1, <1>4
    <3> QED
      BY <1>4, <3>1 DEF Range
  <2> QED
    BY <2>1, <2>3, <2>4
<1> QED
  BY <1>2, <1>4, <1>6, <1>7, <1>8, <1>9, <1>10 DEF n, x, longer

\* A beginning as long as the whole list has all its entries.
LEMMA Complete ==
  ASSUME NEW S, NEW whole \in Seq(S), NEW list, Begins(list, whole), Len(list) = Len(whole)
  PROVE  Range(list) = Range(whole)
<1>1. /\ list \in Seq(Range(whole)) /\ DOMAIN list = 1..Len(whole)
      /\ DOMAIN whole = 1..Len(whole) /\ \A i \in 1..Len(whole) : list[i] = whole[i]
  BY DEF Begins
<1> QED
  BY <1>1 DEF Range

\* Taking the last entry off a beginning.
LEMMA Shorter ==
  ASSUME NEW S, NEW whole \in Seq(S), NEW list, Begins(list, whole), list # <<>>
  PROVE  /\ Last(list) = whole[Len(list)]
         /\ Begins(Front(list), whole)
         /\ Len(Front(list)) = Len(list) - 1 /\ Len(list) > 0
<1> DEFINE T == Range(whole)
           front == SubSeq(list, 1, Len(list) - 1)
<1>1. /\ list \in Seq(T) /\ Len(list) \in Nat /\ Len(list) <= Len(whole) /\ Len(whole) \in Nat
      /\ \A i \in 1..Len(list) : list[i] = whole[i]
  BY DEF Begins
<1> HIDE DEF T
<1>2. /\ Len(list) > 0 /\ front \in Seq(T) /\ Len(front) = Len(list) - 1
      /\ \A i \in 1..(Len(list) - 1) : front[i] = list[i]
  <2>1. Len(list) > 0
    <3>1. Len(list) \in Nat /\ (Len(list) = 0 <=> list = <<>>)
      BY <1>1, NoEntries, Zenon
    <3> QED
      BY <3>1
  <2>2. Len(list) - 1 \in Nat /\ 1..(Len(list) - 1) \subseteq DOMAIN list
    BY <1>1, <2>1
  <2>3. front \in Seq(T) /\ Len(front) = Len(list) - 1
    <3> DEFINE n == Len(list) - 1
    <3>1. n \in Nat /\ \A i \in 1..n : list[i] \in T
      BY <1>1, <2>2
    <3> HIDE DEF n
    <3>2. SubSeq(list, 1, n) \in Seq(T) /\ Len(SubSeq(list, 1, n)) = n
      BY <3>1, SubSeqProperties
    <3> QED
      BY <3>2 DEF n
  <2>4. \A i \in 1..(Len(list) - 1) : front[i] = list[i]
    BY <1>1, <2>2
  <2> QED
    BY <2>1, <2>3, <2>4
<1>3. Front(list) = front /\ Last(list) = list[Len(list)]
  BY DEF Front, Last
<1> HIDE DEF front
<1>4. Begins(front, whole)
  BY <1>1, <1>2 DEF Begins, T
<1>5. list[Len(list)] = whole[Len(list)]
  BY <1>1, <1>2
<1> QED
  BY <1>2, <1>3, <1>4, <1>5

\* Taking the head off a list without repetitions leaves the others.
LEMMA TailFacts ==
  ASSUME NEW S, NEW list \in Seq(S), list # <<>>, NoRepeat(list)
  PROVE  /\ Tail(list) \in Seq(S) /\ NoRepeat(Tail(list))
         /\ Head(list) \in S
         /\ Range(Tail(list)) = Range(list) \ {Head(list)}
<1>1. /\ Tail(list) \in Seq(S) /\ Head(list) \in S /\ Head(list) = list[1]
      /\ DOMAIN list = 1..Len(list) /\ Len(list) \in Nat /\ Len(list) > 0
      /\ DOMAIN Tail(list) = 1..(Len(list) - 1)
      /\ \A i \in 1..(Len(list) - 1) : Tail(list)[i] = list[i + 1]
  OBVIOUS
<1>2. NoRepeat(Tail(list))
  <2> SUFFICES ASSUME NEW i \in 1..(Len(list) - 1), NEW j \in 1..(Len(list) - 1),
                      Tail(list)[i] = Tail(list)[j]
               PROVE  i = j
    BY <1>1 DEF NoRepeat
  <2>1. list[i + 1] = list[j + 1] /\ i + 1 \in DOMAIN list /\ j + 1 \in DOMAIN list
    BY <1>1
  <2>2. i + 1 = j + 1
    BY <2>1 DEF NoRepeat
  <2> QED
    BY <2>2
<1>3. Range(Tail(list)) \subseteq Range(list) \ {Head(list)}
  <2> SUFFICES ASSUME NEW i \in 1..(Len(list) - 1)
               PROVE  Tail(list)[i] \in Range(list) \ {Head(list)}
    BY <1>1 DEF Range
  <2>1. Tail(list)[i] = list[i + 1] /\ i + 1 \in DOMAIN list /\ 1 \in DOMAIN list
        /\ i + 1 # 1
    BY <1>1
  <2>2. list[i + 1] # list[1]
    BY <2>1 DEF NoRepeat
  <2> QED
    BY <1>1, <2>1, <2>2 DEF Range
<1>4. Range(list) \ {Head(list)} \subseteq Range(Tail(list))
  <2> SUFFICES ASSUME NEW i \in DOMAIN list, list[i] # list[1]
               PROVE  list[i] \in Range(Tail(list))
    BY <1>1 DEF Range
  <2>1. i - 1 \in 1..(Len(list) - 1)
    BY <1>1
  <2>2. Tail(list)[i - 1] = list[i]
    BY <1>1, <2>1
  <2> QED
    BY <1>1, <2>1, <2>2 DEF Range
<1> QED
  BY <1>1, <1>2, <1>3, <1>4

\* The next call that run defers, and the next one it makes.
LEMMA Deferring ==
  ASSUME Control
  PROVE  /\ Depth \in 0..3
         /\ Depth = 0 <=> deferred = <<>>
         /\ Depth = 0 /\ deferred' = Append(deferred, "telemetry")
              => Begins(deferred', Deferrable) /\ Depth' = 1
         /\ Depth = 1 /\ deferred' = Append(deferred, "connection")
              => Begins(deferred', Deferrable) /\ Depth' = 2
         /\ Depth = 2 /\ deferred' = Append(deferred, "subscriptions")
              => Begins(deferred', Deferrable) /\ Depth' = 3
         /\ deferred # <<>> => Last(deferred) = Deferrable[Depth] /\ Depth \in 1..3
         /\ deferred # <<>> /\ deferred' = Front(deferred)
              => Begins(deferred', Deferrable) /\ Depth' = Depth - 1
<1>1. Begins(deferred, Deferrable)
  BY DEF Control
<1>2. Depth \in Nat /\ (Depth = 0 <=> deferred = <<>>)
  BY <1>1, NoEntries, Zenon DEF Depth, Begins
<1>3. Len(deferred) <= Len(Deferrable) /\ Len(Deferrable) = 3
  BY <1>1, Lists DEF Begins
<1>4. Depth <= 3
  BY <1>3, Zenon DEF Depth
<1>5. Depth \in 0..3
  BY <1>2, <1>4
<1>6. ASSUME NEW x, Depth < 3, deferred' = Append(deferred, x), x = Deferrable[Depth + 1]
      PROVE  Begins(deferred', Deferrable) /\ Depth' = Depth + 1
  <2>1. Len(deferred) < Len(Deferrable)
    BY <1>3, <1>6, Zenon DEF Depth
  <2>2. Begins(Append(deferred, x), Deferrable) /\ Len(Append(deferred, x)) = Len(deferred) + 1
    BY <1>1, <1>6, <2>1, Lists, Longer, Zenon DEF Depth
  <2> QED
    BY <1>6, <2>2, Zenon DEF Depth
<1>10. ASSUME Depth = 0, deferred' = Append(deferred, "telemetry")
      PROVE  Begins(deferred', Deferrable) /\ Depth' = 1
  <2>1. Depth < 3 /\ "telemetry" = Deferrable[Depth + 1] /\ Depth + 1 = 1
    BY <1>10, Lists
  <2>2. Begins(deferred', Deferrable) /\ Depth' = Depth + 1
    BY <1>6, <1>10, <2>1, Zenon
  <2> QED
    BY <2>1, <2>2
<1>11. ASSUME Depth = 1, deferred' = Append(deferred, "connection")
      PROVE  Begins(deferred', Deferrable) /\ Depth' = 2
  <2>1. Depth < 3 /\ "connection" = Deferrable[Depth + 1] /\ Depth + 1 = 2
    BY <1>11, Lists
  <2>2. Begins(deferred', Deferrable) /\ Depth' = Depth + 1
    BY <1>6, <1>11, <2>1, Zenon
  <2> QED
    BY <2>1, <2>2
<1>12. ASSUME Depth = 2, deferred' = Append(deferred, "subscriptions")
      PROVE  Begins(deferred', Deferrable) /\ Depth' = 3
  <2>1. Depth < 3 /\ "subscriptions" = Deferrable[Depth + 1] /\ Depth + 1 = 3
    BY <1>12, Lists
  <2>2. Begins(deferred', Deferrable) /\ Depth' = Depth + 1
    BY <1>6, <1>12, <2>1, Zenon
  <2> QED
    BY <2>1, <2>2
<1>7. ASSUME deferred # <<>>
      PROVE  /\ Last(deferred) = Deferrable[Depth]
             /\ Begins(Front(deferred), Deferrable)
             /\ Len(Front(deferred)) = Depth - 1
  BY <1>1, <1>7, Lists, Shorter, Zenon DEF Depth
<1>8. Depth # 0 => Depth \in 1..3
  BY <1>5
<1>9. ASSUME deferred # <<>>, deferred' = Front(deferred)
      PROVE  Begins(deferred', Deferrable) /\ Depth' = Depth - 1
  BY <1>7, <1>9, Zenon DEF Depth
<1> QED
  BY <1>2, <1>5, <1>7, <1>8, <1>9, <1>10, <1>11, <1>12, Zenon
-----------------------------------------------------------------------------
(* The steps of run.                                                       *)

\* The next provider joins those that run.
LEMMA StartProviderStep == IInv /\ StartProvider => IInv'
<1> SUFFICES ASSUME IInv, StartProvider PROVE IInv'
  OBVIOUS
<1> USE DEF IInv
<1> DEFINE p == Providers[Len(funcs) + 1]
<1>1. Begins(funcs, Providers) /\ Len(funcs) < Len(Providers) /\ pc = "telemetry"
  BY DEF StartProvider, Proceed, Telemetry
<1>2. /\ p \in Provider /\ p \notin Range(funcs) /\ funcs' = Append(funcs, p)
      /\ funcs' \in Seq(Provider) /\ NoRepeat(funcs') /\ Begins(funcs', Providers)
      /\ Range(funcs') = Range(funcs) \cup {p}
      /\ provider' = [provider EXCEPT ![p] = "running"]
  BY <1>1, Longer, Lists DEF StartProvider
<1>3. UNCHANGED <<pc, failed, deferred, Depth, cancelled, stops, conn, linked, bound,
                  queue, stage>>
  BY DEF Depth, StartProvider, Proceed, network, traffic
<1>4. Depth = 0
  BY <1>1 DEF Control
<1> HIDE DEF p
<1>5. Telemetry'
  BY <1>1, <1>2, <1>3, <1>4 DEF Telemetry
<1> QED
  BY <1>3, <1>5 DEF Control, Stoppable, Connection, Traffic

\* The steps of run that touch only pc, failed and deferred, as moves of the
\* control; n and k are the numbers of deferred calls before and after.
Moves(n, k) ==
  \/ pc = "telemetry" /\ pc' = "shutting" /\ k = 0 /\ failed' = TRUE
  \/ pc = "telemetry" /\ pc' = "config" /\ k = 1 /\ Range(funcs) = Provider
  \/ pc = "config" /\ pc' = "connect" /\ k = 1
  \/ /\ pc \in {"config", "connect", "keys", "wire"}
     /\ pc' = "unwinding" /\ k = 1 /\ failed' = TRUE
  \/ pc = "keys" /\ pc' = "wire" /\ k = 1
  \/ pc = "wire" /\ pc' = "subscribe" /\ k = 2
  \/ pc = "subscribe" /\ pc' = "stopping" /\ k = 2
  \/ pc = "subscribe" /\ pc' = "ready" /\ k = 3
  \/ pc = "ready" /\ pc' = "unwinding" /\ k = 3
  \/ pc = "unwinding" /\ n = 3 /\ pc' = "stopping" /\ k = 2
  \/ pc = "stopping" /\ stops = <<>> /\ pc' = "unwinding" /\ k = 2
  \/ pc = "unwinding" /\ n = 1 /\ pc' = "shutting" /\ k = 0
  \/ pc = "shutting" /\ funcs = <<>> /\ pc' = "unwinding" /\ k = 0

\* Those steps.
ControlStep ==
  \/ SetupFails \/ SetupEnds \/ Configure \/ ConnectFails \/ LoadKeys \/ Wire
  \/ BindFails \/ BindEnds \/ Wake \/ UnwindSubscriptions \/ StopsEnd
  \/ UnwindTelemetry \/ ShutEnds

\* These steps make these moves.
LEMMA ControlMoves ==
  ASSUME IInv, ControlStep
  PROVE  /\ Moves(Depth, Depth')
         /\ Begins(deferred', Deferrable) /\ failed' \in {failed, TRUE}
         /\ UNCHANGED <<cancelled, funcs, provider, stops, conn, linked, bound,
                        queue, stage>>
<1> USE DEF IInv
<1>1. UNCHANGED <<cancelled, funcs, provider, stops, conn, linked, bound, queue, stage>>
  BY DEF ControlStep, SetupFails, SetupEnds, Configure, ConnectFails, LoadKeys, Wire,
         BindFails, BindEnds, Wake, UnwindSubscriptions, StopsEnd, UnwindTelemetry,
         ShutEnds, network, traffic, telemetry
<1>2. /\ Begins(deferred, Deferrable) /\ Depth \in 0..3
      /\ deferred' = deferred => Depth' = Depth
  BY Deferring DEF Control, Depth
<1>3. CASE SetupEnds
  <2>1. Range(funcs) = Provider
    BY <1>3, Lists, Complete DEF SetupEnds, Telemetry, Provider
  <2>2. Depth = 0 /\ deferred' = Append(deferred, "telemetry")
    BY <1>3, Lists DEF SetupEnds, Control
  <2>3. Begins(deferred', Deferrable) /\ Depth' = 1
    BY <2>2, Deferring
  <2> QED
    BY <1>1, <1>3, <2>1, <2>3 DEF SetupEnds, Moves
<1>4. CASE Wire
  <2>1. CASE Fail("wire", "unwinding")
    BY <1>1, <1>2, <2>1 DEF Fail, Control, Moves
  <2>2. CASE ~Fail("wire", "unwinding")
    <3>1. Depth = 1 /\ deferred' = Append(deferred, "connection")
      BY <1>4, <2>2, Lists DEF Wire, Control
    <3>2. pc = "wire" /\ pc' = "subscribe" /\ failed' = failed
      BY <1>4, <2>2 DEF Wire
    <3>3. Begins(deferred', Deferrable) /\ Depth' = 2
      BY <3>1, Deferring
    <3> QED
      BY <1>1, <3>2, <3>3 DEF Moves
  <2> QED
    BY <2>1, <2>2
<1>5. CASE BindEnds
  <2>1. Depth = 2 /\ deferred' = Append(deferred, "subscriptions")
    BY <1>5, Lists DEF BindEnds, Control
  <2>2. Begins(deferred', Deferrable) /\ Depth' = 3
    BY <2>1, Deferring
  <2> QED
    BY <1>1, <1>5, <2>1, <2>2 DEF BindEnds, Moves
<1>6. CASE UnwindSubscriptions
  <2>1. /\ pc = "unwinding" /\ pc' = "stopping" /\ failed' = failed
        /\ deferred # <<>> /\ deferred' = Front(deferred) /\ Last(deferred) = "subscriptions"
    BY <1>6 DEF UnwindSubscriptions, Unwind
  <2>2. /\ Last(deferred) = Deferrable[Depth] /\ Depth \in 1..3
        /\ Begins(deferred', Deferrable) /\ Depth' = Depth - 1
    BY <2>1, Deferring
  <2>3. Depth = 3
    BY <2>1, <2>2, Lists
  <2> QED
    BY <1>1, <2>1, <2>2, <2>3 DEF Moves
<1>7. CASE UnwindTelemetry
  <2>1. /\ pc = "unwinding" /\ pc' = "shutting" /\ failed' = failed
        /\ deferred # <<>> /\ deferred' = Front(deferred) /\ Last(deferred) = "telemetry"
    BY <1>7 DEF UnwindTelemetry, Unwind
  <2>2. /\ Last(deferred) = Deferrable[Depth] /\ Depth \in 1..3
        /\ Begins(deferred', Deferrable) /\ Depth' = Depth - 1
    BY <2>1, Deferring
  <2>3. Depth = 1
    BY <2>1, <2>2, Lists
  <2> QED
    BY <1>1, <2>1, <2>2, <2>3 DEF Moves
<1>8. CASE SetupFails
  BY <1>1, <1>2, <1>8 DEF SetupFails, Fail, Control, Moves
<1>9. CASE Configure \/ ConnectFails
  BY <1>1, <1>2, <1>9 DEF Configure, ConnectFails, Fail, Proceed, Control, Moves
<1>10. CASE LoadKeys
  BY <1>1, <1>2, <1>10 DEF LoadKeys, Fail, Proceed, Control, Moves
<1>11. CASE BindFails
  BY <1>1, <1>2, <1>11 DEF BindFails, Fail, Control, Moves
<1>12. CASE Wake \/ StopsEnd \/ ShutEnds
  BY <1>1, <1>2, <1>12 DEF Wake, StopsEnd, ShutEnds, Proceed, Control, Moves
<1> QED
  BY <1>1, <1>3, <1>4, <1>5, <1>6, <1>7, <1>8, <1>9, <1>10, <1>11, <1>12, Zenon
     DEF ControlStep

\* Moves of the control keep the invariant.
LEMMA ControlSteps == IInv /\ ControlStep => IInv'
<1> SUFFICES ASSUME IInv, ControlStep PROVE IInv'
  OBVIOUS
<1> USE DEF IInv
<1>1. /\ Moves(Depth, Depth')
      /\ Begins(deferred', Deferrable) /\ failed' \in {failed, TRUE}
      /\ UNCHANGED <<cancelled, funcs, provider, stops, conn, linked, bound, queue, stage>>
  BY ControlMoves
<1>2. Depth \in 0..3
  BY Deferring
<1>3. Control'
  BY <1>1 DEF Control, Moves, Startup, Gone
<1>4. Telemetry'
  BY <1>1, <1>2 DEF Telemetry, Moves, Control
<1>5. stops = <<>> => bound = {}
  BY DEF Stoppable, Range
<1>6. Stoppable'
  <2>1. stops' \in Seq(Subject) /\ NoRepeat(stops') /\ bound' \subseteq Range(stops')
    BY <1>1 DEF Stoppable
  <2>2. pc' \in Startup \ {"subscribe"} => stops' = <<>>
    BY <1>1 DEF Stoppable, Moves, Startup
  <2>3. pc' = "subscribe" => Begins(stops', Subscribers)
    <3>1. Begins(<<>>, Subscribers)
      BY Lists DEF Begins
    <3>2. pc' = "subscribe" => pc = "wire"
      BY <1>1 DEF Moves
    <3> QED
      BY <1>1, <3>1, <3>2 DEF Stoppable, Startup
  <2>4. bound' # {} => \/ pc' \in {"subscribe", "ready", "stopping"}
                       \/ pc' = "unwinding" /\ Depth' = 3
    BY <1>1, <1>2, <1>5 DEF Stoppable, Moves
  <2> QED
    BY <2>1, <2>2, <2>3, <2>4 DEF Stoppable
<1>7. Connection'
  <2>1. pc' \in {"telemetry", "config", "connect"} => conn' = "none"
    BY <1>1 DEF Connection, Moves
  <2>2. pc' \in {"keys", "wire"} \/ Depth' > 1 => conn' = "open"
    BY <1>1, <1>2 DEF Connection, Moves, Control
  <2>3. ASSUME conn' = "open", Depth' < 2
        PROVE  /\ bound' = {} /\ \A m \in Message : stage'[m] = "new"
               /\ pc' \in {"unwinding", "shutting", "returned"} => failed' = TRUE
    <3>1. Depth < 2
      BY <1>1, <1>2, <2>3 DEF Moves, Control
    <3>2. /\ bound = {} /\ \A m \in Message : stage[m] = "new"
          /\ pc \in {"unwinding", "shutting", "returned"} => failed = TRUE
      BY <1>1, <2>3, <3>1 DEF Connection
    <3>3. pc \in {"telemetry", "config", "connect"} => conn' = "none"
      BY <1>1 DEF Connection
    <3>4. pc' \in {"unwinding", "shutting", "returned"} => failed' = TRUE
      <4>1. CASE pc \in {"unwinding", "shutting", "returned"}
        <5>1. failed = TRUE
          BY <3>2, <4>1
        <5> QED
          BY <1>1, <5>1
      <4>2. CASE pc \in {"ready", "stopping"}
        BY <1>1, <2>3, <4>2 DEF Moves
      <4>3. CASE pc \notin {"unwinding", "shutting", "returned", "ready", "stopping"}
        BY <1>1, <2>3, <3>3, <4>3 DEF Moves
      <4> QED
        BY <4>1, <4>2, <4>3
    <3> QED
      BY <1>1, <3>2, <3>4
  <2>4. pc' \in Startup \ {"subscribe"} => \A m \in Message : stage'[m] = "new"
    <3>1. pc' \in Startup \ {"subscribe"} => pc \in Startup \ {"subscribe"}
      BY <1>1 DEF Moves, Startup
    <3> QED
      BY <1>1, <3>1 DEF Connection
  <2> QED
    BY <1>1, <2>1, <2>2, <2>3, <2>4 DEF Connection
<1>8. Traffic'
  BY <1>1 DEF Traffic
<1> QED
  BY <1>3, <1>4, <1>6, <1>7, <1>8

\* The connection opens before anything is bound.
LEMMA ConnectStep == IInv /\ Connect => IInv'
<1> SUFFICES ASSUME IInv, Connect PROVE IInv'
  OBVIOUS
<1> USE DEF IInv
<1>1. /\ pc = "connect" /\ pc' = "keys" /\ conn' = "open" /\ linked' \in BOOLEAN
      /\ UNCHANGED <<failed, deferred, Depth, cancelled, funcs, provider, stops,
                     bound, queue, stage>>
  BY DEF Depth, Connect, Proceed, telemetry, traffic
<1>2. bound = {}
  BY <1>1 DEF Stoppable
<1>3. Connection'
  BY <1>1, <1>2 DEF Connection, Startup
<1> QED
  BY <1>1, <1>3 DEF Control, Telemetry, Stoppable, Traffic, Startup

\* A subject is bound together with its stop function.
LEMMA BindStep == IInv /\ Bind => IInv'
<1> SUFFICES ASSUME IInv, Bind PROVE IInv'
  OBVIOUS
<1> USE DEF IInv
<1> DEFINE s == Subscribers[Len(stops) + 1]
<1>1. Begins(stops, Subscribers) /\ Len(stops) < Len(Subscribers) /\ pc = "subscribe"
  BY DEF Bind, Proceed, Stoppable
<1>2. /\ stops' \in Seq(Subject) /\ NoRepeat(stops') /\ Begins(stops', Subscribers)
      /\ Range(stops') = Range(stops) \cup {s} /\ bound' = bound \cup {s}
  BY <1>1, Longer, Lists DEF Bind
<1>3. UNCHANGED <<pc, failed, deferred, Depth, cancelled, funcs, provider, conn,
                  linked, queue, stage>>
  BY DEF Depth, Bind, Proceed, network, traffic, telemetry
<1> HIDE DEF s
<1>4. Stoppable'
  BY <1>1, <1>2, <1>3 DEF Stoppable, Startup
<1>5. Connection'
  BY <1>1, <1>3 DEF Connection, Control, Startup
<1> QED
  BY <1>3, <1>4, <1>5 DEF Control, Telemetry, Traffic

\* A subject is no longer bound when its stop function is gone.
LEMMA StopNextStep == IInv /\ StopNext => IInv'
<1> SUFFICES ASSUME IInv, StopNext PROVE IInv'
  OBVIOUS
<1> USE DEF IInv
<1>1. /\ stops' \in Seq(Subject) /\ NoRepeat(stops')
      /\ Range(stops') = Range(stops) \ {Head(stops)} /\ bound' = bound \ {Head(stops)}
      /\ pc = "stopping"
  BY TailFacts DEF StopNext, Stoppable
<1>2. UNCHANGED <<pc, failed, deferred, Depth, cancelled, funcs, provider, conn,
                  linked, queue, stage>>
  BY DEF Depth, StopNext, main, network, traffic, telemetry
<1>3. Stoppable'
  BY <1>1, <1>2 DEF Stoppable, Startup
<1>4. Connection'
  BY <1>1, <1>2 DEF Connection, Startup
<1> QED
  BY <1>2, <1>3, <1>4 DEF Control, Telemetry, Traffic

\* A provider is shut down once, when it leaves the list.
LEMMA ShutNextStep == IInv /\ ShutNext => IInv'
<1> SUFFICES ASSUME IInv, ShutNext PROVE IInv'
  OBVIOUS
<1> USE DEF IInv
<1>1. /\ funcs' \in Seq(Provider) /\ NoRepeat(funcs') /\ Head(funcs) \in Provider
      /\ Range(funcs') = Range(funcs) \ {Head(funcs)}
      /\ pc = "shutting" /\ Depth = 0
  BY TailFacts DEF ShutNext, Telemetry, Control
<1>2. Head(funcs) \in Range(funcs)
  <2>1. Head(funcs) = funcs[1] /\ 1 \in DOMAIN funcs
    <3>1. funcs \in Seq(Provider) /\ funcs # <<>>
      BY DEF ShutNext, Telemetry
    <3> QED
      BY <3>1
  <2> QED
    BY <2>1 DEF Range
<1>3. provider' = [provider EXCEPT ![Head(funcs)] = "shut"]
  BY <1>1, <1>2 DEF ShutNext, Telemetry
<1>4. UNCHANGED <<pc, failed, deferred, Depth, cancelled, stops, conn, linked, bound,
                  queue, stage>>
  BY DEF Depth, ShutNext, main, network, traffic
<1>5. Telemetry'
  BY <1>1, <1>3, <1>4 DEF Telemetry
<1> QED
  BY <1>4, <1>5 DEF Control, Stoppable, Connection, Traffic

\* What was not new stays so.
LEMMA SettleFacts ==
  ASSUME Traffic, NEW fate \in {"replied", "silent"}, Settle(fate), UNCHANGED queue
  PROVE  /\ Traffic'
         /\ (\A m \in Message : stage[m] = "new") => \A m \in Message : stage'[m] = "new"
         /\ \A m \in Message : (stage[m] \in Handled) <=> (stage'[m] \in Handled)
         /\ \A m \in Message : stage[m] \notin Handled => stage'[m] = stage[m]
<1>1. /\ stage' \in [Message -> {"new", "queued", "served", "lost"} \cup Handled]
      /\ \A m \in Message : stage'[m] = IF stage[m] = "buffered" THEN fate ELSE stage[m]
  BY DEF Settle, Traffic, Handled
<1>2. Traffic'
  BY <1>1 DEF Traffic
<1> QED
  BY <1>1, <1>2 DEF Handled

\* The connection is left when nothing is bound any more.
LEMMA UnwindConnectionStep == IInv /\ UnwindConnection => IInv'
<1> SUFFICES ASSUME IInv, UnwindConnection PROVE IInv'
  OBVIOUS
<1> USE DEF IInv
<1>1. /\ pc = "unwinding" /\ pc' = "unwinding" /\ deferred' = Front(deferred)
      /\ Depth = 2 /\ Depth' = 1 /\ Begins(deferred', Deferrable)
      /\ UNCHANGED <<failed, cancelled, funcs, provider, stops, linked, bound, queue>>
      /\ conn' \in {"draining", "closed"}
  <2>1. /\ pc = "unwinding" /\ pc' = "unwinding" /\ deferred # <<>>
        /\ deferred' = Front(deferred) /\ Last(deferred) = "connection"
        /\ UNCHANGED <<failed, cancelled, funcs, provider, stops, linked, bound, queue>>
        /\ conn' \in {"draining", "closed"}
    BY DEF UnwindConnection, Unwind, telemetry
  <2>2. /\ Last(deferred) = Deferrable[Depth] /\ Depth \in 1..3
        /\ Begins(deferred', Deferrable) /\ Depth' = Depth - 1
    BY <2>1, Deferring
  <2>3. Depth = 2
    BY <2>1, <2>2, Lists
  <2> QED
    BY <2>1, <2>2, <2>3
<1>2. UNCHANGED stage \/ Settle("silent")
  BY DEF UnwindConnection
<1>3. Traffic'
  BY <1>1, <1>2, SettleFacts DEF Traffic
<1>4. bound = {}
  BY <1>1 DEF Stoppable
<1>5. Connection'
  BY <1>1 DEF Connection, Startup
<1> QED
  BY <1>1, <1>3, <1>4, <1>5 DEF Control, Telemetry, Stoppable, Startup, Gone

\* The end of the process.
LEMMA LoseFacts ==
  ASSUME Traffic, LoseMessages
  PROVE  /\ Traffic'
         /\ (\A m \in Message : stage[m] = "new") => \A m \in Message : stage'[m] = "new"
<1>1. /\ queue' = [s \in Subject |-> <<>>]
      /\ stage' \in [Message -> {"new", "queued", "served", "lost"} \cup Handled]
  BY DEF LoseMessages, Traffic, Handled
<1>2. Traffic'
  BY <1>1 DEF Traffic
<1>3. ASSUME \A m \in Message : stage[m] = "new", NEW m \in Message
      PROVE  stage'[m] = "new"
  <2>1. \A s \in Subject : m \notin Range(queue[s])
    BY <1>3 DEF Traffic, Range
  <2> QED
    BY <1>3, <2>1 DEF LoseMessages
<1> QED
  BY <1>2, <1>3

\* run returns when it has nothing left to do.
LEMMA ReturnStep == IInv /\ Return => IInv'
<1> SUFFICES ASSUME IInv, Return PROVE IInv'
  OBVIOUS
<1> USE DEF IInv
<1>1. /\ pc = "unwinding" /\ pc' = "returned" /\ Depth = 0
      /\ UNCHANGED <<failed, deferred, Depth, cancelled, funcs, provider, stops,
                     conn, linked, bound>>
  BY Deferring DEF Depth, Return, telemetry, network
<1>2. /\ Traffic'
      /\ (\A m \in Message : stage[m] = "new") => \A m \in Message : stage'[m] = "new"
  BY LoseFacts DEF Return
<1> QED
  BY <1>1, <1>2 DEF Control, Telemetry, Stoppable, Connection, Startup, Gone

\* A process may be killed at any time.
LEMMA KillStep == IInv /\ Kill => IInv'
<1> SUFFICES ASSUME IInv, Kill PROVE IInv'
  OBVIOUS
<1> USE DEF IInv
<1>1. /\ pc' = "killed" /\ bound' = {}
      /\ UNCHANGED <<failed, deferred, Depth, cancelled, funcs, provider, stops,
                     conn, linked>>
  BY DEF Depth, Kill, telemetry, network
<1>2. /\ Traffic'
      /\ (\A m \in Message : stage[m] = "new") => \A m \in Message : stage'[m] = "new"
  BY LoseFacts DEF Kill
<1> QED
  BY <1>1, <1>2 DEF Control, Telemetry, Stoppable, Connection, Startup, Gone
-----------------------------------------------------------------------------
(* The other steps.                                                        *)

\* A message is taken from a subject that is bound.
LEMMA TakeStep ==
  ASSUME IInv, NEW m \in Message, NEW s \in Subject, Take(m, s)
  PROVE  IInv'
<1> USE DEF IInv
<1>1. /\ UNCHANGED <<pc, failed, deferred, Depth, cancelled, funcs, provider, stops,
                     conn, linked, bound>>
      /\ bound # {}
  BY DEF Depth, Take, main, telemetry, network
<1>2. Traffic'
  <2>1. /\ queue' \in [Subject -> Seq(Message)]
        /\ stage' \in [Message -> {"new", "queued", "served", "lost"} \cup Handled]
    BY DEF Take, Traffic
  <2>2. ASSUME NEW t \in Subject, NEW i \in DOMAIN queue'[t]
        PROVE  stage'[queue'[t][i]] # "new"
    <3>1. queue'[t] = IF t = s THEN Append(queue[s], m) ELSE queue[t]
      BY DEF Take, Traffic
    <3>2. queue'[t][i] = m \/ (i \in DOMAIN queue[t] /\ queue'[t][i] = queue[t][i])
      BY <2>2, <3>1 DEF Traffic
    <3>3. queue'[t][i] \in Message
      BY <2>1, <2>2
    <3> QED
      BY <3>2, <3>3 DEF Take, Traffic
  <2> QED
    BY <2>1, <2>2 DEF Traffic
<1>3. Connection'
  <2>1. ~(conn = "open" /\ Depth < 2) /\ pc \notin Startup \ {"subscribe"}
    BY <1>1 DEF Connection, Stoppable, Startup
  <2> QED
    BY <1>1, <2>1 DEF Connection
<1> QED
  BY <1>1, <1>2, <1>3 DEF Control, Telemetry, Stoppable

\* A handler leaves everything but its message alone.
LEMMA HandlerSteps ==
  ASSUME IInv, NEW m \in Message, NEW s \in Subject, Serve(m, s) \/ Finish(m, s)
  PROVE  IInv'
<1> USE DEF IInv
<1>1. UNCHANGED <<pc, failed, deferred, Depth, cancelled, funcs, provider, stops,
                  conn, linked, bound>>
  BY DEF Depth, Serve, Finish, main, telemetry, network
<1>2. /\ stage[m] # "new" /\ stage'[m] # "new"
      /\ \A n \in Message \ {m} : stage'[n] = stage[n]
      /\ stage' \in [Message -> {"new", "queued", "served", "lost"} \cup Handled]
  BY DEF Serve, Finish, Traffic, Handled
<1>3. Traffic'
  <2>1. CASE Serve(m, s)
    BY <1>2, <2>1 DEF Serve, Traffic
  <2>2. CASE Finish(m, s)
    <3>1. /\ queue' = [queue EXCEPT ![s] = Tail(queue[s])] /\ queue[s] # <<>>
          /\ queue[s] \in Seq(Message)
      BY <2>2 DEF Finish, IsFirst, Traffic
    <3>2. /\ Tail(queue[s]) \in Seq(Message)
          /\ \A i \in DOMAIN Tail(queue[s]) :
               i + 1 \in DOMAIN queue[s] /\ Tail(queue[s])[i] = queue[s][i + 1]
      BY <3>1
    <3>3. queue' \in [Subject -> Seq(Message)]
      BY <3>1, <3>2 DEF Traffic
    <3>4. ASSUME NEW t \in Subject, NEW i \in DOMAIN queue'[t]
          PROVE  stage'[queue'[t][i]] # "new"
      <4>1. \E j \in DOMAIN queue[t] : queue'[t][i] = queue[t][j]
        BY <3>1, <3>2, <3>4 DEF Traffic
      <4>2. queue'[t][i] \in Message
        BY <3>3, <3>4
      <4> QED
        BY <1>2, <4>1, <4>2 DEF Traffic
    <3> QED
      BY <1>2, <3>3, <3>4 DEF Traffic
  <2> QED
    BY <2>1, <2>2
<1>4. Connection'
  BY <1>1, <1>2 DEF Connection
<1> QED
  BY <1>1, <1>3, <1>4 DEF Control, Telemetry, Stoppable

\* The drain runs only when Shutdown has been called.
LEMMA DrainSteps == IInv /\ DrainStep => IInv'
<1> SUFFICES ASSUME IInv, DrainStep PROVE IInv'
  OBVIOUS
<1> USE DEF IInv
<1>1. /\ UNCHANGED <<pc, failed, deferred, Depth, cancelled, funcs, provider, stops,
                     linked, bound, queue>>
      /\ conn \in {"draining", "flushing"} /\ conn' \in {"flushing", "closed"}
      /\ UNCHANGED stage \/ Settle("replied") \/ Settle("silent")
  BY DEF Depth, DrainStep, DrainSubs, DrainEnds, main, telemetry, traffic
<1>2. Traffic'
  BY <1>1, SettleFacts DEF Traffic
<1>3. Connection'
  BY <1>1, SettleFacts DEF Connection
<1> QED
  BY <1>1, <1>2, <1>3 DEF Control, Telemetry, Stoppable

\* The signal, the server and the flusher.
LEMMA EnvironmentSteps ==
  ASSUME IInv, Signal \/ Disconnect \/ Reconnect \/ Flush
  PROVE  IInv'
<1> USE DEF IInv
<1>1. CASE Signal \/ Disconnect \/ Reconnect
  <2>1. /\ UNCHANGED <<pc, failed, deferred, Depth, funcs, provider, stops, conn,
                       bound, queue, stage>>
        /\ cancelled' \in BOOLEAN /\ linked' \in BOOLEAN
    BY <1>1 DEF Depth, Signal, Disconnect, Reconnect, main, telemetry, network, traffic,
       Control, Connection
  <2>2. Control' /\ Telemetry'
    BY <2>1 DEF Control, Telemetry
  <2>3. Stoppable' /\ Traffic'
    BY <2>1 DEF Stoppable, Traffic
  <2>4. Connection'
    BY <2>1 DEF Connection
  <2> QED
    BY <2>2, <2>3, <2>4
<1>2. CASE Flush
  <2>1. /\ UNCHANGED <<pc, failed, deferred, Depth, cancelled, funcs, provider,
                       stops, conn, linked, bound, queue>>
        /\ Settle("replied")
    BY <1>2 DEF Depth, Flush, main, telemetry, network
  <2>2. Traffic'
    BY <2>1, SettleFacts
  <2>3. Connection'
    BY <2>1, SettleFacts DEF Connection
  <2> QED
    BY <2>1, <2>2, <2>3 DEF Control, Telemetry, Stoppable
<1> QED
  BY <1>1, <1>2

\* Nothing is deferred, started, bound or connected.
LEMMA Initially == Init => IInv
<1> SUFFICES ASSUME Init PROVE IInv
  OBVIOUS
<1>1. /\ <<>> \in Seq(Range(Deferrable)) /\ <<>> \in Seq(Range(Providers))
      /\ <<>> \in Seq(Provider) /\ <<>> \in Seq(Subject) /\ <<>> \in Seq(Message)
      /\ Len(<<>>) = 0 /\ DOMAIN <<>> = {}
  OBVIOUS
<1>9. Depth = 0
  BY <1>1, Zenon DEF Depth, Init
<1>2. Range(<<>>) = {} /\ NoRepeat(<<>>)
  BY <1>1 DEF Range, NoRepeat
<1>3. Begins(<<>>, Deferrable) /\ Begins(<<>>, Providers)
  BY <1>1, Lists DEF Begins
<1>4. Control
  BY <1>3, <1>9 DEF Init, Control, Startup
<1>5. Telemetry
  BY <1>1, <1>2, <1>3, <1>9 DEF Init, Telemetry
<1>6. Stoppable
  BY <1>1, <1>2 DEF Init, Stoppable, Startup
<1>7. Connection
  <2>1. conn = "none" /\ linked \in BOOLEAN /\ pc = "telemetry"
    BY DEF Init
  <2>2. \A m \in Message : stage[m] = "new"
    BY DEF Init
  <2> QED
    BY <1>9, <2>1, <2>2 DEF Connection, Startup
<1>8. Traffic
  BY <1>1 DEF Init, Traffic
<1> QED
  BY <1>4, <1>5, <1>6, <1>7, <1>8 DEF IInv

\* Every step keeps the invariant.
LEMMA Inductive == IInv /\ [Next]_vars => IInv'
<1> SUFFICES ASSUME IInv, [Next]_vars PROVE IInv'
  OBVIOUS
<1>1. CASE MainStep
  BY <1>1, StartProviderStep, ControlSteps, ConnectStep, BindStep, StopNextStep,
     ShutNextStep, UnwindConnectionStep, ReturnStep DEF MainStep, ControlStep
<1>2. CASE HandlerStep
  BY <1>2, HandlerSteps DEF HandlerStep
<1>3. CASE DrainStep
  BY <1>3, DrainSteps
<1>4. CASE Environment
  BY <1>4, EnvironmentSteps, KillStep, TakeStep DEF Environment
<1>5. CASE UNCHANGED vars
  <2>1. UNCHANGED <<pc, failed, cancelled, deferred, Depth, funcs, provider, stops, conn,
                    linked, bound, queue, stage>>
    BY <1>5 DEF Depth, vars, main, telemetry, network, traffic
  <2> QED
    BY <2>1 DEF IInv, Control, Telemetry, Stoppable, Connection, Traffic
<1> QED
  BY <1>1, <1>2, <1>3, <1>4, <1>5 DEF Next
-----------------------------------------------------------------------------
(* What follows from the invariant.                                        *)

\* The invariant holds.
LEMMA Invariant == Spec => []IInv
  BY Initially, Inductive, PTL DEF Spec

\* A beginning is a list of the first entries.
LEMMA BeginsIsFirstOf ==
  ASSUME NEW S, NEW whole \in Seq(S), NEW list, Begins(list, whole)
  PROVE  list = FirstOf(whole, Len(list))
<1> DEFINE n == Len(list)
<1>1. /\ list \in Seq(Range(whole)) /\ n \in Nat /\ n <= Len(whole)
      /\ \A i \in 1..n : list[i] = whole[i]
  BY DEF Begins
<1>2. \A i \in 1..n : whole[i] \in S
  BY <1>1
<1>3. list \in Seq(S)
  BY <1>1, <1>2
<1> HIDE DEF n
<1>4. /\ SubSeq(whole, 1, n) \in Seq(S) /\ Len(SubSeq(whole, 1, n)) = n
      /\ \A i \in 1..n : SubSeq(whole, 1, n)[i] = whole[i]
  BY <1>1, <1>2, SubSeqProperties
<1>5. Len(list) = Len(SubSeq(whole, 1, n))
  BY <1>4 DEF n
<1>6. \A i \in 1..Len(list) : list[i] = SubSeq(whole, 1, n)[i]
  BY <1>1, <1>4 DEF n
<1>7. list = SubSeq(whole, 1, n)
  BY <1>3, <1>4, <1>5, <1>6, SeqEqual
<1> QED
  BY <1>7 DEF FirstOf, n

\* Every variable of a process keeps its type; in particular what is deferred is
\* always the first so many of the three calls.
THEOREM LifecycleTypeCorrect == Spec => []TypeOK
<1>1. IInv => TypeOK
  <2> SUFFICES ASSUME IInv PROVE TypeOK
    OBVIOUS
  <2> USE DEF IInv
  <2>1. \E n \in 0..3 : deferred = FirstOf(Deferrable, n)
    <3>1. Depth \in 0..3 /\ deferred = FirstOf(Deferrable, Depth)
      BY Deferring, Lists, BeginsIsFirstOf DEF Control, Depth
    <3> QED
      BY <3>1
  <2>2. bound \subseteq Subject
    BY DEF Stoppable, Range
  <2>3. /\ pc \in Startup \cup {"ready", "unwinding", "shutting", "stopping"} \cup Gone
        /\ failed \in BOOLEAN /\ cancelled \in BOOLEAN
    BY DEF Control
  <2>4. /\ funcs \in Seq(Provider)
        /\ provider \in [Provider -> {"absent", "running", "shut", "shut again"}]
    BY DEF Telemetry
  <2>5. /\ stops \in Seq(Subject) /\ linked \in BOOLEAN
        /\ conn \in {"none", "open", "draining", "flushing", "closed"}
    BY DEF Stoppable, Connection
  <2> QED
    BY <2>1, <2>2, <2>3, <2>4, <2>5 DEF TypeOK, Traffic
<1> QED
  BY <1>1, Invariant, PTL

\* Messages come only to a process that can serve them, whatever fails while it
\* starts and whenever it is stopped.
THEOREM TeardownOrderHolds == Spec => []TeardownOrder
<1>1. IInv => TeardownOrder
  <2> SUFFICES ASSUME IInv, bound # {}
               PROVE  /\ conn = "open"
                      /\ pc \in {"subscribe", "ready", "unwinding", "stopping"}
                      /\ \A p \in Provider : provider[p] = "running"
    BY DEF TeardownOrder
  <2> USE DEF IInv
  <2>1. Depth \in {2, 3} /\ pc \in {"subscribe", "ready", "unwinding", "stopping"}
    BY DEF Stoppable, Control
  <2>2. conn = "open"
    BY <2>1 DEF Connection
  <2>3. \A p \in Provider : provider[p] = "running"
    BY <2>1 DEF Telemetry
  <2> QED
    BY <2>1, <2>2, <2>3
<1> QED
  BY <1>1, Invariant, PTL

\* However far the startup came, run returns with nothing left behind.
THEOREM NothingDanglesHolds == Spec => []NothingDangles
<1>1. IInv => NothingDangles
  <2> SUFFICES ASSUME IInv, pc = "returned"
               PROVE  /\ bound = {}
                      /\ \A p \in Provider : provider[p] \in {"absent", "shut"}
                      /\ conn = "open" => failed /\ \A m \in Message : stage[m] = "new"
    BY DEF NothingDangles
  <2> USE DEF IInv
  <2>1. Depth = 0
    BY DEF Control
  <2>2. bound = {}
    BY DEF Stoppable
  <2>3. funcs = <<>>
    BY <2>1 DEF Telemetry
  <2>4. Range(funcs) = {}
    BY <2>3 DEF Range
  <2>5. \A p \in Provider : provider[p] \in {"absent", "shut"}
    BY <2>4 DEF Telemetry
  <2>6. conn = "open" => failed = TRUE /\ \A m \in Message : stage[m] = "new"
    BY <2>1 DEF Connection
  <2> QED
    BY <2>2, <2>5, <2>6
<1> QED
  BY <1>1, Invariant, PTL
-----------------------------------------------------------------------------
(* The promise of the queue group.                                         *)

\* Subscriptions seen from outside are the subjects.
LEMMA Outside ==
  /\ Group!Subscription = {"here"} \X Subject
  /\ \A s \in Subject : <<"here", s>> \in Group!Subscription
  /\ \A s \in Subject : QueueBar[<<"here", s>>] = queue[s]
  BY DEF Group!Subscription, QueueBar

\* Steps that take no message on and none away show nothing outside.
LEMMA Unseen ==
  ASSUME IInv, UNCHANGED queue, pc \notin Gone <=> pc' \notin Gone,
         UNCHANGED stage \/ Settle("replied") \/ Settle("silent")
  PROVE  UNCHANGED Group!vars
<1>1. \A m \in Message : /\ (stage[m] \in Handled) <=> (stage'[m] \in Handled)
                         /\ stage[m] \notin Handled => stage'[m] = stage[m]
  BY SettleFacts DEF IInv
<1>2. StageBar' = StageBar
  BY <1>1 DEF StageBar
<1>3. QueueBar' = QueueBar /\ UpBar' = UpBar
  BY DEF QueueBar, UpBar
<1> QED
  BY <1>2, <1>3 DEF Group!vars

\* The end of the process takes what it held with it.
LEMMA Leaves ==
  ASSUME IInv, LoseMessages, pc \notin Gone, pc' \in Gone
  PROVE  Group!Next
<1>1. "here" \in UpBar /\ UpBar' = UpBar \ {"here"}
  BY DEF UpBar
<1>2. QueueBar' = [q \in Group!Subscription |-> IF q[1] = "here" THEN <<>> ELSE QueueBar[q]]
  <2>1. \A q \in Group!Subscription : q[1] = "here" /\ q[2] \in Subject
    BY Outside
  <2>2. \A q \in Group!Subscription : queue'[q[2]] = <<>>
    BY <2>1 DEF LoseMessages
  <2> QED
    BY <2>1, <2>2, Outside DEF QueueBar
<1>3. \A m \in Message :
        Group!HeldBy(m, "here") <=> \E s \in Subject : m \in Range(queue[s])
  <2>1. \A m \in Message, s \in Subject :
          (\E i \in DOMAIN QueueBar[<<"here", s>>] :
             QueueBar[<<"here", s>>][i] = m) <=> m \in Range(queue[s])
    <3> SUFFICES ASSUME NEW m \in Message, NEW s \in Subject
                 PROVE  (\E i \in DOMAIN QueueBar[<<"here", s>>] :
                           QueueBar[<<"here", s>>][i] = m) <=> m \in Range(queue[s])
      OBVIOUS
    <3>1. QueueBar[<<"here", s>>] = queue[s]
      BY Outside
    <3> QED
      BY <3>1 DEF Range
  <2> QED
    BY <2>1, Zenon DEF Group!HeldBy
<1>4. StageBar' = [m \in Message |-> IF Group!HeldBy(m, "here") THEN "lost" ELSE StageBar[m]]
  <2>1. \A m \in Message :
          stage'[m] = IF Group!HeldBy(m, "here") THEN "lost"
                      ELSE IF stage[m] = "buffered" THEN "silent" ELSE stage[m]
    BY <1>3 DEF LoseMessages
  <2> QED
    BY <2>1 DEF StageBar, Handled
<1>5. Group!Leave("here")
  BY <1>1, <1>2, <1>4 DEF Group!Leave
<1> QED
  BY <1>5 DEF Group!Next

\* What happens to one message.
LEMMA OfMessages ==
  ASSUME IInv, NEW m \in Message, NEW s \in Subject, Take(m, s) \/ Serve(m, s) \/ Finish(m, s)
  PROVE  Group!Next
<1> DEFINE q == <<"here", s>>
<1>1. q \in Group!Subscription /\ QueueBar[q] = queue[s] /\ q[1] = "here"
  BY Outside
<1>2. /\ queue \in [Subject -> Seq(Message)]
      /\ stage \in [Message -> {"new", "queued", "served", "lost"} \cup Handled]
  BY DEF IInv, Traffic
<1>3. UpBar' = UpBar
  BY DEF UpBar, Take, Serve, Finish, main
<1>4. ASSUME NEW list, queue' = [queue EXCEPT ![s] = list]
      PROVE  QueueBar' = [QueueBar EXCEPT ![q] = list]
  <2>1. \A t \in Subject : queue'[t] = IF t = s THEN list ELSE queue[t]
    BY <1>2, <1>4
  <2>2. \A r \in {"here"} \X Subject : r = <<"here", s>> <=> r[2] = s
    OBVIOUS
  <2> QED
    BY <2>1, <2>2 DEF QueueBar
<1>5. ASSUME NEW t, stage' = [stage EXCEPT ![m] = t]
      PROVE  StageBar' = [StageBar EXCEPT ![m] = IF t \in Handled THEN "done" ELSE t]
  <2>1. \A n \in Message : stage'[n] = IF n = m THEN t ELSE stage[n]
    BY <1>2, <1>5
  <2> QED
    BY <2>1 DEF StageBar
<1>6. CASE Take(m, s)
  <2>1. pc \notin Gone
    BY <1>6 DEF Take, IInv, Stoppable, Gone
  <2>2. "here" \in UpBar /\ StageBar[m] = "new"
    BY <1>6, <2>1 DEF UpBar, StageBar, Take, Handled
  <2>3. StageBar' = [StageBar EXCEPT ![m] = "queued"]
    BY <1>5, <1>6 DEF Take, Handled
  <2>4. QueueBar' = [QueueBar EXCEPT ![q] = Append(QueueBar[q], m)]
    BY <1>1, <1>4, <1>6 DEF Take
  <2>5. Group!Take(m, q)
    BY <1>1, <1>3, <2>2, <2>3, <2>4 DEF Group!Take
  <2> QED
    BY <1>1, <2>5 DEF Group!Next
<1>7. CASE Serve(m, s)
  <2>1. StageBar[m] = "queued" /\ queue[s] # <<>> /\ m = Head(queue[s])
    BY <1>7 DEF StageBar, Serve, IsFirst, Handled
  <2>2. StageBar' = [StageBar EXCEPT ![m] = "served"]
    BY <1>5, <1>7 DEF Serve, Handled
  <2>3. QueueBar' = QueueBar
    BY <1>7 DEF Serve, QueueBar
  <2>4. Group!Serve(m, q)
    BY <1>1, <1>3, <2>1, <2>2, <2>3 DEF Group!Serve, Group!IsFirst
  <2> QED
    BY <1>1, <2>4 DEF Group!Next
<1>8. CASE Finish(m, s)
  <2>1. StageBar[m] = "served" /\ queue[s] # <<>> /\ m = Head(queue[s])
    BY <1>8 DEF StageBar, Finish, IsFirst, Handled
  <2>2. StageBar' = [StageBar EXCEPT ![m] = "done"]
    BY <1>5, <1>8 DEF Finish, Handled
  <2>3. QueueBar' = [QueueBar EXCEPT ![q] = Tail(QueueBar[q])]
    BY <1>1, <1>4, <1>8 DEF Finish
  <2>4. Group!End(m, q)
    BY <1>1, <1>3, <2>1, <2>2, <2>3 DEF Group!End, Group!IsFirst
  <2> QED
    BY <1>1, <2>4 DEF Group!Next
<1> QED
  BY <1>6, <1>7, <1>8

\* Every step is a step of the queue group, or shows nothing of itself.
LEMMA StepOfGroup ==
  ASSUME IInv, [Next]_vars
  PROVE  Group!Next \/ UNCHANGED Group!vars
<1>1. CASE ControlStep
  <2>1. UNCHANGED <<queue, stage>> /\ pc \notin Gone /\ pc' \notin Gone
    BY <1>1, ControlMoves DEF Moves, Gone
  <2> QED
    BY <2>1, Unseen
<1>2. CASE StartProvider \/ Connect \/ Bind
  <2>1. UNCHANGED <<queue, stage>> /\ pc \notin Gone /\ pc' \notin Gone
    BY <1>2 DEF StartProvider, Connect, Bind, Proceed, traffic, Gone
  <2> QED
    BY <2>1, Unseen
<1>3. CASE StopNext \/ ShutNext \/ UnwindConnection
  <2>1. /\ UNCHANGED queue /\ pc \notin Gone /\ pc' \notin Gone
        /\ UNCHANGED stage \/ Settle("silent")
    BY <1>3 DEF StopNext, ShutNext, UnwindConnection, Unwind, main, traffic, Gone
  <2> QED
    BY <2>1, Unseen
<1>4. CASE Return \/ Kill
  <2>1. LoseMessages /\ pc \notin Gone /\ pc' \in Gone
    BY <1>4 DEF Return, Kill, Gone
  <2> QED
    BY <2>1, Leaves
<1>5. CASE DrainStep \/ Signal \/ Disconnect \/ Reconnect \/ Flush \/ UNCHANGED vars
  <2>1. /\ UNCHANGED <<queue, pc>>
        /\ UNCHANGED stage \/ Settle("replied") \/ Settle("silent")
    BY <1>5 DEF DrainStep, DrainSubs, DrainEnds, Signal, Disconnect, Reconnect, Flush,
                vars, main, traffic
  <2> QED
    BY <2>1, Unseen
<1>6. CASE \E m \in Message, s \in Subject : Take(m, s) \/ Serve(m, s) \/ Finish(m, s)
  BY <1>6, OfMessages
<1> QED
  BY <1>1, <1>2, <1>3, <1>4, <1>5, <1>6
     DEF Next, MainStep, ControlStep, HandlerStep, Environment

\* Whatever happens while it starts and stops, one process keeps the promise of the
\* queue group.
THEOREM ProcessKeepsPromise == Spec => KeepsPromise
<1>1. Init => Group!Init
  <2> SUFFICES ASSUME Init PROVE Group!Init
    OBVIOUS
  <2>1. StageBar = [m \in Message |-> "new"]
    BY DEF Init, StageBar, Handled
  <2>2. QueueBar = [q \in Group!Subscription |-> <<>>]
    <3>1. \A q \in Group!Subscription : q[2] \in Subject
      BY Outside
    <3> QED
      BY <3>1, Outside DEF Init, QueueBar
  <2>3. UpBar = {"here"}
    BY DEF Init, UpBar, Gone
  <2> QED
    BY <2>1, <2>2, <2>3 DEF Group!Init
<1>2. IInv /\ [Next]_vars => [Group!Next]_Group!vars
  BY StepOfGroup
<1> QED
  BY <1>1, <1>2, Invariant, PTL DEF Spec, KeepsPromise, Group!Spec
=============================================================================
