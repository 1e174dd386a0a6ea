----------------------------- MODULE Lifecycle -----------------------------
(***************************************************************************)
(* One process of the service from start to exit.  run sets up telemetry,  *)
(* reads its configuration, connects to NATS, loads the signing keys, wires *)
(* the service, binds three subscriptions and waits for a signal; every    *)
(* step may fail, and whatever was deferred up to then runs in reverse     *)
(* order.  Beside it run the goroutines of the subscriptions, the          *)
(* connection's flusher and, after Shutdown, the drain that nobody waits   *)
(* for.                                                                    *)
(***************************************************************************)
EXTENDS Naturals, Sequences, SequencesExt

CONSTANTS Message   \* the messages that callers may publish

Providers == <<"tracer", "meter", "logger">>
Provider == Range(Providers)
Subscribers == <<"check_alias", "set_target", "get_forward">>
Subject == Range(Subscribers)
Deferrable == <<"telemetry", "connection", "subscriptions">>

\* The first n members of a list.
FirstOf(list, n) == SubSeq(list, 1, n)

VARIABLES
  pc,         \* where run is
  failed,     \* run is on its way to return an error
  cancelled,  \* the context of the process is done: a stop signal came
  deferred,   \* the deferred calls of run, the last one to be made first
  funcs,      \* shutdownFuncs: the providers still to be shut down
  provider,   \* provider[p]: absent, running, or how often it was shut down
  stops,      \* the stop functions still to be called
  conn,       \* the NATS connection
  linked,     \* it has a server at the moment
  bound,      \* the subjects subscribed to
  queue,      \* queue[s]: the messages of subject s handed to this process
  stage       \* stage[m]: what became of message m

main == <<pc, failed, deferred>>
telemetry == <<funcs, provider>>
network == <<conn, linked>>
traffic == <<queue, stage>>
vars == <<pc, failed, cancelled, deferred, funcs, provider, stops, conn, linked,
          bound, queue, stage>>

Gone == {"returned", "killed"}
Startup == {"telemetry", "config", "connect", "keys", "wire", "subscribe"}

\* A reply is handed to the connection, reaches the server, or does neither.
Handled == {"buffered", "replied", "silent"}

TypeOK ==
  /\ pc \in Startup \cup {"ready", "unwinding", "shutting", "stopping"} \cup Gone
  /\ failed \in BOOLEAN /\ cancelled \in BOOLEAN
  /\ \E n \in 0..3 : deferred = FirstOf(Deferrable, n)
  /\ funcs \in Seq(Provider)
  /\ provider \in [Provider -> {"absent", "running", "shut", "shut again"}]
  /\ stops \in Seq(Subject)
  /\ conn \in {"none", "open", "draining", "flushing", "closed"}
  /\ linked \in BOOLEAN
  /\ bound \subseteq Subject
  /\ queue \in [Subject -> Seq(Message)]
  /\ stage \in [Message -> {"new", "queued", "served", "lost"} \cup Handled]

Init ==
  /\ pc = "telemetry"
  /\ failed = FALSE /\ cancelled = FALSE
  /\ deferred = <<>>
  /\ funcs = <<>>
  /\ provider = [p \in Provider |-> "absent"]
  /\ stops = <<>>
  /\ conn = "none" /\ linked = FALSE
  /\ bound = {}
  /\ queue = [s \in Subject |-> <<>>]
  /\ stage = [m \in Message |-> "new"]
-----------------------------------------------------------------------------
(* Startup.                                                                *)

\* The startup reaches its next step, or fails at this one.
Proceed(from, to) ==
  /\ pc = from
  /\ pc' = to
  /\ UNCHANGED <<failed, deferred>>

Fail(from, to) ==
  /\ pc = from
  /\ pc' = to
  /\ failed' = TRUE
  /\ UNCHANGED deferred

\* SetupOTelSDK: the exporter of the next provider is created, and the provider
\* with it.
StartProvider ==
  /\ Len(funcs) < Len(Providers)
  /\ LET p == Providers[Len(funcs) + 1]
     IN /\ funcs' = Append(funcs, p)
        /\ provider' = [provider EXCEPT ![p] = "running"]
  /\ Proceed("telemetry", "telemetry")
  /\ UNCHANGED <<cancelled, stops, network, bound, traffic>>

\* Not the code: a failed setup returns without handleErr.
SetupFailsPlainly ==
  /\ Len(funcs) < Len(Providers)
  /\ Fail("telemetry", "unwinding")
  /\ UNCHANGED <<cancelled, telemetry, stops, network, bound, traffic>>

\* handleErr shuts down the providers there are; run has deferred nothing yet.
SetupFails ==
  /\ Len(funcs) < Len(Providers)
  /\ Fail("telemetry", "shutting")
  /\ UNCHANGED <<cancelled, telemetry, stops, network, bound, traffic>>

SetupEnds ==
  /\ pc = "telemetry" /\ Len(funcs) = Len(Providers)
  /\ pc' = "config"
  /\ deferred' = Append(deferred, "telemetry")
  /\ UNCHANGED <<failed, cancelled, telemetry, stops, network, bound, traffic>>

\* AppConfigFromEnv: a required variable may be missing.
Configure ==
  /\ Proceed("config", "connect") \/ Fail("config", "unwinding")
  /\ UNCHANGED <<cancelled, telemetry, stops, network, bound, traffic>>

\* With RetryOnFailedConnect, Connect returns a connection that may have no
\* server yet.
Connect ==
  /\ Proceed("connect", "keys")
  /\ conn' = "open"
  /\ linked' \in BOOLEAN
  /\ UNCHANGED <<cancelled, telemetry, stops, bound, traffic>>

ConnectFails ==
  /\ Fail("connect", "unwinding")
  /\ UNCHANGED <<cancelled, telemetry, stops, network, bound, traffic>>

\* Not the code: the keys are asked for until they come.
LoadKeysStubbornly ==
  /\ ~cancelled
  /\ Proceed("keys", "wire") \/ Proceed("keys", "keys")
  /\ UNCHANGED <<cancelled, telemetry, stops, network, bound, traffic>>

\* The first fetch of the JWKS is bound to the context of the process.
LoadKeys ==
  /\ \/ ~cancelled /\ Proceed("keys", "wire")
     \/ Fail("keys", "unwinding")
  /\ UNCHANGED <<cancelled, telemetry, stops, network, bound, traffic>>

\* Not the code: the deferred call of Shutdown is forgotten.
WireOnly ==
  /\ Proceed("wire", "subscribe") \/ Fail("wire", "unwinding")
  /\ UNCHANGED <<cancelled, telemetry, stops, network, bound, traffic>>

\* service.New; only after InitInfrastructure succeeds does run defer Shutdown.
Wire ==
  /\ \/ /\ pc = "wire"
        /\ pc' = "subscribe"
        /\ deferred' = Append(deferred, "connection")
        /\ UNCHANGED failed
     \/ Fail("wire", "unwinding")
  /\ UNCHANGED <<cancelled, telemetry, stops, network, bound, traffic>>

\* StartSubscriptions: one subscriber after the other.
Bind ==
  /\ Len(stops) < Len(Subscribers)
  /\ LET s == Subscribers[Len(stops) + 1]
     IN bound' = bound \cup {s} /\ stops' = Append(stops, s)
  /\ Proceed("subscribe", "subscribe")
  /\ UNCHANGED <<cancelled, telemetry, network, traffic>>

\* Not the code: what is bound already stays bound.
BindFailsPlainly ==
  /\ Len(stops) < Len(Subscribers)
  /\ Fail("subscribe", "unwinding")
  /\ UNCHANGED <<cancelled, telemetry, stops, network, bound, traffic>>

\* stopAll unwinds the subscriptions there are.
BindFails ==
  /\ Len(stops) < Len(Subscribers)
  /\ Fail("subscribe", "stopping")
  /\ UNCHANGED <<cancelled, telemetry, stops, network, bound, traffic>>

\* Not the code: run does not defer the stop functions.
BindEndsPlainly ==
  /\ Len(stops) = Len(Subscribers)
  /\ Proceed("subscribe", "ready")
  /\ UNCHANGED <<cancelled, telemetry, stops, network, bound, traffic>>

BindEnds ==
  /\ pc = "subscribe" /\ Len(stops) = Len(Subscribers)
  /\ pc' = "ready"
  /\ deferred' = Append(deferred, "subscriptions")
  /\ UNCHANGED <<failed, cancelled, telemetry, stops, network, bound, traffic>>
-----------------------------------------------------------------------------
(* Shutdown.                                                               *)

Wake ==
  /\ cancelled
  /\ Proceed("ready", "unwinding")
  /\ UNCHANGED <<cancelled, telemetry, stops, network, bound, traffic>>

\* run makes its next deferred call.
Unwind(call, to) ==
  /\ pc = "unwinding" /\ deferred # <<>> /\ Last(deferred) = call
  /\ pc' = to
  /\ deferred' = Front(deferred)
  /\ UNCHANGED failed

UnwindSubscriptions ==
  /\ Unwind("subscriptions", "stopping")
  /\ UNCHANGED <<cancelled, telemetry, stops, network, bound, traffic>>

\* Not the code: the loop does not move on.
StopFirstForever ==
  /\ stops # <<>> /\ pc = "stopping"
  /\ bound' = bound \ {Head(stops)}
  /\ UNCHANGED <<main, cancelled, telemetry, stops, network, traffic>>

\* Unsubscribe: what is pending is never taken up, what is being handled goes on.
StopNext ==
  /\ stops # <<>> /\ pc = "stopping"
  /\ bound' = bound \ {Head(stops)}
  /\ stops' = Tail(stops)
  /\ UNCHANGED <<main, cancelled, telemetry, network, traffic>>

StopsEnd ==
  /\ stops = <<>> /\ Proceed("stopping", "unwinding")
  /\ UNCHANGED <<cancelled, telemetry, stops, network, bound, traffic>>

\* What the connection still holds is sent, or not.
Settle(fate) ==
  stage' = [m \in Message |-> IF stage[m] = "buffered" THEN fate ELSE stage[m]]

\* Shutdown: Drain only starts a drain; without a server it closes at once.
UnwindConnection ==
  /\ Unwind("connection", "unwinding")
  /\ \/ linked /\ conn' = "draining" /\ UNCHANGED stage
     \/ ~linked /\ conn' = "closed" /\ Settle("silent")
  /\ UNCHANGED <<cancelled, telemetry, stops, linked, bound, queue>>

UnwindTelemetry ==
  /\ Unwind("telemetry", "shutting")
  /\ UNCHANGED <<cancelled, telemetry, stops, network, bound, traffic>>

\* shutdown goes through all functions, whether they fail or not.
ShutNext ==
  /\ pc = "shutting" /\ funcs # <<>>
  /\ provider' = [provider EXCEPT ![Head(funcs)] =
                    IF @ = "running" THEN "shut" ELSE "shut again"]
  /\ funcs' = Tail(funcs)
  /\ UNCHANGED <<main, cancelled, stops, network, bound, traffic>>

ShutEnds ==
  /\ funcs = <<>> /\ Proceed("shutting", "unwinding")
  /\ UNCHANGED <<cancelled, telemetry, stops, network, bound, traffic>>

\* The process ends: messages it held are lost, replies not yet sent too.
LoseMessages ==
  /\ queue' = [s \in Subject |-> <<>>]
  /\ stage' = [m \in Message |->
                 IF \E s \in Subject : m \in Range(queue[s]) THEN "lost"
                 ELSE IF stage[m] = "buffered" THEN "silent" ELSE stage[m]]

Return ==
  /\ pc = "unwinding" /\ deferred = <<>>
  /\ pc' = "returned"
  /\ LoseMessages
  /\ UNCHANGED <<failed, cancelled, deferred, telemetry, stops, network, bound>>
-----------------------------------------------------------------------------
(* The other goroutines and the world.                                     *)

\* SIGINT or SIGTERM.
Signal ==
  /\ pc \notin Gone /\ ~cancelled
  /\ cancelled' = TRUE
  /\ UNCHANGED <<main, telemetry, stops, network, bound, traffic>>

\* A crash, or the end of the pod's grace period.
Kill ==
  /\ pc \notin Gone
  /\ pc' = "killed"
  /\ bound' = {}
  /\ LoseMessages
  /\ UNCHANGED <<failed, cancelled, deferred, telemetry, stops, network>>

Connected == conn \in {"open", "draining", "flushing"} /\ pc \notin Gone

Disconnect ==
  /\ Connected /\ linked
  /\ linked' = FALSE
  /\ UNCHANGED <<main, cancelled, telemetry, stops, conn, bound, traffic>>

\* MaxReconnects(-1): it tries for ever, and binds its subscriptions again.
Reconnect ==
  /\ Connected /\ ~linked
  /\ linked' = TRUE
  /\ UNCHANGED <<main, cancelled, telemetry, stops, conn, bound, traffic>>

\* The server hands this member of the queue group a message.
Take(m, s) ==
  /\ stage[m] = "new" /\ s \in bound /\ linked
  /\ queue' = [queue EXCEPT ![s] = Append(@, m)]
  /\ stage' = [stage EXCEPT ![m] = "queued"]
  /\ UNCHANGED <<main, cancelled, telemetry, stops, network, bound>>

\* Not the code: every message has a goroutine of its own.
IsPending(m, s) == m \in Range(queue[s])

IsFirst(m, s) == queue[s] # <<>> /\ m = Head(queue[s])

Serve(m, s) ==
  /\ IsFirst(m, s) /\ stage[m] = "queued" /\ s \in bound
  /\ stage' = [stage EXCEPT ![m] = "served"]
  /\ UNCHANGED <<main, cancelled, telemetry, stops, network, bound, queue>>

\* The handler returns and its callback replies, while the connection accepts it.
Finish(m, s) ==
  /\ IsFirst(m, s) /\ stage[m] = "served"
  /\ stage' = [stage EXCEPT ![m] =
                 IF conn \in {"open", "draining"} THEN "buffered" ELSE "silent"]
  /\ queue' = [queue EXCEPT ![s] = Tail(@)]
  /\ UNCHANGED <<main, cancelled, telemetry, stops, network, bound>>

\* The connection's flusher.
Flush ==
  /\ conn \in {"open", "draining"} /\ linked /\ pc \notin Gone
  /\ \E m \in Message : stage[m] = "buffered"
  /\ Settle("replied")
  /\ UNCHANGED <<main, cancelled, telemetry, stops, network, bound, queue>>

\* drainConnection: no subscription is left, nothing more may be published.
DrainSubs ==
  /\ conn = "draining" /\ bound = {} /\ pc \notin Gone
  /\ conn' = "flushing"
  /\ UNCHANGED <<main, cancelled, telemetry, stops, linked, bound, traffic>>

\* It flushes what there is, if it can, and closes.
DrainEnds ==
  /\ conn = "flushing" /\ pc \notin Gone
  /\ conn' = "closed"
  /\ \/ linked /\ Settle("replied")
     \/ Settle("silent")
  /\ UNCHANGED <<main, cancelled, telemetry, stops, linked, bound, queue>>
-----------------------------------------------------------------------------
MainStep ==
  \/ StartProvider \/ SetupFails \/ SetupEnds \/ Configure
  \/ Connect \/ ConnectFails \/ LoadKeys \/ Wire
  \/ Bind \/ BindFails \/ BindEnds
  \/ Wake \/ UnwindSubscriptions \/ StopNext \/ StopsEnd \/ UnwindConnection
  \/ UnwindTelemetry \/ ShutNext \/ ShutEnds \/ Return

HandlerStep == \E m \in Message, s \in Subject : Serve(m, s) \/ Finish(m, s)

DrainStep == DrainSubs \/ DrainEnds

Environment ==
  \/ Signal \/ Kill \/ Disconnect \/ Reconnect \/ Flush
  \/ \E m \in Message, s \in Subject : Take(m, s)

Next == MainStep \/ HandlerStep \/ DrainStep \/ Environment

Spec == Init /\ [][Next]_vars

\* Every call of run is bounded: the connection attempt, the fetch of the keys
\* (10 s), the shutdown of telemetry (25 s).  Nothing else is assumed.
FairSpec == Spec /\ WF_vars(MainStep)
-----------------------------------------------------------------------------
(* Properties.                                                             *)

\* Messages come only to a process that can serve them, from the first
\* subscription bound to the last one stopped: the connection is neither
\* draining nor closed, the keys are loaded and the service wired, and the
\* spans of the handlers are exported.
TeardownOrder ==
  bound # {} =>
    /\ conn = "open"
    /\ pc \in {"subscribe", "ready", "unwinding", "stopping"}
    /\ \A p \in Provider : provider[p] = "running"

\* However far the startup came, run returns with nothing left behind: no
\* subscription, no provider that is not shut down or shut down twice, and an
\* open connection only when it never carried a message.
NothingDangles ==
  pc = "returned" =>
    /\ bound = {}
    /\ \A p \in Provider : provider[p] \in {"absent", "shut"}
    /\ conn = "open" => failed /\ \A m \in Message : stage[m] = "new"

\* The process comes up or gives up: no startup hangs.
Starts == <>(pc = "ready" \/ pc \in Gone)

\* A stop signal ends the process, whatever it was at.
Stops == cancelled ~> pc \in Gone

\* One process, with all it goes through, keeps the promise of the queue group.
\* What an unsubscribed goroutine will never take up counts as waiting until
\* the process ends.
StageBar ==
  [m \in Message |-> IF stage[m] \in Handled THEN "done" ELSE stage[m]]
QueueBar == [q \in {"here"} \X Subject |-> queue[q[2]]]
UpBar == IF pc \in Gone THEN {} ELSE {"here"}

Group == INSTANCE Delivery WITH
  Process <- {"here"}, stage <- StageBar, queue <- QueueBar, up <- UpBar

KeepsPromise == Group!Spec

\* client.go:50, of Close: "drains and closes the NATS connection".  A process
\* that stops in good order while its server is there would end with the
\* connection closed and no reply lost that a handler gave.
CloseDrains ==
  pc = "returned" /\ ~failed /\ linked =>
    conn = "closed" /\ \A m \in Message : stage[m] # "silent"
=============================================================================
