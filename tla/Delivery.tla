------------------------------ MODULE Delivery ------------------------------
(***************************************************************************)
(* What the queue group promises of one message: it is handed to at most   *)
(* one running process, waits there behind the earlier messages of its     *)
(* subject, is served by one goroutine, and ends once: handled, or lost    *)
(* with its process.  The service as callers see it (ForwardService) and   *)
(* one process as it starts and stops (Lifecycle) both implement it.       *)
(***************************************************************************)
EXTENDS Sequences

CONSTANTS Message, Process, Subject

Subscription == Process \X Subject

VARIABLES
  stage,   \* stage[m]: new, queued, served, done or lost
  queue,   \* queue[q]: the messages of subscription q that are not over
  up       \* the processes that run

vars == <<stage, queue, up>>

Init ==
  /\ stage = [m \in Message |-> "new"]
  /\ queue = [q \in Subscription |-> <<>>]
  /\ up = Process

Take(m, q) ==
  /\ stage[m] = "new" /\ q[1] \in up
  /\ stage' = [stage EXCEPT ![m] = "queued"]
  /\ queue' = [queue EXCEPT ![q] = Append(@, m)]
  /\ UNCHANGED up

IsFirst(m, q) == queue[q] # <<>> /\ m = Head(queue[q])

Serve(m, q) ==
  /\ IsFirst(m, q) /\ stage[m] = "queued"
  /\ stage' = [stage EXCEPT ![m] = "served"]
  /\ UNCHANGED <<queue, up>>

\* An early return ends a message that was never seen at work.
End(m, q) ==
  /\ IsFirst(m, q) /\ stage[m] \in {"queued", "served"}
  /\ stage' = [stage EXCEPT ![m] = "done"]
  /\ queue' = [queue EXCEPT ![q] = Tail(@)]
  /\ UNCHANGED up

HeldBy(m, p) ==
  \E s \in Subject : \E i \in DOMAIN queue[<<p, s>>] : queue[<<p, s>>][i] = m

Leave(p) ==
  /\ p \in up
  /\ up' = up \ {p}
  /\ stage' = [m \in Message |-> IF HeldBy(m, p) THEN "lost" ELSE stage[m]]
  /\ queue' = [q \in Subscription |-> IF q[1] = p THEN <<>> ELSE queue[q]]

Join(p) ==
  /\ p \in Process \ up
  /\ up' = up \cup {p}
  /\ UNCHANGED <<stage, queue>>

Next ==
  \/ \E m \in Message, q \in Subscription : Take(m, q) \/ Serve(m, q) \/ End(m, q)
  \/ \E p \in Process : Leave(p) \/ Join(p)

Spec == Init /\ [][Next]_vars
=============================================================================
