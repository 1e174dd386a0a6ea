-------------------------- MODULE ForwardDelivery --------------------------
(***************************************************************************)
(* ForwardService keeps the promise of the queue group: seen from outside, *)
(* the waits of a handler are one stage, and its replies do not matter.    *)
(***************************************************************************)
EXTENDS ForwardService

StageBar ==
  [r \in Request |->
     IF pc[r] = "idle" THEN "new"
     ELSE IF pc[r] \in Waits THEN "served" ELSE pc[r]]

Group == INSTANCE Delivery WITH
  Message <- Request, Process <- Replica, stage <- StageBar

\* Every message is handed to one running replica, served there in its turn by
\* one goroutine, and is over once: handled, or lost with the replica.
KeepsPromise == Group!Spec
=============================================================================
