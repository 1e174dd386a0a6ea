----------------------------- MODULE RemoteCall -----------------------------
(***************************************************************************)
(* What the handlers may assume of one call of the forwardemail.net        *)
(* client, and what ForwardService does assume of its writes: the call is  *)
(* carried out at most once; it is carried out when it succeeds; when it   *)
(* is denied it never is; when its outcome is unknown it may be carried    *)
(* out at any later time, or never.                                        *)
(***************************************************************************)
CONSTANT Call

VARIABLES
  status,  \* status[c]: what the caller knows: waiting, ok, denied, unknown
  effect   \* effect[c]: what forwardemail.net did: pending, done, never

rvars == <<status, effect>>

Init ==
  /\ status = [c \in Call |-> "waiting"]
  /\ effect = [c \in Call |-> "pending"]

TakeEffect(c) ==
  /\ effect[c] = "pending"
  /\ effect' = [effect EXCEPT ![c] = "done"]
  /\ UNCHANGED status

Succeed(c) ==
  /\ status[c] = "waiting" /\ effect[c] = "done"
  /\ status' = [status EXCEPT ![c] = "ok"]
  /\ UNCHANGED effect

Deny(c) ==
  /\ status[c] = "waiting" /\ effect[c] = "pending"
  /\ status' = [status EXCEPT ![c] = "denied"]
  /\ effect' = [effect EXCEPT ![c] = "never"]

Lose(c) ==
  /\ status[c] = "waiting"
  /\ status' = [status EXCEPT ![c] = "unknown"]
  /\ UNCHANGED effect

Next == \E c \in Call : TakeEffect(c) \/ Succeed(c) \/ Deny(c) \/ Lose(c)

Spec == Init /\ [][Next]_rvars
=============================================================================
