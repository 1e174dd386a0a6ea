--------------------------- MODULE ForwardHistory ---------------------------
(***************************************************************************)
(* ForwardService with history variables, which observe every step and     *)
(* restrict none, and the properties that relate a request to what         *)
(* happened before and while it was served.                                *)
(***************************************************************************)
EXTENDS ForwardService

VARIABLES
  earlier,  \* earlier[r]: the requests that were over when r was published
  ahead,    \* ahead[r]: the requests r found before it in its subscription
  present,  \* present[r]: the keys the store held when r was published
  owned,    \* owned[r]: the keys the caller of r held at some moment from the
            \*   publication of r to the answer of auth-service
  writer    \* writer[k]: the request whose write was carried out on k last, in
            \*   a set that is empty when the entry is not the service's work

history == <<earlier, ahead, present, owned, writer>>
hvars == <<vars, history>>

Over(r) == pc[r] \in {"done", "lost"}
PresentKeys == {k \in Key : Exists(k)}

\* All that a user's identities are worth on the managed domains.
Identities(addresses) == Range(addresses.alternate) \cup {addresses.primary}

Holdings(addresses) ==
  {k \in Range(Domains) \X {Lower[e.local] : e \in Identities(addresses)} :
     \E e \in Identities(addresses) :
       /\ Lower[e.host] = Lower[k[1]]
       /\ Lower[e.local] = k[2] /\ e.local # Empty}

HTypeOK ==
  /\ TypeOK
  /\ earlier \in [Request -> SUBSET Request] /\ ahead \in [Request -> SUBSET Request]
  /\ present \in [Request -> SUBSET Key] /\ owned \in [Request -> SUBSET Key]
  /\ writer \in [Key -> SUBSET Request]

HInit ==
  /\ Init
  /\ earlier = [r \in Request |-> {}] /\ ahead = [r \in Request |-> {}]
  /\ present = [r \in Request |-> {}] /\ owned = [r \in Request |-> {}]
  /\ writer = [k \in Key |-> {}]

\* What the step adds to the history.
Published(r) == pc[r] = "idle" /\ pc'[r] = "queued"

Precedes(s, r) ==
  \E q \in Subscription :
    \E i, j \in DOMAIN queue'[q] : i < j /\ queue'[q][i] = s /\ queue'[q][j] = r

ObserveRequests ==
  /\ earlier' = [r \in Request |->
                   IF Published(r) THEN {s \in Request : Over(s)} ELSE earlier[r]]
  /\ ahead' = [r \in Request |->
                 IF Published(r) THEN {s \in Request : Precedes(s, r)} ELSE ahead[r]]
  /\ present' = [r \in Request |->
                   IF Published(r) THEN PresentKeys ELSE present[r]]
  /\ owned' = [r \in Request |->
                 IF pc'[r] \in {"queued", "auth"} /\ Verifiable(msg'[r])
                   THEN owned[r] \cup Holdings(profile'[msg'[r].token])
                   ELSE owned[r]]

ObserveStore ==
  writer' = [k \in Key |->
               LET by == {r \in Request : key[r] = k /\ wire'[r] = "applied"
                                                     /\ wire[r] # "applied"}
               IN IF by # {} THEN by
                  ELSE IF store'[k] = Absent THEN {} ELSE writer[k]]

HNext == Next /\ ObserveRequests /\ ObserveStore

HSpec == HInit /\ [][HNext]_hvars
-----------------------------------------------------------------------------
(* Properties.                                                             *)

\* set_target and get_forward act on a key the caller held while the request was
\* under way, whatever is relinked between the lookup and the write: never on
\* another user's alias, another domain's, or a spelling of it that the store
\* would keep apart.
OwnershipWindow ==
  \A r \in Request :
    key[r] # NoKey /\ msg[r].subject # "check_alias" => key[r] \in owned[r]

\* The comment of HandleSetTarget on the race of two first writes: whoever
\* retries after the entry exists takes the update path, so a conflict is never
\* met twice.  (Where no operator removes entries.)
RetryUpdates ==
  Removable = {} =>
    \A r \in Request : wire[r] = "POST" => key[r] \notin present[r]

\* A confirmed routing can only be undone by a set_target that was not yet over
\* when it was published, or by one that ended in forwardemail_error or with its
\* replica: a request answered without an error takes no effect after its reply.
Confirmed(r) ==
  msg[r] # Unsent /\ msg[r].subject = "set_target"
    /\ pc[r] = "done" /\ outcome[r].error = OK

NoLostUpdate ==
  \A s, w \in Request :
    Confirmed(s) /\ w \in earlier[s] /\ w \in writer[key[s]] =>
      pc[w] = "lost" \/ outcome[w].error = "forwardemail_error"

\* set_target requests of one key that wait in one subscription take effect in
\* its order, as far as they are confirmed.  (For requests that were over by then
\* NoLostUpdate says so, and between two replicas the queue group promises no
\* order.)
OrderKept ==
  \A s, w \in Request :
    Confirmed(s) /\ Confirmed(w) /\ key[s] = key[w] /\ w \in ahead[s] =>
      w \notin writer[key[s]]

\* A get_forward published after a confirmed set_target of the same key reads its
\* target, unless another set_target of that key may still take effect: one that
\* is not over, was confirmed later, or failed without a rejection.
Settled(w, s) ==
  \/ w \in earlier[s] /\ Confirmed(w)
  \/ pc[w] = "done" /\ wire[w] \in {"none", "rejected"}

ReadAfterWrite ==
  Removable = {} =>
    \A s, g \in Request :
      /\ Confirmed(s) /\ s \in earlier[g]
      /\ msg[g].subject = "get_forward" /\ key[g] = key[s]
      /\ pc[g] = "done" /\ outcome[g].error = OK
      /\ \A w \in Request \ {s} :
           key[w] = key[s] /\ msg[w].subject = "set_target" => Settled(w, s)
      => outcome[g] = [error |-> OK, flag |-> TRUE, alias |-> key[s][2],
                       target |-> Target(s)]
=============================================================================
