--------------------------- MODULE ForwardService ---------------------------
(***************************************************************************)
(* The forwards service at work: callers publish requests on three NATS    *)
(* subjects, the queue group hands each to one replica, and every replica  *)
(* serves each subject with one goroutine, one message at a time.  The     *)
(* handlers of HandleCheckAlias, HandleSetTarget and HandleGetForward are  *)
(* split where they wait for the network: auth-service and the             *)
(* forwardemail.net REST API.                                              *)
(*                                                                         *)
(* The service keeps no state of its own.  What it changes is the          *)
(* forwardemail.net store, through requests that may be answered, refused, *)
(* or abandoned by the handler while still under way: an abandoned POST or *)
(* PUT may be carried out later, or never.                                 *)
(***************************************************************************)
EXTENDS AliasRules

CONSTANTS
  Request,         \* the messages that may be published
  Replica,         \* the pods of the queue group forwards-service-workers
  User,            \* the subjects Auth0 issues tokens for
  NoUser,          \* what a token that never verifies stands for
  Profile,         \* the identities auth-service may hold for a user
  Payload,         \* the message bodies callers may send
  Unsent,          \* stands for the body of a message not yet published
  InitialStore,    \* the stores forwardemail.net may hold at the start
  Absent,          \* stands for an alias that does not exist in the store
  Removable        \* keys an operator may remove at forwardemail.net

Subject == {"check_alias", "set_target", "get_forward"}
Subscription == Replica \X Subject
Key == Range(Domains) \X Name
NoKey == <<Empty, Empty>>

Entry == [recipients : Seq(Name), label : User \cup {NoUser}, enabled : BOOLEAN]

PayloadType ==
  [subject : Subject, parses : BOOLEAN, domain : Name, alias : Name,
   token : User \cup {NoUser}, target : Name]

ASSUME ServiceAssumption ==
  /\ NoUser \notin User
  /\ Payload \subseteq PayloadType /\ Unsent \notin Payload
  /\ Profile \subseteq ProfileType
  /\ Absent \notin Entry
  /\ InitialStore \subseteq [Key -> Entry \cup {Absent}]
  /\ Removable \subseteq Key

ErrorCode ==
  {OK, "malformed_request", "domain_required", "domain_not_allowed",
   "alias_invalid", "alias_reserved", "unauthorized", "not_found",
   "target_email_invalid", "forwardemail_error"}

\* One shape for the three replies: "flag" is exists in a check_alias reply and
\* found in a get_forward reply.
ReplyType == [error : ErrorCode, flag : BOOLEAN, alias : Name, target : Name]
ErrorReply(code) ==
  [error |-> code, flag |-> FALSE, alias |-> Empty, target |-> Empty]
NotFoundReply == ErrorReply(OK)
NoOutcome == [ErrorReply(OK) EXCEPT !.error = "pending"]

\* Where a request is: not published, waiting in a subscription, at one of the
\* handler's network waits, finished, or gone with its replica.
Waits == {"auth", "check", "exists", "read", "write"}
Stage == {"idle", "queued", "done", "lost"} \cup Waits

\* What became of the POST or PUT of a request at forwardemail.net.
Sent == {"POST", "PUT"}
WireState == {"none", "applied", "rejected"} \cup Sent

VARIABLES
  msg,      \* msg[r]: the body of request r
  pc,       \* pc[r]: its stage
  queue,    \* queue[q]: the pending messages of subscription q, the first one
            \*   being the one its goroutine is at
  key,      \* key[r]: the <<domain, alias>> its handler works on
  wire,     \* wire[r]: its write at forwardemail.net
  outcome,  \* outcome[r]: what its handler returned; the callback publishes it
            \*   when the message carries a reply subject
  store,    \* forwardemail.net: the routing of every key
  profile,  \* auth-service: the addresses of every user
  up        \* the replicas that run

caller == <<msg>>
local == <<pc, queue, outcome>>
remote == <<wire, store>>
vars == <<msg, pc, queue, key, wire, outcome, store, profile, up>>

TypeOK ==
  /\ msg \in [Request -> Payload \cup {Unsent}]
  /\ pc \in [Request -> Stage]
  /\ \A r \in Request : pc[r] # "idle" => msg[r] \in Payload
  /\ queue \in [Subscription -> Seq(Request)]
  /\ key \in [Request -> Key \cup {NoKey}]
  /\ wire \in [Request -> WireState]
  /\ outcome \in [Request -> ReplyType \cup {NoOutcome}]
  /\ store \in [Key -> Entry \cup {Absent}]
  /\ profile \in [User -> Profile]
  /\ up \subseteq Replica

Init ==
  /\ msg = [r \in Request |-> Unsent]
  /\ pc = [r \in Request |-> "idle"]
  /\ queue = [q \in Subscription |-> <<>>]
  /\ key = [r \in Request |-> NoKey]
  /\ wire = [r \in Request |-> "none"]
  /\ outcome = [r \in Request |-> NoOutcome]
  /\ store \in InitialStore
  /\ profile \in [User -> Profile]
  /\ up = Replica
-----------------------------------------------------------------------------
(* Delivery and the subscriptions.                                         *)

\* Not the code: the replicas subscribe without a queue group.
PublishToAll(r, m, p) ==
  /\ pc[r] = "idle" /\ p \in up
  /\ msg' = [msg EXCEPT ![r] = m]
  /\ pc' = [pc EXCEPT ![r] = "queued"]
  /\ queue' = [q \in Subscription |->
                 IF q \in up \X {m.subject} THEN Append(queue[q], r) ELSE queue[q]]
  /\ UNCHANGED <<key, outcome, remote, profile, up>>

\* A caller publishes r; the NATS server hands it to one subscribed member of
\* the queue group.
Publish(r, m, p) ==
  /\ pc[r] = "idle" /\ p \in up
  /\ msg' = [msg EXCEPT ![r] = m]
  /\ pc' = [pc EXCEPT ![r] = "queued"]
  /\ queue' = [queue EXCEPT ![<<p, m.subject>>] = Append(@, r)]
  /\ UNCHANGED <<key, outcome, remote, profile, up>>

\* The goroutine of subscription q is at request r, and r is at stage s.
\* Not the code: every pending message has a goroutine of its own.
FirstOrAny(q) == Range(queue[q])

First(q) == {queue[q][i] : i \in DOMAIN queue[q] \cap {1}}
Serves(q, r, s) == r \in First(q) /\ pc[r] = s

\* The handler goes on to its next network wait.
Advance(r, s) ==
  /\ pc' = [pc EXCEPT ![r] = s]
  /\ UNCHANGED <<queue, outcome>>

\* Not the code: the goroutine stays at the message it has answered.
FinishAndStay(q, r, reply) ==
  /\ pc' = [pc EXCEPT ![r] = "done"]
  /\ outcome' = [outcome EXCEPT ![r] = reply]
  /\ UNCHANGED queue

\* The handler returns, the callback publishes the reply, and the goroutine takes
\* its next message.
Finish(q, r, reply) ==
  /\ pc' = [pc EXCEPT ![r] = "done"]
  /\ outcome' = [outcome EXCEPT ![r] = reply]
  /\ queue' = [queue EXCEPT ![q] = Tail(@)]
-----------------------------------------------------------------------------
(* From the message to the first network wait.                             *)

\* What each handler needs before it asks auth-service or the store.
Addressed(m) == m.parses /\ ResolveError(m.domain) = OK
Verifiable(m) == m.token \in User

\* The first early return a message meets.  Verify may reject the token of a
\* real user too: it has expired, or its signing key is not cached yet.
EarlyErrors(m) ==
  IF ~m.parses THEN {"malformed_request"}
  ELSE IF ~Addressed(m) THEN {ResolveError(m.domain)}
  ELSE IF m.subject = "check_alias" THEN {ValidateError(m.alias)} \ {OK}
  ELSE {"unauthorized"}

Refuse(q, r) ==
  /\ Serves(q, r, "queued")
  /\ \E code \in EarlyErrors(msg[r]) : Finish(q, r, ErrorReply(code))
  /\ UNCHANGED <<caller, key, remote, profile, up>>

\* HandleCheckAlias asks the store about the alias it was given.
StartCheckAlias(q, r) ==
  /\ Serves(q, r, "queued")
  /\ msg[r].subject = "check_alias" /\ Addressed(msg[r])
  /\ ValidateError(msg[r].alias) = OK
  /\ key' = [key EXCEPT ![r] = <<ResolvedDomain(msg[r].domain),
                                 Normalised(msg[r].alias)>>]
  /\ Advance(r, "check")
  /\ UNCHANGED <<caller, remote, profile, up>>

\* HandleSetTarget and HandleGetForward verify the token and ask auth-service
\* for the caller's alias.
StartAuthenticated(q, r) ==
  /\ Serves(q, r, "queued")
  /\ msg[r].subject \in {"set_target", "get_forward"} /\ Addressed(msg[r])
  /\ Verifiable(msg[r])
  /\ Advance(r, "auth")
  /\ UNCHANGED <<caller, key, remote, profile, up>>
-----------------------------------------------------------------------------
(* The answer of auth-service.                                             *)

CallerMatches(r) ==
  AliasMatches(profile[msg[r].token], ResolvedDomain(msg[r].domain))

\* The key the caller's identity gives on the requested domain.
CallerKey(r) ==
  LET domain == ResolvedDomain(msg[r].domain)
  IN <<domain, PickAlias(profile[msg[r].token], domain)>>

\* The address set_target forwards to, and whether it is accepted.
Target(r) == Trim[msg[r].target]
TargetValid(r) == Target(r) \in Addresses

AuthAnswersAlias(q, r) ==
  /\ Serves(q, r, "auth") /\ CallerMatches(r) # {}
  /\ key' = [key EXCEPT ![r] = CallerKey(r)]
  /\ \/ /\ msg[r].subject = "get_forward"
        /\ Advance(r, "read")
     \/ /\ msg[r].subject = "set_target" /\ TargetValid(r)
        /\ Advance(r, "exists")
     \/ /\ msg[r].subject = "set_target" /\ ~TargetValid(r)
        /\ Finish(q, r, ErrorReply("target_email_invalid"))
  /\ UNCHANGED <<caller, remote, profile, up>>

\* ErrNoAliasForDomain: the two handlers report it differently.
AuthAnswersNone(q, r) ==
  /\ Serves(q, r, "auth") /\ CallerMatches(r) = {}
  /\ Finish(q, r, IF msg[r].subject = "set_target"
                    THEN ErrorReply("not_found") ELSE NotFoundReply)
  /\ UNCHANGED <<caller, key, remote, profile, up>>

\* Not the code: a failed lookup is taken for a caller without an alias.
AuthFailsAsNone(q, r) ==
  /\ Serves(q, r, "auth")
  /\ Finish(q, r, NotFoundReply)
  /\ UNCHANGED <<caller, key, remote, profile, up>>

\* No responder, a timeout, an error reply or one that does not decode.
AuthFails(q, r) ==
  /\ Serves(q, r, "auth")
  /\ Finish(q, r, ErrorReply("unauthorized"))
  /\ UNCHANGED <<caller, key, remote, profile, up>>
-----------------------------------------------------------------------------
(* Reads of the store.                                                     *)

Exists(k) == store[k] # Absent

\* Recipients[0], or nothing when the entry has no recipient.
FirstRecipient(entry) ==
  IF entry.recipients = <<>> THEN Empty ELSE Head(entry.recipients)

CheckAnswers(q, r) ==
  /\ Serves(q, r, "check")
  /\ Finish(q, r, [error |-> OK, flag |-> Exists(key[r]),
                   alias |-> key[r][2], target |-> Empty])
  /\ UNCHANGED <<caller, key, remote, profile, up>>

ReadAnswers(q, r) ==
  /\ Serves(q, r, "read")
  /\ Finish(q, r, IF Exists(key[r])
                    THEN [error |-> OK, flag |-> TRUE, alias |-> key[r][2],
                          target |-> FirstRecipient(store[key[r]])]
                    ELSE NotFoundReply)
  /\ UNCHANGED <<caller, key, remote, profile, up>>

\* Not the code: the alias is always created.
ExistsIgnored(q, r) ==
  /\ Serves(q, r, "exists")
  /\ wire' = [wire EXCEPT ![r] = "POST"]
  /\ Advance(r, "write")
  /\ UNCHANGED <<caller, key, store, profile, up>>

\* The existence test of set_target decides between POST and PUT, and the
\* handler sends it.
ExistsAnswers(q, r) ==
  /\ Serves(q, r, "exists")
  /\ wire' = [wire EXCEPT ![r] = IF Exists(key[r]) THEN "PUT" ELSE "POST"]
  /\ Advance(r, "write")
  /\ UNCHANGED <<caller, key, store, profile, up>>

\* Three 429 answers, another error status, a timeout, a cancelled context, or
\* an answer that does not decode.
ReadFails(q, r) ==
  /\ \E s \in {"check", "exists", "read"} : Serves(q, r, s)
  /\ Finish(q, r, ErrorReply("forwardemail_error"))
  /\ UNCHANGED <<caller, key, remote, profile, up>>
-----------------------------------------------------------------------------
(* The write.  forwardemail.net carries out or rejects what was sent,      *)
(* whether or not a handler still waits for the answer.                    *)

\* The entry CreateAlias makes, and below the one UpdateAlias leaves.
Created(r) ==
  [recipients |-> <<Target(r)>>, label |-> msg[r].token, enabled |-> TRUE]

\* Not the code: an update that claims the entry.
UpdatedAndClaimed(r, entry) == Created(r)

Updated(r, entry) ==
  [entry EXCEPT !.recipients = <<Target(r)>>, !.enabled = TRUE]

ApplyWrite(r) ==
  /\ \/ /\ wire[r] = "POST" /\ ~Exists(key[r])
        /\ store' = [store EXCEPT ![key[r]] = Created(r)]
     \/ /\ wire[r] = "PUT" /\ Exists(key[r])
        /\ store' = [store EXCEPT ![key[r]] = Updated(r, @)]
  /\ wire' = [wire EXCEPT ![r] = "applied"]
  /\ UNCHANGED <<caller, local, key, profile, up>>

\* A conflict on POST, a 404 on PUT, or any status that changes nothing.
RejectWrite(r) ==
  /\ wire[r] \in Sent
  /\ wire' = [wire EXCEPT ![r] = "rejected"]
  /\ UNCHANGED <<caller, local, key, store, profile, up>>

\* Not the code: success is reported once the write is sent.
WriteAnswersEarly(q, r) ==
  /\ Serves(q, r, "write") /\ wire[r] # "rejected"
  /\ Finish(q, r, [error |-> OK, flag |-> FALSE,
                   alias |-> key[r][2], target |-> Target(r)])
  /\ UNCHANGED <<caller, key, remote, profile, up>>

WriteAnswers(q, r) ==
  /\ Serves(q, r, "write") /\ wire[r] = "applied"
  /\ Finish(q, r, [error |-> OK, flag |-> FALSE,
                   alias |-> key[r][2], target |-> Target(r)])
  /\ UNCHANGED <<caller, key, remote, profile, up>>

\* Not the code: every failure of the write is reported as a missing alias.
WriteFailsAsMissing(q, r) ==
  /\ Serves(q, r, "write")
  /\ Finish(q, r, ErrorReply("not_found"))
  /\ UNCHANGED <<caller, key, remote, profile, up>>

\* The rejection arrives, or the handler gives up: the answer was lost, late or
\* did not decode, and what was sent may have been, or yet be, applied.
WriteFails(q, r) ==
  /\ Serves(q, r, "write")
  /\ Finish(q, r, ErrorReply("forwardemail_error"))
  /\ UNCHANGED <<caller, key, remote, profile, up>>
-----------------------------------------------------------------------------
(* Replicas and the two outside systems.                                   *)

Holds(p, r) == \E s \in Subject : r \in Range(queue[<<p, s>>])

\* Replica p ends: a crash, or the end of a shutdown, which unsubscribes and
\* exits without waiting for what is queued or under way.
Exit(p) ==
  /\ p \in up
  /\ up' = up \ {p}
  /\ pc' = [r \in Request |-> IF Holds(p, r) THEN "lost" ELSE pc[r]]
  /\ queue' = [q \in Subscription |-> IF q[1] = p THEN <<>> ELSE queue[q]]
  /\ UNCHANGED <<caller, key, outcome, remote, profile>>

Restart(p) ==
  /\ p \in Replica \ up
  /\ up' = up \cup {p}
  /\ UNCHANGED <<caller, local, key, remote, profile>>

\* auth-service links or unlinks identities of a user.
Relink(u, f) ==
  /\ profile[u] # f
  /\ profile' = [profile EXCEPT ![u] = f]
  /\ UNCHANGED <<caller, local, key, remote, up>>

\* An operator removes an alias at forwardemail.net.
Remove(k) ==
  /\ Exists(k)
  /\ store' = [store EXCEPT ![k] = Absent]
  /\ UNCHANGED <<caller, local, key, wire, profile, up>>
-----------------------------------------------------------------------------
HandlerStep(q, r) ==
  \/ Refuse(q, r) \/ StartCheckAlias(q, r) \/ StartAuthenticated(q, r)
  \/ AuthAnswersAlias(q, r) \/ AuthAnswersNone(q, r) \/ AuthFails(q, r)
  \/ CheckAnswers(q, r) \/ ReadAnswers(q, r) \/ ExistsAnswers(q, r)
  \/ ReadFails(q, r) \/ WriteAnswers(q, r) \/ WriteFails(q, r)

Next ==
  \/ \E r \in Request, m \in Payload, p \in Replica : Publish(r, m, p)
  \/ \E q \in Subscription : \E r \in First(q) : HandlerStep(q, r)
  \/ \E r \in Request : ApplyWrite(r) \/ RejectWrite(r)
  \/ \E p \in Replica : Exit(p) \/ Restart(p)
  \/ \E u \in User, f \in Profile : Relink(u, f)
  \/ \E k \in Removable : Remove(k)

Spec == Init /\ [][Next]_vars

\* A goroutine goes on as long as it has a message: every network wait ends, by
\* an answer or by the timeout of its context.  Nothing is assumed of callers,
\* of forwardemail.net, of auth-service or of the replicas.
Fairness ==
  \A q \in Subscription : WF_vars(\E r \in First(q) : HandlerStep(q, r))

FairSpec == Spec /\ Fairness
-----------------------------------------------------------------------------
(* Properties.                                                             *)

\* Every pending message is in exactly one subscription, that of its subject at a
\* running replica, and only the first message of a subscription is past
\* "queued": no message is dropped, served twice or served by two goroutines.
InPlace(q, i, r) ==
  /\ queue[q][i] = r
  /\ q[1] \in up /\ q[2] = msg[r].subject
  /\ i = 1 \/ pc[r] = "queued"

QueueDiscipline ==
  /\ \A q \in Subscription : \A i \in DOMAIN queue[q] :
        /\ InPlace(q, i, queue[q][i])
        /\ pc[queue[q][i]] \in {"queued"} \cup Waits
  /\ \A r \in Request : pc[r] \in {"queued"} \cup Waits =>
        \E q \in Subscription : \E i \in DOMAIN queue[q] : queue[q][i] = r
  /\ \A q, t \in Subscription :
        \A i \in DOMAIN queue[q], j \in DOMAIN queue[t] :
          queue[q][i] = queue[t][j] => q = t /\ i = j

\* A caller told that a request was refused (the README's table: every code but
\* forwardemail_error) can rely on it: nothing was sent to forwardemail.net for
\* it, and nothing it sent can show up later.
Refusals == ErrorCode \ {OK, "forwardemail_error"}

RefusedMeansUntouched ==
  \A r \in Request :
    pc[r] = "done" /\ outcome[r].error \in Refusals => wire[r] = "none"

\* A set_target answered without an error was carried out at forwardemail.net,
\* on the key of the reply; a check_alias or get_forward never writes.
SuccessMeansWritten ==
  \A r \in Request :
    /\ pc[r] = "done" /\ msg[r].subject = "set_target" /\ outcome[r].error = OK =>
          wire[r] = "applied" /\ outcome[r].alias = key[r][2]
    /\ wire[r] # "none" => msg[r].subject = "set_target"

\* The label lfid:<sub> names the user who created the entry for as long as it
\* exists: neither a losing first writer nor a later update takes it over.
CreatorKept ==
  [][\A k \in Key : Exists(k) /\ store'[k] # Absent =>
       store'[k].label = store[k].label]_store

\* The handler of every message ends, or its replica does: a subscription never
\* stays behind a message for ever, whatever the outside systems do.
Answered ==
  \A r \in Request : pc[r] = "queued" ~> pc[r] \in {"done", "lost"}
=============================================================================
