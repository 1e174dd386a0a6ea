------------------------- MODULE ForwardHistoryProofs -------------------------
(***************************************************************************)
(* What the service promises about requests over time, for every set of    *)
(* requests, replicas, users and messages.                                 *)
(***************************************************************************)
EXTENDS ForwardHistory, ForwardServiceProofs

(* What one step does to one request.                                      *)

\* A request that has been published keeps its message.
Kept(r) == msg'[r] = msg[r]

Published1(r) ==
  /\ pc[r] = "idle" /\ pc'[r] = "queued"
  /\ key'[r] = key[r] /\ wire'[r] = wire[r] /\ outcome'[r] = outcome[r]

Asked(r) ==
  /\ Kept(r) /\ pc[r] = "queued" /\ pc'[r] = "auth"
  /\ key'[r] = key[r] /\ wire'[r] = wire[r]

Checked(r) ==
  /\ Kept(r) /\ pc[r] = "queued" /\ pc'[r] = "check"
  /\ msg[r].subject = "check_alias" /\ wire'[r] = wire[r]

Identified(r) ==
  /\ Kept(r) /\ pc[r] = "auth" /\ pc'[r] \in {"read", "exists", "done"}
  /\ CallerMatches(r) # {} /\ key'[r] = CallerKey(r) /\ wire'[r] = wire[r]

Wrote(r) ==
  /\ Kept(r) /\ pc[r] = "exists" /\ pc'[r] = "write" /\ key'[r] = key[r]
  /\ wire'[r] = IF Exists(key[r]) THEN "PUT" ELSE "POST"

Ended(r) ==
  /\ Kept(r) /\ pc[r] \in {"queued"} \cup Waits /\ pc'[r] = "done"
  /\ key'[r] = key[r] /\ wire'[r] = wire[r]

Settles(r) ==
  /\ Kept(r) /\ wire[r] \in Sent /\ wire'[r] \in {"applied", "rejected"}
  /\ wire'[r] = "applied" => ApplyWrite(r)
  /\ pc'[r] = pc[r] /\ key'[r] = key[r] /\ outcome'[r] = outcome[r]

Stays(r) ==
  /\ Kept(r) /\ pc'[r] \in {pc[r], "lost"} /\ (pc[r] = "idle" => pc'[r] = "idle")
  /\ key'[r] = key[r] /\ wire'[r] = wire[r] /\ outcome'[r] = outcome[r]

\* Every step does one of these to every request.
LEMMA Footprint ==
  ASSUME TypeInv, Next, NEW r \in Request
  PROVE  \/ Published1(r) \/ Asked(r) \/ Checked(r) \/ Identified(r)
         \/ Wrote(r) \/ Ended(r) \/ Settles(r) \/ Stays(r)
<1> USE DEF TypeInv
<1>1. CASE \E s \in Request, m \in Payload, p \in Replica : Publish(s, m, p)
  BY <1>1 DEF Publish, remote, Published1, Stays, Kept, TypeOK
<1>2. CASE \E q \in Subscription : \E s \in First(q) : HandlerStep(q, s)
  <2> PICK q \in Subscription : \E s \in First(q) : HandlerStep(q, s)
    BY <1>2
  <2> PICK s \in First(q) : HandlerStep(q, s)
    OBVIOUS
  <2>1. s \in Request
    BY FirstOfQueue
  <2>2. CASE r # s
    <3>1. /\ msg'[r] = msg[r] /\ pc'[r] = pc[r] /\ key'[r] = key[r]
          /\ wire'[r] = wire[r] /\ outcome'[r] = outcome[r]
      BY <2>1, <2>2 DEF HandlerStep, Refuse, StartCheckAlias, StartAuthenticated,
           AuthAnswersAlias, AuthAnswersNone, AuthFails, CheckAnswers, ReadAnswers,
           ExistsAnswers, ReadFails, WriteAnswers, WriteFails, Finish, Advance,
           caller, remote, TypeOK
    <3> QED
      BY <3>1 DEF Stays, Kept
  <2>3. CASE r = s /\ StartCheckAlias(q, s)
    BY <2>1, <2>3 DEF StartCheckAlias, Serves, Advance, caller, remote, TypeOK,
         Checked, Kept
  <2>4. CASE r = s /\ StartAuthenticated(q, s)
    BY <2>1, <2>4 DEF StartAuthenticated, Serves, Advance, caller, remote, TypeOK,
         Asked, Kept
  <2>5. CASE r = s /\ AuthAnswersAlias(q, s)
    BY <2>1, <2>5 DEF AuthAnswersAlias, Serves, Advance, Finish, caller, remote,
         TypeOK, Identified, Kept
  <2>6. CASE r = s /\ ExistsAnswers(q, s)
    BY <2>1, <2>6 DEF ExistsAnswers, Serves, Advance, caller, TypeOK, Wrote, Kept
  <2>7. CASE r = s /\ \/ Refuse(q, s) \/ AuthAnswersNone(q, s) \/ AuthFails(q, s)
                      \/ CheckAnswers(q, s) \/ ReadAnswers(q, s) \/ ReadFails(q, s)
                      \/ WriteAnswers(q, s) \/ WriteFails(q, s)
    BY <2>1, <2>7 DEF Refuse, AuthAnswersNone, AuthFails, CheckAnswers, ReadAnswers,
         ReadFails, WriteAnswers, WriteFails, Serves, Finish, caller, remote, TypeOK,
         Ended, Kept, Waits
  <2> QED
    BY <2>2, <2>3, <2>4, <2>5, <2>6, <2>7 DEF HandlerStep
<1>3. CASE \E s \in Request : ApplyWrite(s) \/ RejectWrite(s)
  BY <1>3 DEF ApplyWrite, RejectWrite, caller, local, Settles, Stays, Kept, Sent, TypeOK
<1>4. CASE \E p \in Replica : Exit(p) \/ Restart(p)
  <2> PICK p \in Replica : Exit(p) \/ Restart(p)
    BY <1>4
  <2>1. CASE Restart(p)
    BY <2>1 DEF Restart, caller, local, remote, Stays, Kept
  <2>2. CASE Exit(p)
    <3>1. pc[r] = "idle" => ~Holds(p, r)
      BY DEF Holds, Range, Enqueued, Subscription
    <3> QED
      BY <2>2, <3>1 DEF Exit, caller, remote, Stays, Kept
  <2> QED
    BY <2>1, <2>2
<1>5. CASE \/ \E u \in User, f \in Profile : Relink(u, f)
           \/ \E k \in Removable : Remove(k)
  BY <1>5 DEF Relink, Remove, caller, local, remote, Stays, Kept
<1> QED
  BY <1>1, <1>2, <1>3, <1>4, <1>5 DEF Next

\* Once it is over a request stays over, with its key, and only the end of its
\* replica can change what became of it.
LEMMA OverStays ==
  ASSUME TypeInv, Next, NEW r \in Request, Over(r)
  PROVE  /\ Over(r)' /\ Kept(r) /\ key'[r] = key[r] /\ outcome'[r] = outcome[r]
         /\ pc'[r] \in {pc[r], "lost"}
  BY Footprint DEF Over, Published1, Asked, Checked, Identified, Wrote, Ended, Settles,
       Stays, Waits

\* Once it is published a request is moved by its own handler, or lost.
LEMMA MovedByHandler ==
  ASSUME TypeInv, Next, NEW r \in Request, pc'[r] \notin {pc[r], "queued", "lost"}
  PROVE  \E q \in Subscription : r \in First(q) /\ HandlerStep(q, r)
<1>1. PICK q \in Subscription : \E s \in First(q) : HandlerStep(q, s)
  <2>1. CASE \E s \in Request, m \in Payload, p \in Replica : Publish(s, m, p)
    BY <2>1 DEF Publish, TypeInv, TypeOK
  <2>2. CASE \/ \E s \in Request : ApplyWrite(s) \/ RejectWrite(s)
             \/ \E u \in User, f \in Profile : Relink(u, f)
             \/ \E k \in Removable : Remove(k)
    BY <2>2 DEF ApplyWrite, RejectWrite, Relink, Remove, local
  <2>3. CASE \E p \in Replica : Exit(p) \/ Restart(p)
    BY <2>3 DEF Exit, Restart, local
  <2> QED
    BY <2>1, <2>2, <2>3 DEF Next
<1>2. PICK s \in First(q) : HandlerStep(q, s)
  BY <1>1
<1>3. s \in Request
  BY FirstOfQueue DEF TypeInv
<1>4. \E t : pc' = [pc EXCEPT ![s] = t]
  BY <1>2 DEF HandlerStep, Refuse, StartCheckAlias, StartAuthenticated,
       AuthAnswersAlias, AuthAnswersNone, AuthFails, CheckAnswers, ReadAnswers,
       ExistsAnswers, ReadFails, WriteAnswers, WriteFails, Finish, Advance
<1>5. r = s
  BY <1>3, <1>4 DEF TypeInv, TypeOK
<1> QED
  BY <1>2, <1>5

\* A request that has sent its write keeps its key.
LEMMA WriterKeepsKey ==
  ASSUME TypeInv, Next, NEW r \in Request, wire[r] # "none"
  PROVE  key'[r] = key[r] /\ Kept(r) /\ pc[r] # "idle"
  BY Footprint DEF TypeInv, Written, Published1, Asked, Checked, Identified, Wrote, Ended,
       Settles, Stays

\* The invariant of ForwardService holds with its history too.
LEMMA BaseInvariant == HSpec => [](TypeInv /\ Truthful)
<1>1. HInit => TypeInv /\ Truthful
  BY TypeInvInit DEF HInit, Init, Truthful
<1>2. TypeInv /\ Truthful /\ [HNext]_hvars => (TypeInv /\ Truthful)'
  <2>1. [HNext]_hvars => [Next]_vars
    BY DEF HNext, hvars
  <2> QED
    BY <2>1, TypeInvStep, TruthfulStep
<1> QED
  BY <1>1, <1>2, PTL DEF HSpec
-----------------------------------------------------------------------------
(* Ownership.                                                              *)

\* The alias auth-service's answer gives a caller is one of the caller's keys.
LEMMA CallerKeyIsHeld ==
  ASSUME TypeInv, NEW r \in Request, pc[r] # "idle",
         Addressed(msg[r]), Verifiable(msg[r]), CallerMatches(r) # {}
  PROVE  CallerKey(r) \in Holdings(profile[msg[r].token])
<1> DEFINE domain == ResolvedDomain(msg[r].domain)
           addresses == profile[msg[r].token]
<1>1. domain \in Range(Domains) \cap Name
  BY Bodies, ResolvedDomainIsManaged DEF Addressed, TypeInv
<1>2. addresses \in ProfileType
  BY ServiceAssumption DEF TypeInv, TypeOK, Verifiable
<1>3. PICK e \in Identities(addresses) :
        /\ Lower[e.host] = Fold(domain) /\ e.local # Empty
        /\ PickAlias(addresses, domain) = Lower[e.local]
  BY <1>1, <1>2, PickAliasIsOwned DEF CallerMatches, Identities
<1>4. Fold(domain) = Lower[domain]
  BY <1>1, ConfigAssumption DEF Range, Fold
<1>5. CallerKey(r) = <<domain, Lower[e.local]>>
  BY <1>3 DEF CallerKey
<1> HIDE DEF domain, addresses
<1>6. <<domain, Lower[e.local]>> \in Holdings(addresses)
  BY <1>1, <1>3, <1>4 DEF Holdings
<1> QED
  BY <1>5, <1>6 DEF addresses

\* While a request may still ask for its caller's identities, those of the moment
\* are among what was observed; its key is chosen from them.
Owned ==
  \A r \in Request :
    /\ pc[r] \in {"queued", "auth"} /\ Verifiable(msg[r]) =>
         Holdings(profile[msg[r].token]) \subseteq owned[r]
    /\ pc[r] \in {"idle", "queued", "auth"} => key[r] = NoKey
    /\ key[r] # NoKey /\ msg[r].subject # "check_alias" => key[r] \in owned[r]

\* Every step observes what a caller holds before it may be used.
LEMMA OwnedStep == TypeInv /\ Owned /\ [HNext]_hvars => Owned'
<1> SUFFICES ASSUME TypeInv, Owned, [HNext]_hvars PROVE Owned'
  OBVIOUS
<1>1. CASE HNext
  <2> SUFFICES ASSUME NEW r \in Request
               PROVE  /\ pc'[r] \in {"queued", "auth"} /\ Verifiable(msg'[r]) =>
                           Holdings(profile'[msg'[r].token]) \subseteq owned'[r]
                      /\ pc'[r] \in {"idle", "queued", "auth"} => key'[r] = NoKey
                      /\ key'[r] # NoKey /\ msg'[r].subject # "check_alias" =>
                           key'[r] \in owned'[r]
    BY DEF Owned, Holdings, Identities
  <2>1. Next
    BY <1>1 DEF HNext
  <2>2. owned'[r] = IF pc'[r] \in {"queued", "auth"} /\ Verifiable(msg'[r])
                      THEN owned[r] \cup Holdings(profile'[msg'[r].token])
                      ELSE owned[r]
    BY <1>1 DEF HNext, ObserveRequests
  <2>3. /\ key[r] # NoKey /\ msg[r].subject # "check_alias" => key[r] \in owned[r]
        /\ pc[r] \in {"idle", "queued", "auth"} => key[r] = NoKey
    BY DEF Owned
  <2>4. CASE Identified(r)
    <3>1. pc[r] = "auth" /\ key'[r] = CallerKey(r) /\ CallerMatches(r) # {}
          /\ msg'[r] = msg[r] /\ pc'[r] \in {"read", "exists", "done"}
      BY <2>4 DEF Identified, Kept
    <3>2. Addressed(msg[r]) /\ Verifiable(msg[r])
      BY <3>1 DEF TypeInv, Admitted
    <3>3. CallerKey(r) \in owned[r]
      BY <3>1, <3>2, CallerKeyIsHeld DEF Owned
    <3> QED
      BY <2>2, <3>1, <3>3
  <2>5. CASE Published1(r) \/ Asked(r)
    BY <2>2, <2>3, <2>5 DEF Published1, Asked, Kept
  <2>6. CASE Checked(r)
    BY <2>2, <2>6 DEF Checked, Kept
  <2>7. CASE Wrote(r) \/ Ended(r)
    BY <2>2, <2>3, <2>7 DEF Wrote, Ended, Kept, Waits
  <2>8. CASE Settles(r) \/ Stays(r)
    BY <2>2, <2>3, <2>8 DEF Settles, Stays, Kept
  <2> QED
    BY <2>1, <2>4, <2>5, <2>6, <2>7, <2>8, Footprint
<1>2. CASE UNCHANGED hvars
  BY <1>2 DEF hvars, vars, history, Owned, Verifiable, Holdings, Identities
<1> QED
  BY <1>1, <1>2

\* An authenticated request acts on a key its caller held while it was under
\* way, whatever is relinked between the lookup and the write.
THEOREM OwnershipHolds == HSpec => []OwnershipWindow
<1>1. HInit => Owned
  BY DEF HInit, Init, Owned
<1>2. Owned => OwnershipWindow
  BY DEF Owned, OwnershipWindow
<1> QED
  BY <1>1, <1>2, OwnedStep, BaseInvariant, PTL DEF HSpec
-----------------------------------------------------------------------------
(* Racing first writes.                                                    *)

\* Where nobody removes entries, what was there when a request was published
\* still is, and a POST is only sent where nothing was.
Lasting ==
  \A r \in Request :
    /\ pc[r] # "idle" => present[r] \subseteq PresentKeys
    /\ wire[r] = "POST" => key[r] \notin present[r]

\* Entries last.
LEMMA EntriesLast ==
  ASSUME TypeInv, Removable = {}, Next
  PROVE  PresentKeys \subseteq PresentKeys'
<1> SUFFICES ASSUME NEW k \in Key, Exists(k) PROVE store'[k] # Absent
  BY DEF PresentKeys, Exists
<1>1. CASE store' = store
  BY <1>1 DEF Exists
<1>2. CASE \E r \in Request : ApplyWrite(r)
  <2> PICK r \in Request : ApplyWrite(r)
    BY <1>2
  <2>1. key[r] \in Key /\ store \in [Key -> Entry \cup {Absent}]
    BY DEF TypeInv, TypeOK, Written, ApplyWrite
  <2>2. store' \in [Key -> Entry \cup {Absent}]
    BY TypeInvStep DEF TypeInv, TypeOK
  <2>3. CASE wire[r] = "POST" /\ ~Exists(key[r])
    BY <2>1, <2>3 DEF ApplyWrite, Exists
  <2>4. CASE wire[r] = "PUT"
    <3>1. store' = [store EXCEPT ![key[r]] = Updated(r, @)]
      BY <2>4 DEF ApplyWrite
    <3>2. CASE k = key[r]
      <4>1. store[k] \in Entry /\ store'[k] = Updated(r, store[k])
        BY <2>1, <3>1, <3>2 DEF Exists
      <4>2. Target(r) \in Name
        BY Bodies DEF TypeInv, Written, ApplyWrite
      <4>3. Updated(r, store[k]) \in Entry
        BY <4>1, <4>2, UpdatedIsEntry
      <4> QED
        BY <4>1, <4>3, ServiceAssumption
    <3>3. CASE k # key[r]
      BY <2>1, <3>1, <3>3 DEF Exists
    <3> QED
      BY <3>2, <3>3
  <2> QED
    BY <2>3, <2>4 DEF ApplyWrite
<1> QED
  BY <1>1, <1>2, StoreChanges

\* Every step keeps it.
LEMMA LastingStep ==
  ASSUME Removable = {}, TypeInv, Lasting, [HNext]_hvars
  PROVE  Lasting'
<1>1. CASE HNext
  <2>1. Next /\ PresentKeys \subseteq PresentKeys'
    BY <1>1, EntriesLast DEF HNext
  <2> SUFFICES ASSUME NEW r \in Request
               PROVE  /\ pc'[r] # "idle" => present'[r] \subseteq PresentKeys'
                      /\ wire'[r] = "POST" => key'[r] \notin present'[r]
    BY DEF Lasting
  <2>2. present'[r] = IF Published(r) THEN PresentKeys ELSE present[r]
    BY <1>1 DEF HNext, ObserveRequests
  <2>3. /\ pc[r] # "idle" => present[r] \subseteq PresentKeys
        /\ wire[r] = "POST" => key[r] \notin present[r]
    BY DEF Lasting
  <2>4. wire[r] # "none" => pc[r] # "idle" /\ key'[r] = key[r]
    BY <2>1, WriterKeepsKey
  <2>5. CASE Wrote(r)
    <3>1. present'[r] = present[r] /\ present[r] \subseteq PresentKeys
      BY <2>2, <2>3, <2>5 DEF Wrote, Published
    <3>2. wire'[r] = "POST" => key[r] \notin PresentKeys
      BY <2>5 DEF Wrote, PresentKeys
    <3> QED
      BY <2>1, <2>5, <3>1, <3>2 DEF Wrote
  <2>6. CASE ~Wrote(r)
    <3>1. wire'[r] = "POST" => wire[r] = "POST"
      BY <2>1, <2>6, Footprint DEF Published1, Asked, Checked, Identified, Ended, Settles,
           Stays
    <3>2. pc'[r] # "idle" => Published(r) \/ pc[r] # "idle"
      BY <2>1, Footprint DEF Published, Published1, Asked, Checked, Identified, Wrote,
           Ended, Settles, Stays, Waits
    <3> QED
      BY <2>1, <2>2, <2>3, <2>4, <3>1, <3>2 DEF Published
  <2> QED
    BY <2>5, <2>6
<1>2. CASE UNCHANGED hvars
  BY <1>2 DEF hvars, vars, history, Lasting, PresentKeys, Exists
<1> QED
  BY <1>1, <1>2

\* A first writer that lost the race and tries again takes the update path.
THEOREM RetryTakesUpdatePath == HSpec => []RetryUpdates
<1>1. CASE Removable = {}
  <2>1. HInit => Lasting
    BY DEF HInit, Init, Lasting
  <2>2. Lasting => RetryUpdates
    BY DEF Lasting, RetryUpdates
  <2>3. TypeInv /\ Lasting /\ [HNext]_hvars => Lasting'
    BY <1>1, LastingStep
  <2> QED
    BY <2>1, <2>2, <2>3, BaseInvariant, PTL DEF HSpec
<1>2. CASE Removable # {}
  <2>1. RetryUpdates
    BY <1>2 DEF RetryUpdates
  <2> QED
    BY <2>1, PTL
<1> QED
  BY <1>1, <1>2
-----------------------------------------------------------------------------
(* Lost updates.                                                           *)

\* A request of which its caller does not know whether it took effect.
InDoubt(w) == pc[w] = "lost" \/ outcome[w].error = "forwardemail_error"

\* Replies carry an error code of the service; what was over when a request was
\* published still is; and a request whose write was carried out has replaced,
\* on its key, all that was over before, except what was left in doubt.
Replaced ==
  \A s \in Request :
    /\ pc[s] = "done" => outcome[s] \in ReplyType
    /\ s \notin earlier[s]
    /\ \A w \in earlier[s] : w \in Request /\ Over(w)
    /\ pc[s] = "idle" => earlier[s] = {}
    /\ wire[s] = "applied" =>
         \A w \in earlier[s] \cap writer[key[s]] : InDoubt(w)

\* What a handler returns is a reply.
LEMMA ReturnsReply ==
  ASSUME TypeInv, TypeInv', NEW r \in Request, pc'[r] = "done", pc[r] # "done", Next
  PROVE  outcome'[r] \in ReplyType
<1>1. outcome'[r] \in ReplyType \cup {NoOutcome}
  BY DEF TypeInv, TypeOK
<1>2. PICK q \in Subscription : r \in First(q) /\ HandlerStep(q, r)
  BY MovedByHandler
<1>3. PICK reply : Finish(q, r, reply) /\ reply.error # "pending"
  <2>1. \A t \in Waits : ~Advance(r, t)
    BY DEF Advance, Waits, TypeInv, TypeOK
  <2>2. \A code \in ErrorCode : ErrorReply(code).error # "pending"
    BY DEF ErrorReply, ErrorCode, OK
  <2>3. NotFoundReply.error # "pending"
    BY DEF NotFoundReply, ErrorReply, OK
  <2>4. CASE Refuse(q, r)
    <3>1. PICK code \in EarlyErrors(msg[r]) : Finish(q, r, ErrorReply(code))
      BY <2>4 DEF Refuse
    <3>2. code \in ErrorCode
      BY DEF EarlyErrors, ResolveError, ValidateError, ErrorCode, OK
    <3> QED
      BY <2>2, <3>1, <3>2
  <2>5. CASE AuthAnswersAlias(q, r)
    BY <2>1, <2>2, <2>5 DEF AuthAnswersAlias, ErrorCode, Waits
  <2>6. CASE AuthAnswersNone(q, r)
    BY <2>2, <2>3, <2>6 DEF AuthAnswersNone, ErrorCode
  <2>7. CASE AuthFails(q, r) \/ ReadFails(q, r) \/ WriteFails(q, r)
    BY <2>2, <2>7 DEF AuthFails, ReadFails, WriteFails, ErrorCode
  <2>8. CASE CheckAnswers(q, r) \/ WriteAnswers(q, r)
    <3>1. PICK flag, target : Finish(q, r, [error |-> OK, flag |-> flag,
                                            alias |-> key[r][2], target |-> target])
      BY <2>8 DEF CheckAnswers, WriteAnswers
    <3>2. [error |-> OK, flag |-> flag, alias |-> key[r][2], target |-> target].error
            # "pending"
      BY DEF OK
    <3> QED
      BY <3>1, <3>2
  <2>9. CASE ReadAnswers(q, r)
    <3> DEFINE found == [error |-> OK, flag |-> TRUE, alias |-> key[r][2],
                         target |-> FirstRecipient(store[key[r]])]
    <3>1. Finish(q, r, IF Exists(key[r]) THEN found ELSE NotFoundReply)
      BY <2>9 DEF ReadAnswers
    <3>2. found.error # "pending"
      BY DEF OK
    <3> HIDE DEF found
    <3>3. (IF Exists(key[r]) THEN found ELSE NotFoundReply).error # "pending"
      BY <2>3, <3>2
    <3> QED
      BY <3>1, <3>3
  <2>10. CASE StartCheckAlias(q, r) \/ StartAuthenticated(q, r) \/ ExistsAnswers(q, r)
    BY <2>1, <2>10 DEF StartCheckAlias, StartAuthenticated, ExistsAnswers, Waits
  <2> QED
    BY <1>2, <2>4, <2>5, <2>6, <2>7, <2>8, <2>9, <2>10 DEF HandlerStep
<1>4. outcome'[r] = reply
  BY <1>3 DEF Finish, TypeInv, TypeOK
<1>5. NoOutcome.error = "pending"
  BY DEF NoOutcome, ErrorReply
<1> QED
  BY <1>1, <1>3, <1>4, <1>5

\* A request that is over and not in doubt has no write under way.
LEMMA OverAndSettled ==
  ASSUME TypeInv, Truthful, Replaced, NEW w \in Request, Over(w), ~InDoubt(w)
  PROVE  wire[w] \notin Sent
<1> SUFFICES ASSUME wire[w] \in Sent PROVE FALSE
  OBVIOUS
<1>1. pc[w] = "done" /\ outcome[w] \in ReplyType
  BY DEF Over, InDoubt, Replaced
<1>2. outcome[w].error \in Refusals \/ outcome[w].error = OK
  BY <1>1 DEF InDoubt, ReplyType, Refusals
<1>3. msg[w].subject = "set_target" /\ wire[w] # "none" /\ wire[w] # "applied"
  BY DEF TypeInv, Written, Sent
<1> QED
  BY <1>1, <1>2, <1>3 DEF Truthful

\* When the write of s is carried out it takes the place of whatever an earlier
\* request, that was over and not in doubt, wrote on its key.
LEMMA WriteReplaces ==
  ASSUME TypeInv, Truthful, Replaced, HNext, NEW s \in Request, NEW w \in Request,
         Over(w), wire[s] # "none", wire'[s] = "applied", w \in writer'[key'[s]],
         wire[s] = "applied" /\ w \in writer[key[s]] => InDoubt(w)
  PROVE  InDoubt(w)'
<1>1. Next
  BY DEF HNext
<1>2. InDoubt(w) => InDoubt(w)'
  BY <1>1, OverStays DEF InDoubt
<1>3. key'[s] = key[s] /\ key[s] \in Key
  BY <1>1, WriterKeepsKey DEF TypeInv, Written
<1> DEFINE k == key[s]
           by == {r \in Request : key[r] = k /\ wire'[r] = "applied"
                                             /\ wire[r] # "applied"}
<1>4. writer'[k] = IF by # {} THEN by
                   ELSE IF store'[k] = Absent THEN {} ELSE writer[k]
  BY <1>3 DEF HNext, ObserveStore
<1>5. CASE w \in by
  <2>1. wire[w] \in Sent
    BY <1>1, <1>5, Footprint DEF Published1, Asked, Checked, Identified, Wrote, Ended,
         Settles, Stays
  <2> QED
    BY <1>2, <2>1, OverAndSettled
<1>6. CASE by = {}
  <2>1. wire[s] = "applied"
    BY <1>3, <1>6
  <2>2. w \in writer[key[s]]
    BY <1>3, <1>4, <1>6
  <2> QED
    BY <1>2, <2>1, <2>2
<1> QED
  BY <1>3, <1>4, <1>5, <1>6

\* Every step keeps it.
LEMMA ReplacedStep ==
  ASSUME TypeInv, TypeInv', Truthful, Replaced, [HNext]_hvars
  PROVE  Replaced'
<1>1. CASE HNext
  <2>1. Next
    BY <1>1 DEF HNext
  <2> SUFFICES ASSUME NEW s \in Request
               PROVE  /\ pc'[s] = "done" => outcome'[s] \in ReplyType
                      /\ s \notin earlier'[s]
                      /\ \A w \in earlier'[s] : w \in Request /\ Over(w)'
                      /\ pc'[s] = "idle" => earlier'[s] = {}
                      /\ wire'[s] = "applied" =>
                           \A w \in earlier'[s] \cap writer'[key'[s]] : InDoubt(w)'
    BY DEF Replaced, InDoubt
  <2>2. earlier'[s] = IF Published(s) THEN {w \in Request : Over(w)} ELSE earlier[s]
    BY <1>1 DEF HNext, ObserveRequests
  <2>3. pc'[s] = "done" => outcome'[s] \in ReplyType
    <3>1. CASE pc[s] # "done"
      BY <2>1, <3>1, ReturnsReply
    <3>2. CASE pc[s] = "done"
      BY <2>1, <3>2, OverStays DEF Over, Replaced
    <3> QED
      BY <3>1, <3>2
  <2>4. s \notin earlier'[s]
    BY <2>2 DEF Published, Over, Replaced
  <2>5. \A w \in earlier'[s] : w \in Request /\ Over(w) /\ Over(w)'
    BY <2>1, <2>2, OverStays DEF Replaced
  <2>6. pc'[s] = "idle" => earlier'[s] = {}
    <3>1. pc'[s] = "idle" => pc[s] = "idle"
      BY <2>1, Footprint DEF Published1, Asked, Checked, Identified, Wrote, Ended,
           Settles, Stays, TypeInv, TypeOK
    <3> QED
      BY <2>2, <3>1 DEF Published, Replaced
  <2>7. ASSUME wire'[s] = "applied", NEW w \in earlier'[s], w \in writer'[key'[s]]
        PROVE  InDoubt(w)'
    <3>1. w \in Request /\ Over(w)
      BY <2>5, <2>7
    <3>2. wire[s] \in Sent \cup {"applied"}
      BY <2>1, <2>7, Footprint DEF Published1, Asked, Checked, Identified, Wrote, Ended,
           Settles, Stays
    <3>3. wire[s] # "none"
      BY <3>2 DEF Sent
    <3>4. w \in earlier[s]
      BY <2>1, <2>2, <2>7, <3>3, WriterKeepsKey DEF Published
    <3>5. wire[s] = "applied" /\ w \in writer[key[s]] => InDoubt(w)
      BY <3>4 DEF Replaced
    <3> QED
      BY <1>1, <2>7, <3>1, <3>3, <3>5, WriteReplaces
  <2> QED
    BY <2>3, <2>4, <2>5, <2>6, <2>7
<1>2. CASE UNCHANGED hvars
  BY <1>2 DEF hvars, vars, history, Replaced, Over, InDoubt
<1> QED
  BY <1>1, <1>2

\* A confirmed routing is undone only by a request that was not over when it was
\* published, or whose own failure was reported or unseen: no write of an
\* answered request takes effect after its reply.
THEOREM UpdatesAreNotLost == HSpec => []NoLostUpdate
<1>1. HInit => Replaced
  BY DEF HInit, Init, Replaced
<1>2. TypeInv /\ Truthful /\ Replaced => NoLostUpdate
  <2> SUFFICES ASSUME TypeInv, Truthful, Replaced, NEW s \in Request, NEW w \in Request,
                      Confirmed(s), w \in earlier[s], w \in writer[key[s]]
               PROVE  InDoubt(w)
    BY DEF NoLostUpdate, InDoubt
  <2>1. wire[s] = "applied"
    BY DEF Confirmed, Truthful
  <2> QED
    BY <2>1 DEF Replaced
<1>3. TypeInv /\ TypeInv' /\ Truthful /\ Replaced /\ [HNext]_hvars => Replaced'
  BY ReplacedStep
<1> QED
  BY <1>1, <1>2, <1>3, BaseInvariant, PTL DEF HSpec
-----------------------------------------------------------------------------
(* The order inside a subscription.                                        *)

\* Request w waits before s in a subscription.
Before(w, s) ==
  \E q \in Subscription :
    \E i, j \in DOMAIN queue[q] : i < j /\ queue[q][i] = w /\ queue[q][j] = s

\* What a request found before it in its subscription still waits before it or
\* is over; and once the write of the request was carried out, nothing that was
\* before it has the last word on the key, except what was left in doubt.
InLine ==
  \A s \in Request : \A w \in ahead[s] :
    /\ w \in Request /\ w # s /\ pc[s] # "idle"
    /\ Over(w) \/ (pc[s] = "queued" /\ Before(w, s))
    /\ wire[s] = "applied" /\ w \in writer[key[s]] => InDoubt(w)

\* A message keeps its place behind the ones before it until those are over.
LEMMA BeforeUntilOver ==
  ASSUME TypeInv, QueueDiscipline, Next, NEW s \in Request, NEW w \in Request,
         pc[s] = "queued", Before(w, s)
  PROVE  Over(w)' \/ (pc'[s] = "queued" /\ Before(w, s)')
<1> PICK u \in Subscription :
      \E i, j \in DOMAIN queue[u] : i < j /\ queue[u][i] = w /\ queue[u][j] = s
  BY DEF Before
<1> PICK i \in DOMAIN queue[u], j \in DOMAIN queue[u] :
      i < j /\ queue[u][i] = w /\ queue[u][j] = s
  OBVIOUS
<1>1. /\ queue \in [Subscription -> Seq(Request)] /\ pc \in [Request -> Stage]
      /\ queue[u] \in Seq(Request)
  BY DEF TypeInv, TypeOK
<1>2. i \in 1..Len(queue[u]) /\ j \in 1..Len(queue[u]) /\ j # 1
  BY <1>1
<1>3. CASE \E r \in Request, m \in Payload, p \in Replica : Publish(r, m, p)
  <2> PICK r \in Request, m \in Payload, p \in Replica : Publish(r, m, p)
    BY <1>3
  <2>1. pc'[s] = "queued"
    BY <1>1 DEF Publish
  <2>2. queue' = [queue EXCEPT ![<<p, m.subject>>] = Append(@, r)]
    BY DEF Publish
  <2>3. queue'[u] = queue[u] \/ queue'[u] = Append(queue[u], r)
    BY <1>1, <2>2
  <2>4. /\ i \in DOMAIN queue'[u] /\ queue'[u][i] = queue[u][i]
        /\ j \in DOMAIN queue'[u] /\ queue'[u][j] = queue[u][j]
    BY <1>1, <1>2, <2>3, AppendProperties
  <2> QED
    BY <2>1, <2>4 DEF Before
<1>4. CASE \E q \in Subscription : \E r \in First(q) : HandlerStep(q, r)
  <2> PICK q \in Subscription : \E r \in First(q) : HandlerStep(q, r)
    BY <1>4
  <2> PICK r \in First(q) : HandlerStep(q, r)
    OBVIOUS
  <2>1. (\E reply : Finish(q, r, reply)) \/ (\E t \in Waits : Advance(r, t))
    BY DEF HandlerStep, Refuse, StartCheckAlias, StartAuthenticated,
       AuthAnswersAlias, AuthAnswersNone, AuthFails, CheckAnswers, ReadAnswers,
       ExistsAnswers, ReadFails, WriteAnswers, WriteFails, Waits
  <2>2. r \in Request /\ 1 \in DOMAIN queue[q] /\ r = queue[q][1]
    BY FirstOfQueue DEF First, TypeInv
  <2>3. r # s
    BY <1>2, <2>2, OnePlace
  <2>4. r = w <=> u = q /\ i = 1
    BY <2>2, OnePlace
  <2>5. CASE \E t \in Waits : Advance(r, t)
    <3>1. pc'[s] = "queued" /\ queue' = queue
      BY <1>1, <2>3, <2>5 DEF Advance
    <3> QED
      BY <3>1 DEF Before
  <2>6. CASE \E reply : Finish(q, r, reply)
    <3>1. /\ pc' = [pc EXCEPT ![r] = "done"]
          /\ queue' = [queue EXCEPT ![q] = Tail(@)]
      BY <2>6 DEF Finish
    <3>2. CASE r = w
      BY <1>1, <3>1, <3>2 DEF Over
    <3>3. CASE r # w
      <4>1. pc'[s] = "queued"
        BY <1>1, <2>3, <3>1
      <4>2. CASE u # q
        <5>1. queue'[u] = queue[u]
          BY <1>1, <3>1, <4>2
        <5> QED
          BY <4>1, <5>1 DEF Before
      <4>3. CASE u = q
        <5>1. i # 1 /\ queue[u] # <<>> /\ queue'[u] = Tail(queue[u])
          BY <1>1, <1>2, <2>4, <3>1, <3>3, <4>3
        <5>2. /\ i - 1 \in DOMAIN queue'[u] /\ queue'[u][i - 1] = w
              /\ j - 1 \in DOMAIN queue'[u] /\ queue'[u][j - 1] = s
          BY <1>1, <1>2, <5>1, HeadTailProperties
        <5>3. i - 1 < j - 1
          BY <1>2
        <5> QED
          BY <4>1, <5>2, <5>3 DEF Before
      <4> QED
        BY <4>2, <4>3
    <3> QED
      BY <3>2, <3>3
  <2> QED
    BY <2>1, <2>5, <2>6
<1>5. CASE \E p \in Replica : Exit(p)
  <2> PICK p \in Replica : Exit(p)
    BY <1>5
  <2>1. /\ pc' = [r \in Request |-> IF Holds(p, r) THEN "lost" ELSE pc[r]]
        /\ queue' = [q \in Subscription |-> IF q[1] = p THEN <<>> ELSE queue[q]]
    BY DEF Exit
  <2>2. CASE u[1] = p
    <3>1. u[2] \in Subject /\ u = <<p, u[2]>>
      BY <2>2 DEF Subscription
    <3>2. Holds(p, w)
      BY <3>1 DEF Holds, Range
    <3> QED
      BY <2>1, <3>2 DEF Over
  <2>3. CASE u[1] # p
    <3>1. ASSUME Holds(p, s) PROVE FALSE
      <4>1. PICK t \in Subject : s \in Range(queue[<<p, t>>])
        BY <3>1 DEF Holds
      <4>2. PICK l \in DOMAIN queue[<<p, t>>] : queue[<<p, t>>][l] = s
        BY <4>1 DEF Range
      <4>3. <<p, t>> \in Subscription
        BY DEF Subscription
      <4>4. <<p, t>> = u
        BY <4>2, <4>3, OnePlace
      <4> QED
        BY <2>3, <4>4
    <3>2. pc'[s] = "queued" /\ queue'[u] = queue[u]
      BY <2>1, <2>3, <3>1
    <3> QED
      BY <3>2 DEF Before
  <2> QED
    BY <2>2, <2>3
<1>6. CASE \/ \E r \in Request : ApplyWrite(r) \/ RejectWrite(r)
           \/ \E p \in Replica : Restart(p)
           \/ \E v \in User, f \in Profile : Relink(v, f)
           \/ \E k \in Removable : Remove(k)
  <2>1. UNCHANGED <<pc, queue>>
    BY <1>6 DEF ApplyWrite, RejectWrite, Restart, Relink, Remove, local
  <2> QED
    BY <2>1 DEF Before
<1> QED
  BY <1>3, <1>4, <1>5, <1>6 DEF Next

\* Every step keeps requests in line.
LEMMA InLineStep ==
  ASSUME TypeInv, TypeInv', QueueDiscipline, QueueDiscipline', Truthful, Replaced,
         InLine, [HNext]_hvars
  PROVE  InLine'
<1>1. CASE HNext
  <2>1. Next
    BY <1>1 DEF HNext
  <2> SUFFICES ASSUME NEW s \in Request, NEW w \in ahead'[s]
               PROVE  /\ w \in Request /\ w # s /\ pc'[s] # "idle"
                      /\ Over(w)' \/ (pc'[s] = "queued" /\ Before(w, s)')
                      /\ wire'[s] = "applied" /\ w \in writer'[key'[s]] => InDoubt(w)'
    BY DEF InLine
  <2>2. ahead'[s] = IF Published(s) THEN {r \in Request : Precedes(r, s)} ELSE ahead[s]
    BY <1>1 DEF HNext, ObserveRequests
  <2>3. CASE Published(s)
    <3>1. w \in Request /\ Before(w, s)' /\ pc[s] = "idle" /\ pc'[s] = "queued"
      BY <2>2, <2>3 DEF Published, Precedes, Before
    <3>2. w # s
      <4>1. PICK q \in Subscription :
              \E i, j \in DOMAIN queue'[q] :
                i < j /\ queue'[q][i] = w /\ queue'[q][j] = s
        BY <3>1 DEF Before
      <4>2. PICK i \in DOMAIN queue'[q], j \in DOMAIN queue'[q] :
              i < j /\ queue'[q][i] = w /\ queue'[q][j] = s
        BY <4>1
      <4>3. queue'[q] \in Seq(Request)
        BY DEF TypeInv, TypeOK
      <4>4. i \in Nat /\ j \in Nat
        BY <4>3
      <4>5. w = s => i = j
        BY <4>2 DEF QueueDiscipline
      <4> QED
        BY <4>2, <4>4, <4>5
    <3>3. wire'[s] = "none"
      BY <2>1, <3>1, Footprint DEF Published1, Asked, Checked, Identified, Wrote, Ended,
           Settles, Stays, TypeInv, Written, Waits
    <3> QED
      BY <3>1, <3>2, <3>3
  <2>4. CASE ~Published(s)
    <3>1. /\ w \in ahead[s] /\ w \in Request /\ w # s /\ pc[s] # "idle"
          /\ Over(w) \/ (pc[s] = "queued" /\ Before(w, s))
          /\ wire[s] = "applied" /\ w \in writer[key[s]] => InDoubt(w)
      BY <2>2, <2>4 DEF InLine
    <3>2. pc'[s] # "idle"
      BY <2>1, <3>1, Footprint DEF Published1, Asked, Checked, Identified, Wrote, Ended,
           Settles, Stays
    <3>3. Over(w)' \/ (pc'[s] = "queued" /\ Before(w, s)')
      BY <2>1, <3>1, OverStays, BeforeUntilOver
    <3>4. ASSUME wire'[s] = "applied", w \in writer'[key'[s]]
          PROVE  InDoubt(w)'
      <4>1. wire[s] \in Sent \cup {"applied"}
        BY <2>1, <3>4, Footprint DEF Published1, Asked, Checked, Identified, Wrote, Ended,
             Settles, Stays
      <4>2. wire[s] # "none" /\ pc[s] # "queued"
        BY <4>1 DEF Sent, TypeInv, Written
      <4> QED
        BY <1>1, <3>1, <3>4, <4>2, WriteReplaces
    <3> QED
      BY <3>1, <3>2, <3>3, <3>4
  <2> QED
    BY <2>3, <2>4
<1>2. CASE UNCHANGED hvars
  BY <1>2 DEF hvars, vars, history, InLine, Over, InDoubt, Before
<1> QED
  BY <1>1, <1>2

\* A message that waits behind another of its key in one subscription has the
\* last word, when both are confirmed, whatever happens at other replicas.
THEOREM SubscriptionOrderHolds == HSpec => []OrderKept
<1>1. HInit => QueueDiscipline /\ Replaced /\ InLine
  BY DEF HInit, Init, QueueDiscipline, Waits, Replaced, InLine
<1>2. TypeInv /\ Truthful /\ InLine => OrderKept
  <2> SUFFICES ASSUME TypeInv, Truthful, InLine, NEW s \in Request, NEW w \in Request,
                      Confirmed(s), Confirmed(w), w \in ahead[s], w \in writer[key[s]]
               PROVE  FALSE
    BY DEF OrderKept
  <2>1. wire[s] = "applied"
    BY DEF Confirmed, Truthful
  <2>2. InDoubt(w)
    BY <2>1 DEF InLine
  <2> QED
    BY <2>2 DEF InDoubt, Confirmed, OK
<1>3. TypeInv /\ QueueDiscipline /\ [HNext]_hvars => QueueDiscipline'
  <2>1. [HNext]_hvars => [Next]_vars
    BY DEF HNext, hvars
  <2> QED
    BY <2>1, QueuesStep
<1>4. TypeInv /\ TypeInv' /\ Truthful /\ Replaced /\ [HNext]_hvars => Replaced'
  BY ReplacedStep
<1>5. /\ TypeInv /\ TypeInv' /\ QueueDiscipline /\ QueueDiscipline' /\ Truthful
      /\ Replaced /\ InLine /\ [HNext]_hvars
      => InLine'
  BY InLineStep
<1> QED
  BY <1>1, <1>2, <1>3, <1>4, <1>5, BaseInvariant, PTL DEF HSpec
-----------------------------------------------------------------------------
(* Reading after writing.                                                  *)

\* The three ways to return without an error from a get_forward come down to two:
\* no alias, or what the store shows at the moment.
LEMMA AnswerOfGet ==
  ASSUME TypeInv, Next, NEW g \in Request, msg[g].subject = "get_forward",
         pc[g] # "done", pc'[g] = "done", outcome'[g].error = OK
  PROVE  /\ key'[g] = key[g] /\ store' = store
         /\ \/ pc[g] = "auth"
            \/ outcome'[g] = IF Exists(key[g])
                               THEN [error |-> OK, flag |-> TRUE, alias |-> key[g][2],
                                     target |-> FirstRecipient(store[key[g]])]
                               ELSE NotFoundReply
<1>1. PICK q \in Subscription : g \in First(q) /\ HandlerStep(q, g)
  BY MovedByHandler
<1>2. \A s \in Waits : ~Advance(g, s)
  BY DEF Advance, Waits, TypeInv, TypeOK
<1>3. \A reply : Finish(q, g, reply) => outcome'[g] = reply
  BY DEF Finish, TypeInv, TypeOK
<1>4. \A code : ErrorReply(code).error = code
  BY DEF ErrorReply
<1>5. ~Refuse(q, g)
  BY <1>3, <1>4 DEF Refuse, EarlyErrors, ResolveError, ValidateError, Addressed, OK
<1>6. ~AuthFails(q, g) /\ ~ReadFails(q, g) /\ ~WriteFails(q, g)
  BY <1>3, <1>4 DEF AuthFails, ReadFails, WriteFails, OK
<1>7. /\ ~StartCheckAlias(q, g) /\ ~StartAuthenticated(q, g) /\ ~ExistsAnswers(q, g)
      /\ ~AuthAnswersAlias(q, g)
  BY <1>2 DEF StartCheckAlias, StartAuthenticated, ExistsAnswers, AuthAnswersAlias, Waits
<1>8. ~CheckAnswers(q, g) /\ ~WriteAnswers(q, g)
  BY DEF CheckAnswers, WriteAnswers, Serves, TypeInv, Admitted
<1>9. CASE AuthAnswersNone(q, g)
  BY <1>9 DEF AuthAnswersNone, Serves, remote
<1>10. CASE ReadAnswers(q, g)
  BY <1>3, <1>10 DEF ReadAnswers, remote
<1> QED
  BY <1>1, <1>5, <1>6, <1>7, <1>8, <1>9, <1>10 DEF HandlerStep

\* Every other write that was carried out on the key of s had been confirmed when
\* s was published.
Alone(s) ==
  \A w \in Request \ {s} :
    key[w] = key[s] /\ wire[w] = "applied" => w \in earlier[s] /\ Confirmed(w)

\* Where nobody removes entries, the routing of such a request is there to stay,
\* and a get_forward published after its reply has read it.
ReadsBack ==
  \A s \in Request : Alone(s) =>
    /\ wire[s] = "applied" =>
         store[key[s]] \in Entry /\ store[key[s]].recipients = <<Target(s)>>
    /\ \A g \in Request :
         /\ Confirmed(s) /\ s \in earlier[g]
         /\ msg[g].subject = "get_forward" /\ key[g] = key[s]
         /\ pc[g] = "done" /\ outcome[g].error = OK
         => outcome[g] = [error |-> OK, flag |-> TRUE, alias |-> key[s][2],
                          target |-> Target(s)]

\* What was confirmed when another request was published was confirmed before, and
\* its reply and its message are the same.
LEMMA ConfirmedBefore ==
  ASSUME TypeInv, Next, Truthful, NEW w \in Request, Over(w), Confirmed(w)'
  PROVE  /\ Confirmed(w) /\ key'[w] = key[w] /\ msg'[w] = msg[w]
         /\ wire[w] = "applied" /\ Target(w)' = Target(w)
<1>1. /\ pc'[w] \in {pc[w], "lost"} /\ outcome'[w] = outcome[w] /\ msg'[w] = msg[w]
      /\ key'[w] = key[w]
  BY OverStays DEF Kept
<1>2. Confirmed(w)
  BY <1>1 DEF Confirmed
<1> QED
  BY <1>1, <1>2 DEF Truthful, Confirmed, Target

\* A write is carried out once.
LEMMA AppliedStays ==
  ASSUME TypeInv, Next, NEW w \in Request, wire[w] = "applied"
  PROVE  wire'[w] = "applied" /\ key'[w] = key[w] /\ msg'[w] = msg[w] /\ pc[w] # "idle"
<1>1. wire[w] # "none" /\ wire[w] \notin Sent
  BY DEF Sent
<1> QED
  BY <1>1, WriterKeepsKey, Footprint DEF Kept, Published1, Asked, Checked, Identified, Wrote,
     Ended, Settles, Stays, TypeInv, Written

\* Whoever is alone after a step was alone before it.
LEMMA AloneBefore ==
  ASSUME TypeInv, Truthful, Replaced, HNext, NEW s \in Request, wire[s] # "none",
         Alone(s)'
  PROVE  Alone(s)
<1>1. Next /\ key'[s] = key[s] /\ pc[s] # "idle"
  BY WriterKeepsKey DEF HNext
<1>2. earlier'[s] = earlier[s]
  BY <1>1 DEF HNext, ObserveRequests, Published
<1> SUFFICES ASSUME NEW w \in Request \ {s}, key[w] = key[s], wire[w] = "applied"
             PROVE  w \in earlier[s] /\ Confirmed(w)
  BY DEF Alone
<1>3. wire'[w] = "applied" /\ key'[w] = key[w]
  BY <1>1, AppliedStays
<1>4. w \in earlier[s] /\ Confirmed(w)'
  BY <1>1, <1>2, <1>3 DEF Alone
<1>5. Over(w)
  BY <1>4 DEF Replaced
<1> QED
  BY <1>1, <1>4, <1>5, ConfirmedBefore

\* A step leaves the routing of a request that is alone as it is: who could still
\* write was confirmed before, and a confirmed write is not sent twice.
LEMMA RoutingStays ==
  ASSUME TypeInv, TypeInv', Truthful, Replaced, ReadsBack, HNext, Removable = {},
         NEW s \in Request, wire'[s] = "applied", Alone(s)'
  PROVE  store'[key'[s]] \in Entry /\ store'[key'[s]].recipients = <<Target(s)'>>
<1>1. Next
  BY DEF HNext
<1>2. wire[s] \in Sent \cup {"applied"}
  BY <1>1, Footprint DEF Published1, Asked, Checked, Identified, Wrote, Ended, Settles,
       Stays
<1>3. wire[s] # "none"
  BY <1>2 DEF Sent
<1>4. /\ key'[s] = key[s] /\ key[s] \in Key /\ Target(s)' = Target(s) /\ Target(s) \in Name
      /\ pc[s] # "idle" /\ Alone(s)
  BY <1>1, <1>3, WriterKeepsKey, AloneBefore, Bodies DEF TypeInv, Written, Kept, Target
<1>5. store \in [Key -> Entry \cup {Absent}]
  BY DEF TypeInv, TypeOK
<1>6. CASE wire[s] # "applied"
  <2>1. ApplyWrite(s)
    BY <1>1, <1>3, <1>6, Footprint DEF Published1, Asked, Checked, Identified, Wrote,
       Ended, Settles, Stays
  <2>2. CASE ~Exists(key[s]) /\ store' = [store EXCEPT ![key[s]] = Created(s)]
    <3>1. store'[key[s]] = Created(s)
      BY <1>4, <1>5, <2>2
    <3>2. Created(s) \in Entry
      <4>1. msg[s].token \in User \cup {NoUser}
        BY <1>4, Bodies DEF TypeInv
      <4> QED
        BY <1>4, <4>1 DEF Created, Entry
    <3> QED
      BY <1>4, <3>1, <3>2 DEF Created
  <2>3. CASE Exists(key[s]) /\ store' = [store EXCEPT ![key[s]] = Updated(s, @)]
    <3>1. store[key[s]] \in Entry /\ store'[key[s]] = Updated(s, store[key[s]])
      BY <1>4, <1>5, <2>3 DEF Exists
    <3>2. Updated(s, store[key[s]]) \in Entry
      BY <1>4, <3>1, UpdatedIsEntry
    <3>3. Updated(s, store[key[s]]).recipients = <<Target(s)>>
      BY <3>1 DEF Updated, Entry
    <3> QED
      BY <1>4, <3>1, <3>2, <3>3
  <2> QED
    BY <2>1, <2>2, <2>3 DEF ApplyWrite
<1>7. CASE wire[s] = "applied"
  <2>1. store[key[s]] \in Entry /\ store[key[s]].recipients = <<Target(s)>>
    BY <1>4, <1>7 DEF ReadsBack
  <2>2. CASE \E w \in Request : ApplyWrite(w) /\ key[w] = key[s]
    <3>1. PICK w \in Request : ApplyWrite(w) /\ key[w] = key[s]
      BY <2>2
    <3>2. /\ wire[w] \in Sent /\ wire'[w] = "applied" /\ key' = key /\ w # s
          /\ earlier'[s] = earlier[s]
      BY <1>4, <1>7, <3>1
         DEF ApplyWrite, Sent, HNext, ObserveRequests, Published, TypeInv, TypeOK
    <3>3. w \in earlier[s] /\ Confirmed(w)'
      BY <3>1, <3>2 DEF Alone
    <3>4. wire[w] = "applied"
      BY <1>1, <3>3, ConfirmedBefore DEF Replaced
    <3> QED
      BY <3>2, <3>4 DEF Sent
  <2>3. CASE ~ \E w \in Request : ApplyWrite(w) /\ key[w] = key[s]
    <3>1. store'[key[s]] = store[key[s]]
      <4>1. CASE store' = store
        BY <4>1
      <4>2. CASE \E w \in Request : ApplyWrite(w)
        BY <1>4, <1>5, <2>3, <4>2 DEF ApplyWrite
      <4> QED
        BY <1>1, <4>1, <4>2, StoreChanges
    <3> QED
      BY <1>4, <2>1, <3>1
  <2> QED
    BY <2>2, <2>3
<1> QED
  BY <1>6, <1>7

\* Nobody's key is a key of the store.
LEMMA NoKeyIsNoKey == NoKey \notin Key
  BY ConfigAssumption DEF NoKey, Key, Range

\* Every step keeps it.
LEMMA ReadsBackStep ==
  ASSUME Removable = {}, TypeInv, TypeInv', Truthful, Replaced, Owned, ReadsBack,
         [HNext]_hvars
  PROVE  ReadsBack'
<1>1. CASE HNext
  <2>1. Next
    BY <1>1 DEF HNext
  <2> SUFFICES ASSUME NEW s \in Request, Alone(s)'
               PROVE  /\ wire'[s] = "applied" =>
                           /\ store'[key'[s]] \in Entry
                           /\ store'[key'[s]].recipients = <<Target(s)'>>
                      /\ \A g \in Request :
                           /\ Confirmed(s)' /\ s \in earlier'[g]
                           /\ msg'[g].subject = "get_forward" /\ key'[g] = key'[s]
                           /\ pc'[g] = "done" /\ outcome'[g].error = OK
                           => outcome'[g] = [error |-> OK, flag |-> TRUE,
                                             alias |-> key'[s][2], target |-> Target(s)']
    BY DEF ReadsBack
  <2>2. wire'[s] = "applied" =>
          store'[key'[s]] \in Entry /\ store'[key'[s]].recipients = <<Target(s)'>>
    BY <1>1, RoutingStays
  <2>3. ASSUME NEW g \in Request, Confirmed(s)', s \in earlier'[g],
               msg'[g].subject = "get_forward", key'[g] = key'[s],
               pc'[g] = "done", outcome'[g].error = OK
        PROVE  outcome'[g] = [error |-> OK, flag |-> TRUE,
                              alias |-> key'[s][2], target |-> Target(s)']
    <3>1. pc[g] # "idle" /\ msg'[g] = msg[g]
      BY <2>1, <2>3, Footprint DEF Published1, Asked, Checked, Identified, Wrote, Ended,
         Settles, Stays, Kept, Waits
    <3>2. earlier'[g] = earlier[g]
      BY <1>1, <3>1 DEF HNext, ObserveRequests, Published
    <3>3. Over(s)
      BY <2>3, <3>2 DEF Replaced
    <3>4. /\ Confirmed(s) /\ key'[s] = key[s] /\ wire[s] = "applied"
          /\ Target(s)' = Target(s)
      BY <2>1, <2>3, <3>3, ConfirmedBefore
    <3>5. Alone(s) /\ key[s] \in Key
      BY <1>1, <3>4, AloneBefore DEF TypeInv, Written
    <3>6. CASE pc[g] = "done"
      <4>1. outcome'[g] = outcome[g] /\ key'[g] = key[g]
        BY <2>1, <3>6, OverStays DEF Over
      <4> QED
        BY <2>3, <3>1, <3>2, <3>4, <3>5, <3>6, <4>1 DEF ReadsBack
    <3>7. CASE pc[g] # "done"
      <4>1. key'[g] = key[g]
        BY <2>1, <2>3, <3>1, <3>7, AnswerOfGet
      <4>2. pc[g] # "auth"
        BY <2>3, <3>4, <3>5, <4>1, NoKeyIsNoKey DEF Owned
      <4>3. outcome'[g] = IF Exists(key[s])
                            THEN [error |-> OK, flag |-> TRUE, alias |-> key[s][2],
                                  target |-> FirstRecipient(store[key[s]])]
                            ELSE NotFoundReply
        BY <2>1, <2>3, <3>1, <3>4, <3>7, <4>1, <4>2, AnswerOfGet
      <4>4. store[key[s]] \in Entry /\ store[key[s]].recipients = <<Target(s)>>
        BY <3>4, <3>5 DEF ReadsBack
      <4>5. Exists(key[s]) /\ FirstRecipient(store[key[s]]) = Target(s)
        <5>1. <<Target(s)>> # <<>> /\ Head(<<Target(s)>>) = Target(s)
          OBVIOUS
        <5> QED
          BY <4>4, <5>1, ServiceAssumption DEF Exists, FirstRecipient
      <4> QED
        BY <3>4, <4>3, <4>5
    <3> QED
      BY <3>6, <3>7
  <2> QED
    BY <2>2, <2>3
<1>2. CASE UNCHANGED hvars
  BY <1>2 DEF hvars, vars, history, ReadsBack, Alone, Confirmed, Target
<1> QED
  BY <1>1, <1>2

\* A get_forward that is published after a confirmed set_target of its key reads
\* what that wrote, unless another one may still have come in between.
THEOREM ReadsFollowWrites == HSpec => []ReadAfterWrite
<1>1. CASE Removable = {}
  <2>1. HInit => Replaced /\ Owned /\ ReadsBack
    BY DEF HInit, Init, Replaced, Owned, ReadsBack
  <2>2. TypeInv /\ Truthful /\ ReadsBack => ReadAfterWrite
    <3> SUFFICES ASSUME TypeInv, Truthful, ReadsBack, NEW s \in Request, NEW g \in Request,
                        Confirmed(s), s \in earlier[g],
                        msg[g].subject = "get_forward", key[g] = key[s],
                        pc[g] = "done", outcome[g].error = OK,
                        \A w \in Request \ {s} :
                          key[w] = key[s] /\ msg[w].subject = "set_target" => Settled(w, s)
                 PROVE  outcome[g] = [error |-> OK, flag |-> TRUE, alias |-> key[s][2],
                                      target |-> Target(s)]
      BY DEF ReadAfterWrite
    <3>1. Alone(s)
      BY DEF Alone, Settled, TypeInv, Written
    <3> QED
      BY <3>1 DEF ReadsBack
  <2>3. TypeInv /\ TypeInv' /\ Truthful /\ Replaced /\ [HNext]_hvars => Replaced'
    BY ReplacedStep
  <2>4. TypeInv /\ Owned /\ [HNext]_hvars => Owned'
    BY OwnedStep
  <2>5. TypeInv /\ TypeInv' /\ Truthful /\ Replaced /\ Owned /\ ReadsBack /\ [HNext]_hvars
        => ReadsBack'
    BY <1>1, ReadsBackStep
  <2> QED
    BY <2>1, <2>2, <2>3, <2>4, <2>5, BaseInvariant, PTL DEF HSpec
<1>2. CASE Removable # {}
  <2>1. ReadAfterWrite
    BY <1>2 DEF ReadAfterWrite
  <2> QED
    BY <2>1, PTL
<1> QED
  BY <1>1, <1>2
-----------------------------------------------------------------------------
(* The history variables.                                                  *)

\* All that a user's addresses are worth is keys of the store.
LEMMA HoldingsType ==
  ASSUME NEW addresses \in ProfileType
  PROVE  Holdings(addresses) \subseteq Key
<1>1. \A e \in Identities(addresses) : Lower[e.local] \in Name
  <2> SUFFICES ASSUME NEW e \in Identities(addresses) PROVE Lower[e.local] \in Name
    OBVIOUS
  <2>1. addresses.alternate \in Seq(Email) /\ addresses.primary \in Email
    BY DEF ProfileType
  <2>2. e \in Email
    BY <2>1 DEF Identities, Range
  <2> QED
    BY <2>2, NameAssumption DEF Email
<1> QED
  BY <1>1 DEF Holdings, Key

\* The observers keep the types of what they record.
LEMMA HTypeStep == HTypeOK /\ TypeInv' /\ [HNext]_hvars => HTypeOK'
<1> SUFFICES ASSUME HTypeOK, TypeInv', [HNext]_hvars PROVE HTypeOK'
  OBVIOUS
<1>1. CASE HNext
  <2>1. earlier' \in [Request -> SUBSET Request] /\ ahead' \in [Request -> SUBSET Request]
    BY <1>1 DEF HNext, ObserveRequests, HTypeOK
  <2>2. present' \in [Request -> SUBSET Key]
    BY <1>1 DEF HNext, ObserveRequests, HTypeOK, PresentKeys
  <2>3. owned' \in [Request -> SUBSET Key]
    <3>1. \A r \in Request : Verifiable(msg'[r]) => profile'[msg'[r].token] \in ProfileType
      BY ServiceAssumption DEF TypeInv, TypeOK, Verifiable
    <3>2. \A r \in Request : Verifiable(msg'[r]) =>
            Holdings(profile'[msg'[r].token]) \subseteq Key
      BY <3>1, HoldingsType
    <3> QED
      BY <1>1, <3>2 DEF HNext, ObserveRequests, HTypeOK
  <2>4. writer' \in [Key -> SUBSET Request]
    BY <1>1 DEF HNext, ObserveStore, HTypeOK
  <2> QED
    BY <2>1, <2>2, <2>3, <2>4 DEF HTypeOK, TypeInv
<1>2. CASE UNCHANGED hvars
  BY <1>2 DEF hvars, vars, history, HTypeOK, TypeInv
<1> QED
  BY <1>1, <1>2

\* Every variable, the observers included, keeps its type.
THEOREM HistoryTypeCorrect == HSpec => []HTypeOK
<1>1. HInit => HTypeOK
  BY TypeInvInit DEF HInit, HTypeOK, TypeInv
<1> QED
  BY <1>1, HTypeStep, BaseInvariant, PTL DEF HSpec
=============================================================================
