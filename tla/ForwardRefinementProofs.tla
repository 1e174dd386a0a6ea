----------------------- MODULE ForwardRefinementProofs -----------------------
(***************************************************************************)
(* ForwardService implements the two abstract specifications of it, for    *)
(* every set of requests, replicas, users and messages.                    *)
(*                                                                         *)
(*  - Delivery: each step of a handler is a step of the queue group, or    *)
(*    shows nothing of itself outside.                                     *)
(*  - RoutingDirectory: each request is opened, answered, refused or given *)
(*    up in one step, takes effect in one step, and no step does two.      *)
(***************************************************************************)
EXTENDS ForwardDelivery, ForwardRefinement, ForwardHistoryProofs

(* The queue group.                                                        *)

\* What is seen of a stage from outside.
Seen(s) == IF s = "idle" THEN "new" ELSE IF s \in Waits THEN "served" ELSE s

\* A step that takes one request to another stage does so outside too.
LEMMA StageMoves ==
  ASSUME TypeOK, NEW r \in Request, NEW s, pc' = [pc EXCEPT ![r] = s]
  PROVE  StageBar' = [StageBar EXCEPT ![r] = Seen(s)]
<1>1. pc \in [Request -> Stage]
  BY DEF TypeOK
<1>2. \A t \in Request : pc'[t] = IF t = r THEN s ELSE pc[t]
  BY <1>1
<1> QED
  BY <1>2 DEF StageBar, Seen

\* A handler that returns ends the first message of its subscription.
LEMMA FinishEnds ==
  ASSUME TypeOK, NEW q \in Subscription, NEW r \in First(q), NEW reply,
         pc[r] \in {"queued"} \cup Waits, Finish(q, r, reply), UNCHANGED up
  PROVE  Group!Next
<1>1. /\ r \in Request /\ queue[q] \in Seq(Request) /\ queue[q] # <<>>
      /\ r = queue[q][1]
  BY FirstOfQueue
<1>2. StageBar' = [StageBar EXCEPT ![r] = "done"]
  BY <1>1, StageMoves DEF Finish, Seen, Waits
<1>3. StageBar[r] \in {"queued", "served"}
  BY <1>1 DEF StageBar, Waits
<1>4. r = Head(queue[q])
  BY <1>1
<1>5. Group!End(r, q)
  BY <1>1, <1>2, <1>3, <1>4 DEF Group!End, Group!IsFirst, Finish
<1>6. q \in Group!Subscription
  BY DEF Group!Subscription, Subscription
<1> QED
  BY <1>1, <1>5, <1>6 DEF Group!Next

\* A handler that goes on serves its message, or is seen to do nothing.
LEMMA AdvanceServes ==
  ASSUME TypeOK, NEW q \in Subscription, NEW r \in First(q), NEW s \in Waits,
         pc[r] \in {"queued"} \cup Waits, Advance(r, s), UNCHANGED up
  PROVE  Group!Next \/ UNCHANGED Group!vars
<1>1. /\ r \in Request /\ queue[q] \in Seq(Request) /\ queue[q] # <<>>
      /\ r = queue[q][1]
  BY FirstOfQueue
<1>2. StageBar' = [StageBar EXCEPT ![r] = "served"]
  BY <1>1, StageMoves DEF Advance, Seen, Waits
<1>3. queue' = queue
  BY DEF Advance
<1>4. CASE pc[r] = "queued"
  <2>1. StageBar[r] = "queued"
    BY <1>1, <1>4 DEF StageBar, Waits
  <2>2. r = Head(queue[q])
    BY <1>1
  <2>3. Group!Serve(r, q)
    BY <1>1, <1>2, <1>3, <2>1, <2>2 DEF Group!Serve, Group!IsFirst
  <2>4. q \in Group!Subscription
    BY DEF Group!Subscription, Subscription
  <2> QED
    BY <1>1, <2>3, <2>4 DEF Group!Next
<1>5. CASE pc[r] \in Waits
  <2>1. StageBar[r] = "served"
    BY <1>1, <1>5 DEF StageBar, Waits
  <2>2. StageBar' = StageBar
    BY <1>2, <2>1 DEF StageBar
  <2> QED
    BY <1>3, <2>2 DEF Group!vars
<1> QED
  BY <1>4, <1>5

\* Every step is a step of the queue group, or shows nothing of itself.
LEMMA StepOfGroup ==
  ASSUME TypeOK, [Next]_vars
  PROVE  Group!Next \/ UNCHANGED Group!vars
<1>1. CASE \E r \in Request, m \in Payload, p \in Replica : Publish(r, m, p)
  <2> PICK r \in Request, m \in Payload, p \in Replica : Publish(r, m, p)
    BY <1>1
  <2>1. StageBar' = [StageBar EXCEPT ![r] = "queued"]
    BY StageMoves DEF Publish, Seen, Waits
  <2>2. StageBar[r] = "new" /\ <<p, m.subject>>[1] = p
    BY DEF StageBar, Publish
  <2>3. Group!Take(r, <<p, m.subject>>)
    BY <2>1, <2>2 DEF Group!Take, Publish
  <2>4. <<p, m.subject>> \in Group!Subscription
    BY ServiceAssumption DEF Group!Subscription, PayloadType
  <2> QED
    BY <2>3, <2>4 DEF Group!Next
<1>2. CASE \E q \in Subscription : \E r \in First(q) : HandlerStep(q, r)
  <2> PICK q \in Subscription : \E r \in First(q) : HandlerStep(q, r)
    BY <1>2
  <2> PICK r \in First(q) : HandlerStep(q, r)
    OBVIOUS
  <2>1. UNCHANGED up /\ pc[r] \in {"queued"} \cup Waits
    BY DEF HandlerStep, Refuse, StartCheckAlias, StartAuthenticated,
       AuthAnswersAlias, AuthAnswersNone, AuthFails, CheckAnswers, ReadAnswers,
       ExistsAnswers, ReadFails, WriteAnswers, WriteFails, Serves, Waits
  <2>2. (\E reply : Finish(q, r, reply)) \/ (\E s \in Waits : Advance(r, s))
    BY DEF HandlerStep, Refuse, StartCheckAlias, StartAuthenticated,
       AuthAnswersAlias, AuthAnswersNone, AuthFails, CheckAnswers, ReadAnswers,
       ExistsAnswers, ReadFails, WriteAnswers, WriteFails, Waits
  <2> QED
    BY <2>1, <2>2, FinishEnds, AdvanceServes
<1>3. CASE \E p \in Replica : Exit(p)
  <2> PICK p \in Replica : Exit(p)
    BY <1>3
  <2>1. \A r \in Request : Group!HeldBy(r, p) <=> Holds(p, r)
    BY DEF Group!HeldBy, Holds, Range
  <2>2. StageBar' = [r \in Request |-> IF Group!HeldBy(r, p) THEN "lost" ELSE StageBar[r]]
    <3>1. pc' = [r \in Request |-> IF Holds(p, r) THEN "lost" ELSE pc[r]]
      BY DEF Exit
    <3> QED
      BY <2>1, <3>1 DEF StageBar, Waits
  <2>3. queue' = [q \in Group!Subscription |-> IF q[1] = p THEN <<>> ELSE queue[q]]
    BY DEF Exit, Group!Subscription, Subscription
  <2>4. Group!Leave(p)
    BY <2>2, <2>3 DEF Group!Leave, Exit
  <2> QED
    BY <2>4 DEF Group!Next
<1>4. CASE \E p \in Replica : Restart(p)
  <2> PICK p \in Replica : Restart(p)
    BY <1>4
  <2>1. Group!Join(p)
    BY DEF Group!Join, Restart, local, StageBar
  <2> QED
    BY <2>1 DEF Group!Next
<1>5. CASE \/ \E r \in Request : ApplyWrite(r) \/ RejectWrite(r)
           \/ \E u \in User, f \in Profile : Relink(u, f)
           \/ \E k \in Removable : Remove(k)
           \/ UNCHANGED vars
  <2>1. UNCHANGED <<pc, queue, up>>
    BY <1>5 DEF ApplyWrite, RejectWrite, Relink, Remove, vars, local
  <2> QED
    BY <2>1 DEF Group!vars, StageBar
<1> QED
  BY <1>1, <1>2, <1>3, <1>4, <1>5 DEF Next

\* However many replicas come and go, every message is handed to one of them,
\* served there in its turn by one goroutine, and is over once.
THEOREM GroupPromiseIsKept == Spec => KeepsPromise
<1>1. Init => Group!Init
  <2> SUFFICES ASSUME Init PROVE Group!Init
    OBVIOUS
  <2>1. StageBar = [r \in Request |-> "new"]
    BY DEF Init, StageBar
  <2> QED
    BY <2>1 DEF Init, Group!Init, Group!Subscription, Subscription
<1>2. TypeInv /\ [Next]_vars => [Group!Next]_Group!vars
  BY StepOfGroup DEF TypeInv
<1> QED
  BY <1>1, <1>2, TypeInvariant, PTL DEF Spec, KeepsPromise, Group!Spec
-----------------------------------------------------------------------------
(* The directory: what its keys and claims rest on.                        *)

\* The key of a request is of the domain it asks for, and a check_alias asks about
\* the alias it was sent; nothing is claimed for what is not published.
Keyed ==
  \A r \in Request :
    /\ pc[r] = "idle" => owned[r] = {}
    /\ pc[r] # "idle" /\ key[r] # NoKey =>
         Addressed(msg[r]) /\ key[r][1] = ResolvedDomain(msg[r].domain)
    /\ pc[r] = "check" => key[r] = <<ResolvedDomain(msg[r].domain), Normalised(msg[r].alias)>>

\* Where a handler is when it begins to wait, it is with the right key.
LEMMA CheckedKey ==
  ASSUME TypeInv, Next, NEW r \in Request, Checked(r)
  PROVE  /\ Addressed(msg[r])
         /\ key'[r] = <<ResolvedDomain(msg[r].domain), Normalised(msg[r].alias)>>
<1>1. PICK q \in Subscription : r \in First(q) /\ HandlerStep(q, r)
  BY MovedByHandler DEF Checked
<1>2. StartCheckAlias(q, r)
  BY <1>1 DEF Checked, TypeInv, TypeOK, HandlerStep, Refuse, StartAuthenticated,
       AuthAnswersAlias, AuthAnswersNone, AuthFails, CheckAnswers, ReadAnswers,
       ExistsAnswers, ReadFails, WriteAnswers, WriteFails, Finish, Advance
<1> QED
  BY <1>2 DEF StartCheckAlias, TypeInv, TypeOK

\* Every step keeps it.
LEMMA KeyedStep == TypeInv /\ Owned /\ Keyed /\ [HNext]_hvars => Keyed'
<1> SUFFICES ASSUME TypeInv, Owned, Keyed, [HNext]_hvars PROVE Keyed'
  OBVIOUS
<1>1. CASE HNext
  <2>1. Next
    BY <1>1 DEF HNext
  <2> SUFFICES ASSUME NEW r \in Request
               PROVE  /\ pc'[r] = "idle" => owned'[r] = {}
                      /\ pc'[r] # "idle" /\ key'[r] # NoKey =>
                           Addressed(msg'[r]) /\ key'[r][1] = ResolvedDomain(msg'[r].domain)
                      /\ pc'[r] = "check" =>
                           key'[r] = <<ResolvedDomain(msg'[r].domain), Normalised(msg'[r].alias)>>
    BY DEF Keyed, Addressed
  <2>2. pc'[r] \notin {"queued", "auth"} => owned'[r] = owned[r]
    BY <1>1 DEF HNext, ObserveRequests
  <2>3. /\ pc[r] = "idle" => owned[r] = {}
        /\ pc[r] # "idle" /\ key[r] # NoKey =>
             Addressed(msg[r]) /\ key[r][1] = ResolvedDomain(msg[r].domain)
        /\ pc[r] = "check" => key[r] = <<ResolvedDomain(msg[r].domain), Normalised(msg[r].alias)>>
        /\ pc[r] \in {"idle", "queued", "auth"} => key[r] = NoKey
    BY DEF Keyed, Owned
  <2>4. CASE Published1(r)
    BY <2>3, <2>4 DEF Published1
  <2>5. CASE Asked(r) \/ Wrote(r)
    BY <2>3, <2>5 DEF Asked, Wrote, Kept
  <2>6. CASE Checked(r)
    <3>1. <<ResolvedDomain(msg[r].domain), Normalised(msg[r].alias)>>[1]
             = ResolvedDomain(msg[r].domain)
      OBVIOUS
    <3> QED
      BY <2>1, <2>6, <3>1, CheckedKey DEF Checked, Kept
  <2>7. CASE Identified(r)
    <3>1. Addressed(msg[r]) /\ key'[r][1] = ResolvedDomain(msg[r].domain)
      BY <2>7 DEF Identified, CallerKey, TypeInv, Admitted
    <3> QED
      BY <2>7, <3>1 DEF Identified, Kept
  <2>8. CASE Ended(r)
    BY <2>3, <2>8 DEF Ended, Kept, Waits
  <2>9. CASE Settles(r) \/ Stays(r)
    BY <2>2, <2>3, <2>9 DEF Settles, Stays, Kept
  <2> QED
    BY <2>1, <2>4, <2>5, <2>6, <2>7, <2>8, <2>9, Footprint
<1>2. CASE UNCHANGED hvars
  BY <1>2 DEF hvars, vars, history, Keyed, Addressed
<1> QED
  BY <1>1, <1>2
-----------------------------------------------------------------------------
(* The mapping.                                                            *)

\* What holds in every state in which a step is mapped.
Mapped ==
  /\ TypeInv /\ HTypeOK /\ Truthful /\ QueueDiscipline /\ Owned /\ Replaced /\ Keyed

\* The phase a request that is over shows.
PhaseAfter(reply) ==
  IF reply.error = "forwardemail_error" THEN "given up"
  ELSE IF reply.error = OK THEN "answered" ELSE "refused"

LEMMA PhaseFacts ==
  ASSUME NEW r \in Request
  PROVE  /\ PhaseBar[r] = "idle" <=> pc[r] = "idle"
         /\ pc[r] \in {"queued"} \cup Waits => PhaseBar[r] = "open"
         /\ pc[r] = "done" => PhaseBar[r] = PhaseAfter(outcome[r])
         /\ pc[r] = "lost" => PhaseBar[r] = "given up"
  BY DEF PhaseBar, PhaseAfter, Waits

\* What a published message asks for.
LEMMA AskFacts ==
  ASSUME TypeInv, NEW r \in Request, pc[r] # "idle"
  PROVE  /\ AskBar[r].kind = msg[r].subject /\ AskBar[r].by = msg[r].token
         /\ Addressed(msg[r]) => AskBar[r].domain = ResolvedDomain(msg[r].domain)
         /\ AskBar[r].name = Normalised(msg[r].alias) /\ AskBar[r].target = Target(r)
<1>1. msg[r] # Unsent
  BY ServiceAssumption DEF TypeInv, TypeOK
<1> QED
  BY <1>1 DEF AskBar, AskOf, Target

\* A request that has no write carried out has had no effect.
LEMMA EffectFacts ==
  ASSUME TypeInv, NEW r \in Request
  PROVE  /\ wire[r] # "applied" => EffectBar[r] = NoKey
         /\ wire[r] = "applied" => EffectBar[r] = key[r] /\ key[r] # NoKey
  BY NoKeyIsNoKey DEF EffectBar, TypeInv, Written

\* Where nothing is published and no identity changes, nothing more is claimed.
LEMMA ClaimsStay ==
  ASSUME Mapped, HNext, msg' = msg, profile' = profile,
         \A r \in Request : pc'[r] \in {"queued", "auth"} => pc[r] \in {"queued", "auth"}
  PROVE  owned' = owned
<1>1. \A r \in Request : owned'[r] = owned[r]
  BY DEF Mapped, HNext, ObserveRequests, Owned
<1>2. owned \in [Request -> SUBSET Key] /\ owned' = [r \in Request |-> owned'[r]]
  BY DEF Mapped, HTypeOK, HNext, ObserveRequests
<1> QED
  BY <1>1, <1>2

\* A step that changes no write that was carried out, nor the key of one, changes
\* no effect.
LEMMA EffectsStay ==
  ASSUME TypeInv, TypeInv',
         \A r \in Request : wire'[r] = "applied" <=> wire[r] = "applied",
         \A r \in Request : wire[r] = "applied" => key'[r] = key[r]
  PROVE  EffectBar' = EffectBar
  BY DEF EffectBar
-----------------------------------------------------------------------------
(* The directory: its steps.                                               *)

\* A handler that goes on, a write that is sent or rejected and a replica that
\* starts are not seen by the directory.
LEMMA Unseen ==
  ASSUME Mapped, TypeInv', HNext,
         msg' = msg, store' = store, profile' = profile, outcome' = outcome,
         \A o \in Request : wire'[o] = "applied" <=> wire[o] = "applied",
         \A o \in Request : wire[o] = "applied" => key'[o] = key[o],
         \A o \in Request :
           \/ pc'[o] = pc[o]
           \/ pc[o] \in {"queued"} \cup Waits /\ pc'[o] \in Waits,
         \A o \in Request : pc'[o] = "auth" => pc[o] \in {"queued", "auth"}
  PROVE  UNCHANGED D!dvars
<1>1. AskBar' = AskBar /\ HeldBar' = HeldBar
  BY DEF AskBar, AskOf, Addressed, HeldBar, Holdings, Identities
<1>2. PhaseBar' = PhaseBar
  <2>1. \A o \in Request : pc'[o] = pc[o] => PhaseBar'[o] = PhaseBar[o]
    BY DEF PhaseBar
  <2>2. \A o \in Request :
          pc[o] \in {"queued"} \cup Waits /\ pc'[o] \in Waits => PhaseBar'[o] = PhaseBar[o]
    BY DEF PhaseBar, Waits
  <2>3. /\ PhaseBar' = [o \in Request |-> PhaseBar'[o]]
        /\ PhaseBar = [o \in Request |-> PhaseBar[o]]
    BY DEF PhaseBar
  <2> QED
    BY <2>1, <2>2, <2>3
<1>3. owned' = owned
  <2>1. \A o \in Request : pc'[o] \in {"queued", "auth"} => pc[o] \in {"queued", "auth"}
    BY DEF Waits
  <2> QED
    BY <2>1, ClaimsStay
<1>4. EffectBar' = EffectBar
  BY EffectsStay DEF Mapped
<1> QED
  BY <1>1, <1>2, <1>3, <1>4 DEF D!dvars

\* A handler that returns answers its request.
LEMMA Answers ==
  ASSUME Mapped, TypeInv', HNext, NEW q \in Subscription, NEW r \in First(q), NEW reply,
         Finish(q, r, reply), pc[r] \in {"queued"} \cup Waits,
         msg' = msg, wire' = wire, store' = store, profile' = profile,
         \A o \in Request : key'[o] # key[o] => wire[o] = "none"
  PROVE  D!Answer(r, PhaseAfter(reply), reply)
<1>1. r \in Request
  BY FirstOfQueue DEF Mapped, TypeInv
<1>2. pc' = [pc EXCEPT ![r] = "done"] /\ outcome' = [outcome EXCEPT ![r] = reply]
  BY DEF Finish
<1>3. pc \in [Request -> Stage] /\ outcome \in [Request -> ReplyType \cup {NoOutcome}]
  BY DEF Mapped, TypeInv, TypeOK
<1>4. AskBar' = AskBar /\ HeldBar' = HeldBar
  BY DEF AskBar, AskOf, Addressed, HeldBar, Holdings, Identities
<1>5. PhaseBar[r] = "open"
  BY <1>1, PhaseFacts
<1>6. PhaseBar' = [PhaseBar EXCEPT ![r] = PhaseAfter(reply)]
  <2>1. \A o \in Request \ {r} : pc'[o] = pc[o] /\ outcome'[o] = outcome[o]
    BY <1>2, <1>3
  <2>2. pc'[r] = "done" /\ outcome'[r] = reply
    BY <1>1, <1>2, <1>3
  <2>3. PhaseBar'[r] = PhaseAfter(reply)
    BY <1>1, <2>2 DEF PhaseBar, PhaseAfter, Waits
  <2>4. \A o \in Request \ {r} : PhaseBar'[o] = PhaseBar[o]
    BY <2>1 DEF PhaseBar
  <2>5. /\ PhaseBar' = [o \in Request |-> PhaseBar'[o]]
        /\ PhaseBar = [o \in Request |-> PhaseBar[o]]
    BY DEF PhaseBar
  <2> QED
    BY <2>3, <2>4, <2>5
<1>7. owned' = owned
  <2>1. \A o \in Request : pc'[o] \in {"queued", "auth"} => pc[o] \in {"queued", "auth"}
    BY <1>1, <1>2, <1>3
  <2> QED
    BY <2>1, ClaimsStay
<1>8. EffectBar' = EffectBar
  BY EffectsStay DEF Mapped
<1> QED
  BY <1>2, <1>4, <1>5, <1>6, <1>7, <1>8 DEF D!Answer

\* A caller none of whose addresses lies on the domain holds no key of it.
LEMMA NothingHeld ==
  ASSUME TypeInv, NEW r \in Request, pc[r] = "auth", CallerMatches(r) = {},
         NEW k \in Holdings(profile[msg[r].token])
  PROVE  k[1] # ResolvedDomain(msg[r].domain)
<1> DEFINE domain == ResolvedDomain(msg[r].domain)
           addresses == profile[msg[r].token]
           c == Candidates(addresses)
<1>1. Addressed(msg[r]) /\ Verifiable(msg[r])
  BY DEF TypeInv, Admitted
<1>2. domain \in Range(Domains) \cap Name
  BY <1>1, Bodies, ResolvedDomainIsManaged DEF Addressed, TypeInv
<1>3. addresses \in ProfileType
  BY <1>1, ServiceAssumption DEF TypeInv, TypeOK, Verifiable
<1>4. Fold(domain) = Lower[domain]
  BY <1>2, ConfigAssumption DEF Range, Fold
<1>5. PICK e \in Identities(addresses) : Lower[e.host] = Lower[k[1]] /\ e.local # Empty
  BY DEF Holdings
<1>6. \E i \in DOMAIN c : c[i] = e
  <2>1. addresses.alternate \in Seq(Email) /\ addresses.primary \in Email
    BY <1>3 DEF ProfileType
  <2>2. CASE e = addresses.primary
    <3>1. c = Append(addresses.alternate, e)
      BY <2>2 DEF Candidates
    <3>2. Len(c) \in DOMAIN c /\ c[Len(c)] = e
      BY <2>1, <2>2, <3>1, AppendProperties
    <3> QED
      BY <3>2
  <2>3. CASE e \in Range(addresses.alternate)
    <3>1. PICK i \in DOMAIN addresses.alternate : addresses.alternate[i] = e
      BY <2>3 DEF Range
    <3>2. i \in DOMAIN c /\ c[i] = e
      BY <2>1, <3>1 DEF Candidates
    <3> QED
      BY <3>2
  <2> QED
    BY <2>2, <2>3 DEF Identities
<1>7. ASSUME k[1] = domain PROVE FALSE
  <2>1. \E i \in DOMAIN c : Lower[c[i].host] = Fold(domain) /\ c[i].local # Empty
    BY <1>4, <1>5, <1>6, <1>7
  <2> QED
    BY <2>1 DEF CallerMatches, AliasMatches
<1> QED
  BY <1>7

\* What an error reply is.
LEMMA ErrorReplies ==
  ASSUME NEW code
  PROVE  /\ ErrorReply(code) = D!Error(code)
         /\ code \in Refusals => PhaseAfter(ErrorReply(code)) = "refused"
         /\ code = "forwardemail_error" => PhaseAfter(ErrorReply(code)) = "given up"
<1>1. ErrorReply(code).error = code
  BY DEF ErrorReply
<1> QED
  BY <1>1 DEF ErrorReply, D!Error, PhaseAfter, Refusals

\* A handler that returns an error code other than forwardemail_error before it
\* has sent a write refuses.
LEMMA Refuses ==
  ASSUME Mapped, NEW r \in Request, NEW code \in Refusals, wire[r] = "none",
         D!Answer(r, PhaseAfter(ErrorReply(code)), ErrorReply(code))
  PROVE  D!Next
<1>1. EffectBar[r] = NoKey
  BY EffectFacts DEF Mapped
<1>2. D!Refuse(r, code)
  BY <1>1, ErrorReplies DEF D!Refuse
<1> QED
  BY <1>2 DEF D!Next

\* A get_forward that answers has read the routing of a key its caller held.
LEMMA ReadsKey ==
  ASSUME Mapped, TypeInv', HNext, NEW q \in Subscription, NEW r \in First(q),
         ReadAnswers(q, r)
  PROVE  D!Read(r, key[r]) /\ key[r] \in owned[r]
<1>1. r \in Request /\ pc[r] = "read"
  BY FirstOfQueue DEF Mapped, TypeInv, ReadAnswers, Serves
<1>2. msg[r].subject = "get_forward" /\ key[r] \in Key
  BY <1>1 DEF Mapped, TypeInv, Admitted
<1>3. key[r] # NoKey
  BY <1>2, NoKeyIsNoKey
<1>4. key[r] \in owned[r] /\ Addressed(msg[r]) /\ key[r][1] = ResolvedDomain(msg[r].domain)
  BY <1>1, <1>2, <1>3 DEF Mapped, Owned, Keyed
<1>5. PhaseBar[r] = "open"
  BY <1>1, PhaseFacts DEF Waits
<1>6. AskBar[r].kind = "get_forward" /\ AskBar[r].domain = ResolvedDomain(msg[r].domain)
  BY <1>1, <1>2, <1>4, AskFacts DEF Mapped
<1> DEFINE found == [error |-> OK, flag |-> TRUE, alias |-> key[r][2],
                     target |-> FirstRecipient(store[key[r]])]
           reply == IF Exists(key[r]) THEN found ELSE NotFoundReply
<1>7. D!Answer(r, PhaseAfter(reply), reply)
  <2>1. /\ Finish(q, r, reply)
        /\ UNCHANGED <<msg, wire, store, profile, key>>
    BY DEF ReadAnswers, caller, remote
  <2> HIDE DEF reply
  <2> QED
    BY <1>1, <2>1, Answers DEF Waits
<1>8. PhaseAfter(reply) = "answered"
  BY DEF PhaseAfter, NotFoundReply, ErrorReply, OK
<1>9. reply = IF store[key[r]] = Absent THEN D!Reply(FALSE, Empty, Empty)
              ELSE D!Reply(TRUE, key[r][2],
                           IF store[key[r]].recipients = <<>> THEN Empty
                           ELSE Head(store[key[r]].recipients))
  BY DEF Exists, NotFoundReply, ErrorReply, OK, D!Reply, FirstRecipient
<1> HIDE DEF reply
<1>10. D!Read(r, key[r])
  BY <1>4, <1>5, <1>6, <1>7, <1>8, <1>9 DEF D!Read, D!Awaits, D!Usable
<1> QED
  BY <1>4, <1>10

\* A check_alias that answers has looked at the routing of the name it was asked.
LEMMA ProbesKey ==
  ASSUME Mapped, TypeInv', HNext, NEW q \in Subscription, NEW r \in First(q),
         CheckAnswers(q, r)
  PROVE  D!Probe(r)
<1>1. r \in Request /\ pc[r] = "check"
  BY FirstOfQueue DEF Mapped, TypeInv, CheckAnswers, Serves
<1>2. msg[r].subject = "check_alias" /\ key[r] \in Key
  BY <1>1 DEF Mapped, TypeInv, Admitted
<1>3. key[r] # NoKey
  BY <1>2, NoKeyIsNoKey
<1>4. /\ Addressed(msg[r])
      /\ key[r] = <<ResolvedDomain(msg[r].domain), Normalised(msg[r].alias)>>
  BY <1>1, <1>3 DEF Mapped, Keyed
<1>5. PhaseBar[r] = "open"
  BY <1>1, PhaseFacts DEF Waits
<1>6. /\ AskBar[r].kind = "check_alias" /\ AskBar[r].domain = ResolvedDomain(msg[r].domain)
      /\ AskBar[r].name = Normalised(msg[r].alias)
  BY <1>1, <1>2, <1>4, AskFacts DEF Mapped
<1> DEFINE reply == [error |-> OK, flag |-> Exists(key[r]),
                     alias |-> key[r][2], target |-> Empty]
<1>7. D!Answer(r, PhaseAfter(reply), reply)
  <2>1. /\ Finish(q, r, reply)
        /\ UNCHANGED <<msg, wire, store, profile, key>>
    BY DEF CheckAnswers, caller, remote
  <2> HIDE DEF reply
  <2> QED
    BY <1>1, <2>1, Answers DEF Waits
<1>8. PhaseAfter(reply) = "answered"
  BY DEF PhaseAfter, OK
<1>9. key[r] = <<AskBar[r].domain, AskBar[r].name>> /\ key[r][2] = AskBar[r].name
  BY <1>4, <1>6
<1>10. reply = D!Reply(store[<<AskBar[r].domain, AskBar[r].name>>] # Absent,
                       AskBar[r].name, Empty)
  BY <1>9 DEF Exists, OK, D!Reply
<1> HIDE DEF reply
<1> QED
  BY <1>5, <1>6, <1>7, <1>8, <1>10 DEF D!Probe, D!Awaits

\* A set_target that is confirmed has taken effect on its key.
LEMMA ConfirmsEffect ==
  ASSUME Mapped, TypeInv', HNext, NEW q \in Subscription, NEW r \in First(q),
         WriteAnswers(q, r)
  PROVE  D!Confirm(r)
<1>1. r \in Request /\ pc[r] = "write" /\ wire[r] = "applied"
  BY FirstOfQueue DEF Mapped, TypeInv, WriteAnswers, Serves
<1>2. msg[r].subject = "set_target"
  BY <1>1 DEF Mapped, TypeInv, Admitted
<1>3. PhaseBar[r] = "open" /\ EffectBar[r] = key[r] /\ key[r] # NoKey
  BY <1>1, PhaseFacts, EffectFacts DEF Waits, Mapped
<1>4. AskBar[r].kind = "set_target" /\ AskBar[r].target = Target(r)
  BY <1>1, <1>2, AskFacts DEF Mapped
<1> DEFINE reply == [error |-> OK, flag |-> FALSE, alias |-> key[r][2], target |-> Target(r)]
<1>5. D!Answer(r, PhaseAfter(reply), reply)
  <2>1. /\ Finish(q, r, reply)
        /\ UNCHANGED <<msg, wire, store, profile, key>>
    BY DEF WriteAnswers, caller, remote
  <2> HIDE DEF reply
  <2> QED
    BY <1>1, <2>1, Answers DEF Waits
<1>6. PhaseAfter(reply) = "answered"
  BY DEF PhaseAfter, OK
<1>7. reply = D!Reply(FALSE, EffectBar[r][2], AskBar[r].target)
  BY <1>3, <1>4 DEF OK, D!Reply
<1> HIDE DEF reply
<1> QED
  BY <1>3, <1>4, <1>5, <1>6, <1>7 DEF D!Confirm, D!Awaits

\* Every step of a handler answers its request as the directory may, or is not seen.
LEMMA HandlerMaps ==
  ASSUME Mapped, TypeInv', HNext, NEW q \in Subscription, NEW r \in First(q),
         HandlerStep(q, r)
  PROVE  D!Next \/ UNCHANGED D!dvars
<1>1. r \in Request
  BY FirstOfQueue DEF Mapped, TypeInv
<1>2. /\ pc \in [Request -> Stage] /\ outcome \in [Request -> ReplyType \cup {NoOutcome}]
      /\ key \in [Request -> Key \cup {NoKey}] /\ wire \in [Request -> WireState]
  BY DEF Mapped, TypeInv, TypeOK
<1>3. pc[r] \in {"queued", "auth"} => wire[r] = "none"
  BY <1>1 DEF Mapped, TypeInv, Written
<1>4. ASSUME pc[r] \in {"queued"} \cup Waits, NEW s \in Waits, Advance(r, s),
             s = "auth" => pc[r] = "queued",
             msg' = msg, store' = store, profile' = profile,
             \A o \in Request : wire'[o] = "applied" <=> wire[o] = "applied",
             \A o \in Request : wire[o] = "applied" => key'[o] = key[o]
      PROVE  UNCHANGED D!dvars
  <2>1. pc' = [pc EXCEPT ![r] = s] /\ outcome' = outcome
    BY <1>4 DEF Advance
  <2>2. \A o \in Request :
          \/ pc'[o] = pc[o]
          \/ pc[o] \in {"queued"} \cup Waits /\ pc'[o] \in Waits
    BY <1>1, <1>2, <1>4, <2>1
  <2>3. \A o \in Request : pc'[o] = "auth" => pc[o] \in {"queued", "auth"}
    BY <1>1, <1>2, <1>4, <2>1
  <2> QED
    BY <1>4, <2>1, <2>2, <2>3, Unseen
<1>5. CASE Refuse(q, r)
  <2>1. PICK code \in EarlyErrors(msg[r]) : Finish(q, r, ErrorReply(code))
    BY <1>5 DEF Refuse
  <2>2. code \in Refusals
    BY DEF EarlyErrors, ResolveError, ValidateError, Addressed, Refusals, ErrorCode, OK
  <2>3. pc[r] = "queued" /\ UNCHANGED <<msg, wire, store, profile, key>>
    BY <1>5 DEF Refuse, Serves, caller, remote
  <2>4. D!Answer(r, PhaseAfter(ErrorReply(code)), ErrorReply(code))
    BY <2>1, <2>3, Answers
  <2> QED
    BY <1>1, <1>3, <2>2, <2>3, <2>4, Refuses
<1>6. CASE StartCheckAlias(q, r)
  <2>1. /\ pc[r] = "queued" /\ Advance(r, "check") /\ UNCHANGED <<msg, wire, store, profile>>
        /\ \A o \in Request : wire[o] = "applied" => key'[o] = key[o]
    BY <1>1, <1>2, <1>3, <1>6 DEF StartCheckAlias, Serves, caller, remote
  <2> QED
    BY <1>4, <2>1 DEF Waits
<1>7. CASE StartAuthenticated(q, r)
  <2>1. pc[r] = "queued" /\ Advance(r, "auth") /\ UNCHANGED <<msg, wire, store, profile, key>>
    BY <1>7 DEF StartAuthenticated, Serves, caller, remote
  <2> QED
    BY <1>4, <2>1 DEF Waits
<1>8. CASE AuthAnswersAlias(q, r)
  <2>1. /\ pc[r] = "auth" /\ UNCHANGED <<msg, wire, store, profile>>
        /\ \A o \in Request : key'[o] # key[o] => wire[o] = "none"
    BY <1>1, <1>2, <1>3, <1>8 DEF AuthAnswersAlias, Serves, caller, remote
  <2>2. \A o \in Request : wire[o] = "applied" => key'[o] = key[o]
    BY <2>1
  <2>3. CASE Advance(r, "read") \/ Advance(r, "exists")
    BY <1>4, <2>1, <2>2, <2>3 DEF Waits
  <2>4. CASE Finish(q, r, ErrorReply("target_email_invalid"))
    <3>1. "target_email_invalid" \in Refusals
      BY DEF Refusals, ErrorCode, OK
    <3>2. D!Answer(r, PhaseAfter(ErrorReply("target_email_invalid")),
                   ErrorReply("target_email_invalid"))
      BY <2>1, <2>4, Answers DEF Waits
    <3> QED
      BY <1>1, <1>3, <2>1, <3>1, <3>2, Refuses
  <2> QED
    BY <1>8, <2>3, <2>4 DEF AuthAnswersAlias
<1>9. CASE AuthAnswersNone(q, r)
  <2>1. pc[r] = "auth" /\ UNCHANGED <<msg, wire, store, profile, key>>
    BY <1>9 DEF AuthAnswersNone, Serves, caller, remote
  <2>2. /\ msg[r].subject \in {"set_target", "get_forward"}
        /\ Addressed(msg[r]) /\ Verifiable(msg[r])
    BY <1>1, <2>1 DEF Mapped, TypeInv, Admitted
  <2>3. CASE msg[r].subject = "set_target"
    <3>1. Finish(q, r, ErrorReply("not_found"))
      BY <1>9, <2>3 DEF AuthAnswersNone
    <3>2. "not_found" \in Refusals
      BY DEF Refusals, ErrorCode, OK
    <3>3. D!Answer(r, PhaseAfter(ErrorReply("not_found")), ErrorReply("not_found"))
      BY <2>1, <3>1, Answers DEF Waits
    <3> QED
      BY <1>1, <1>3, <2>1, <3>2, <3>3, Refuses
  <2>4. CASE msg[r].subject = "get_forward"
    <3>1. Finish(q, r, NotFoundReply)
      BY <1>9, <2>4 DEF AuthAnswersNone
    <3>2. D!Answer(r, PhaseAfter(NotFoundReply), NotFoundReply)
      BY <2>1, <3>1, Answers DEF Waits
    <3>3. PhaseAfter(NotFoundReply) = "answered"
          /\ NotFoundReply = D!Reply(FALSE, Empty, Empty)
      BY DEF PhaseAfter, NotFoundReply, ErrorReply, OK, D!Reply
    <3>4. /\ AskBar[r].kind = "get_forward" /\ AskBar[r].by = msg[r].token
          /\ AskBar[r].domain = ResolvedDomain(msg[r].domain)
      BY <1>1, <2>1, <2>2, <2>4, AskFacts DEF Mapped
    <3>5. msg[r].token \in User /\ HeldBar[msg[r].token] = Holdings(profile[msg[r].token])
      BY <2>2 DEF Verifiable, HeldBar
    <3>6. \A k \in HeldBar[AskBar[r].by] : k[1] # AskBar[r].domain
      BY <1>1, <1>9, <2>1, <3>4, <3>5, NothingHeld DEF AuthAnswersNone, Mapped
    <3>7. PhaseBar[r] = "open"
      BY <1>1, <2>1, PhaseFacts DEF Waits
    <3>8. D!ReadNothing(r)
      BY <3>2, <3>3, <3>4, <3>5, <3>6, <3>7 DEF D!ReadNothing, D!Awaits
    <3> QED
      BY <1>1, <3>8 DEF D!Next
  <2> QED
    BY <2>2, <2>3, <2>4
<1>10. CASE AuthFails(q, r)
  <2>1. /\ pc[r] = "auth" /\ Finish(q, r, ErrorReply("unauthorized"))
        /\ UNCHANGED <<msg, wire, store, profile, key>>
    BY <1>10 DEF AuthFails, Serves, caller, remote
  <2>2. "unauthorized" \in Refusals
    BY DEF Refusals, ErrorCode, OK
  <2>3. D!Answer(r, PhaseAfter(ErrorReply("unauthorized")), ErrorReply("unauthorized"))
    BY <2>1, Answers DEF Waits
  <2> QED
    BY <1>1, <1>3, <2>1, <2>2, <2>3, Refuses
<1>11. CASE CheckAnswers(q, r)
  BY <1>1, <1>11, ProbesKey DEF D!Next
<1>12. CASE ReadAnswers(q, r)
  BY <1>1, <1>12, ReadsKey DEF D!Next
<1>13. CASE ExistsAnswers(q, r)
  <2>1. /\ pc[r] = "exists" /\ Advance(r, "write") /\ UNCHANGED <<msg, store, profile, key>>
        /\ \A o \in Request : o = r \/ wire'[o] = wire[o]
        /\ wire'[r] \in {"PUT", "POST"}
    BY <1>1, <1>2, <1>13 DEF ExistsAnswers, Serves, caller
  <2>2. wire[r] = "none"
    BY <1>1, <2>1 DEF Mapped, TypeInv, Written
  <2>3. \A o \in Request : wire'[o] = "applied" <=> wire[o] = "applied"
    BY <2>1, <2>2
  <2> QED
    BY <1>4, <2>1, <2>3 DEF Waits
<1>14. CASE ReadFails(q, r) \/ WriteFails(q, r)
  <2>1. /\ pc[r] \in Waits /\ Finish(q, r, ErrorReply("forwardemail_error"))
        /\ UNCHANGED <<msg, wire, store, profile, key>>
    BY <1>14 DEF ReadFails, WriteFails, Serves, caller, remote, Waits
  <2>2. D!Answer(r, PhaseAfter(ErrorReply("forwardemail_error")),
                 ErrorReply("forwardemail_error"))
    BY <2>1, Answers
  <2>3. D!GiveUpWithError(r)
    BY <2>2, ErrorReplies DEF D!GiveUpWithError
  <2> QED
    BY <1>1, <2>3 DEF D!Next
<1>15. CASE WriteAnswers(q, r)
  BY <1>1, <1>15, ConfirmsEffect DEF D!Next
<1> QED
  BY <1>5, <1>6, <1>7, <1>8, <1>9, <1>10, <1>11, <1>12, <1>13, <1>14, <1>15
     DEF HandlerStep

\* The keys of the directory are those of the service.
LEMMA SameKeys == D!Key = Key
  BY DEF D!Key, Key

\* A published message opens its request.
LEMMA PublishOpens ==
  ASSUME Mapped, HNext, NEW r \in Request, NEW m \in Payload, NEW p \in Replica,
         Publish(r, m, p)
  PROVE  D!Open(r, AskOf(m))
<1>1. /\ pc[r] = "idle" /\ msg' = [msg EXCEPT ![r] = m] /\ pc' = [pc EXCEPT ![r] = "queued"]
      /\ UNCHANGED <<key, outcome, wire, store, profile>>
  BY DEF Publish, remote
<1>2. /\ msg \in [Request -> Payload \cup {Unsent}] /\ pc \in [Request -> Stage]
      /\ m # Unsent
  BY ServiceAssumption DEF Mapped, TypeInv, TypeOK
<1>3. PhaseBar[r] = "idle"
  BY <1>1, PhaseFacts
<1>4. AskBar' = [AskBar EXCEPT ![r] = AskOf(m)]
  <2>1. \A o \in Request : AskBar'[o] = IF o = r THEN AskOf(m) ELSE AskBar[o]
    BY <1>1, <1>2 DEF AskBar, AskOf, Addressed
  <2>2. /\ AskBar' = [o \in Request |-> AskBar'[o]]
        /\ AskBar = [o \in Request |-> AskBar[o]]
    BY DEF AskBar
  <2> QED
    BY <2>1, <2>2
<1>5. PhaseBar' = [PhaseBar EXCEPT ![r] = "open"]
  <2>1. \A o \in Request : PhaseBar'[o] = IF o = r THEN "open" ELSE PhaseBar[o]
    BY <1>1, <1>2 DEF PhaseBar
  <2>2. /\ PhaseBar' = [o \in Request |-> PhaseBar'[o]]
        /\ PhaseBar = [o \in Request |-> PhaseBar[o]]
    BY DEF PhaseBar
  <2> QED
    BY <2>1, <2>2
<1>6. owned' = [owned EXCEPT ![r] = IF AskOf(m).by \in User THEN HeldBar[AskOf(m).by] ELSE {}]
  <2>1. owned[r] = {} /\ AskOf(m).by = m.token /\ msg'[r] = m /\ pc'[r] = "queued"
    BY <1>1, <1>2 DEF Mapped, Keyed, AskOf
  <2>2. owned'[r] = IF m.token \in User THEN HeldBar[m.token] ELSE {}
    <3>1. owned'[r] = IF m.token \in User THEN owned[r] \cup Holdings(profile'[m.token])
                      ELSE owned[r]
      BY <2>1 DEF HNext, ObserveRequests, Verifiable
    <3>2. \A u \in User : HeldBar[u] = Holdings(profile[u])
      BY DEF HeldBar
    <3>3. profile' = profile
      BY <1>1
    <3>4. \A u \in User : Holdings(profile'[u]) = Holdings(profile[u])
      BY <3>3
    <3> QED
      BY <2>1, <3>1, <3>2, <3>4
  <2>3. \A o \in Request \ {r} : owned'[o] = owned[o]
    <3> SUFFICES ASSUME NEW o \in Request \ {r} PROVE owned'[o] = owned[o]
      OBVIOUS
    <3>1. pc'[o] = pc[o] /\ msg'[o] = msg[o] /\ profile' = profile
      BY <1>1, <1>2
    <3>2. pc[o] \in {"queued", "auth"} /\ Verifiable(msg[o]) =>
            Holdings(profile[msg[o].token]) \subseteq owned[o]
      BY DEF Mapped, Owned
    <3> QED
      BY <3>1, <3>2 DEF HNext, ObserveRequests
  <2>4. owned \in [Request -> SUBSET Key] /\ owned' = [o \in Request |-> owned'[o]]
    BY DEF Mapped, HTypeOK, HNext, ObserveRequests
  <2> QED
    BY <2>1, <2>2, <2>3, <2>4
<1>7. HeldBar' = HeldBar /\ EffectBar' = EffectBar
  BY <1>1 DEF HeldBar, Holdings, Identities, EffectBar
<1> QED
  BY <1>1, <1>3, <1>4, <1>5, <1>6, <1>7 DEF D!Open

\* The write forwardemail.net carries out is the moment of effect, of a request that
\* is open or of which the caller was told nothing certain.
LEMMA ApplyTakesEffect ==
  ASSUME Mapped, HNext, NEW r \in Request, ApplyWrite(r)
  PROVE  D!TakeEffect(r, key[r]) /\ key[r] \in owned[r]
<1>1. /\ wire[r] \in Sent /\ wire[r] \notin {"none", "applied"}
      /\ wire' = [wire EXCEPT ![r] = "applied"]
      /\ UNCHANGED <<msg, pc, queue, outcome, key, profile>>
  BY DEF ApplyWrite, Sent, caller, local
<1>2. /\ pc[r] \in {"write", "done", "lost"} /\ key[r] \in Key
      /\ msg[r].subject = "set_target"
  BY <1>1 DEF Mapped, TypeInv, Written
<1>3. key[r] # NoKey
  BY <1>2, NoKeyIsNoKey
<1>4. key[r] \in owned[r] /\ Addressed(msg[r]) /\ key[r][1] = ResolvedDomain(msg[r].domain)
  BY <1>2, <1>3 DEF Mapped, Owned, Keyed
<1>5. /\ AskBar[r].kind = "set_target" /\ AskBar[r].by = msg[r].token
      /\ AskBar[r].domain = ResolvedDomain(msg[r].domain) /\ AskBar[r].target = Target(r)
  BY <1>2, <1>4, AskFacts DEF Mapped
<1>6. PhaseBar[r] \in {"open", "given up"}
  <2>1. CASE pc[r] # "done"
    BY <1>2, <2>1, PhaseFacts DEF Waits
  <2>2. CASE pc[r] = "done"
    <3>1. outcome[r].error \in ErrorCode
      BY <2>2 DEF Mapped, Replaced, ReplyType
    <3>2. outcome[r].error \notin Refusals /\ outcome[r].error # OK
      BY <1>1, <1>2, <2>2 DEF Mapped, Truthful
    <3>3. outcome[r].error = "forwardemail_error"
      BY <3>1, <3>2 DEF Refusals
    <3> QED
      BY <2>2, <3>3 DEF PhaseBar, Waits
  <2> QED
    BY <2>1, <2>2
<1>7. EffectBar[r] = NoKey
  BY <1>1, EffectFacts DEF Mapped
<1>8. store' = [store EXCEPT ![key[r]] = D!Routed(r, store[key[r]])]
  <2>1. CASE ~Exists(key[r]) /\ store' = [store EXCEPT ![key[r]] = Created(r)]
    <3>1. Created(r) = D!Routed(r, store[key[r]])
      BY <1>5, <2>1 DEF Exists, Created, D!Routed
    <3> QED
      BY <2>1, <3>1
  <2>2. CASE Exists(key[r]) /\ store' = [store EXCEPT ![key[r]] = Updated(r, store[key[r]])]
    <3>1. Updated(r, store[key[r]]) = D!Routed(r, store[key[r]])
      BY <1>5, <2>2 DEF Exists, Updated, D!Routed
    <3> QED
      BY <2>2, <3>1
  <2> QED
    BY <2>1, <2>2 DEF ApplyWrite
<1>9. EffectBar' = [EffectBar EXCEPT ![r] = key[r]]
  <2>1. \A o \in Request : wire'[o] = IF o = r THEN "applied" ELSE wire[o]
    BY <1>1 DEF Mapped, TypeInv, TypeOK
  <2>2. \A o \in Request : EffectBar'[o] = IF o = r THEN key[r] ELSE EffectBar[o]
    BY <1>1, <2>1 DEF EffectBar
  <2>3. /\ EffectBar' = [o \in Request |-> EffectBar'[o]]
        /\ EffectBar = [o \in Request |-> EffectBar[o]]
    BY DEF EffectBar
  <2> QED
    BY <2>2, <2>3
<1>10. owned' = owned
  BY <1>1, ClaimsStay
<1>11. AskBar' = AskBar /\ PhaseBar' = PhaseBar /\ HeldBar' = HeldBar
  BY <1>1 DEF AskBar, AskOf, Addressed, PhaseBar, HeldBar, Holdings, Identities
<1>12. key[r] \in D!Usable(r)
  BY <1>4, <1>5 DEF D!Usable
<1> QED
  BY <1>1, <1>4, <1>5, <1>6, <1>7, <1>8, <1>9, <1>10, <1>11, <1>12 DEF D!TakeEffect

\* With a replica go the requests that wait there, and no others.
LEMMA ExitGivesUp ==
  ASSUME Mapped, HNext, NEW p \in Replica, Exit(p)
  PROVE  D!GiveUp({r \in Request : Holds(p, r)})
<1>1. /\ pc' = [r \in Request |-> IF Holds(p, r) THEN "lost" ELSE pc[r]]
      /\ UNCHANGED <<msg, key, outcome, wire, store, profile>>
  BY DEF Exit, caller, remote
<1>2. \A r \in Request : Holds(p, r) => PhaseBar[r] = "open"
  <2> SUFFICES ASSUME NEW r \in Request, Holds(p, r) PROVE PhaseBar[r] = "open"
    OBVIOUS
  <2>1. PICK s \in Subject : r \in Range(queue[<<p, s>>])
    BY DEF Holds
  <2>2. <<p, s>> \in Subscription
    BY DEF Subscription
  <2>3. pc[r] \in {"queued"} \cup Waits
    BY <2>1, <2>2 DEF Range, Mapped, QueueDiscipline
  <2> QED
    BY <2>3, PhaseFacts
<1>3. PhaseBar' = [r \in Request |->
                     IF r \in {o \in Request : Holds(p, o)} THEN "given up" ELSE PhaseBar[r]]
  <2>1. \A r \in Request :
          PhaseBar'[r] = IF r \in {o \in Request : Holds(p, o)} THEN "given up" ELSE PhaseBar[r]
    BY <1>1 DEF PhaseBar, Waits
  <2>2. PhaseBar' = [r \in Request |-> PhaseBar'[r]]
    BY DEF PhaseBar
  <2> HIDE DEF PhaseBar
  <2> QED
    BY <2>1, <2>2
<1>4. owned' = owned
  BY <1>1, ClaimsStay
<1>5. AskBar' = AskBar /\ HeldBar' = HeldBar /\ EffectBar' = EffectBar
  BY <1>1 DEF AskBar, AskOf, Addressed, HeldBar, Holdings, Identities, EffectBar
<1> QED
  BY <1>1, <1>2, <1>3, <1>4, <1>5 DEF D!GiveUp

\* A change of identities is a change of what users hold, of which open requests may
\* take notice.
LEMMA RelinkRegrants ==
  ASSUME Mapped, TypeInv', HTypeOK', HNext, NEW u \in User, NEW f \in Profile, Relink(u, f)
  PROVE  D!Regrant
<1>1. UNCHANGED <<msg, pc, key, outcome, wire, store>>
  BY DEF Relink, caller, local, remote
<1>2. HeldBar' \in [User -> SUBSET D!Key]
  <2>1. \A v \in User : profile'[v] \in ProfileType
    BY ServiceAssumption DEF TypeInv, TypeOK
  <2>2. \A v \in User : Holdings(profile'[v]) \subseteq Key
    BY <2>1, HoldingsType
  <2>3. HeldBar' = [v \in User |-> Holdings(profile'[v])]
    BY DEF HeldBar, Holdings, Identities
  <2> QED
    BY <2>2, <2>3, SameKeys
<1>3. ASSUME NEW r \in Request
      PROVE  /\ owned[r] \subseteq owned'[r]
             /\ owned'[r] # owned[r] =>
                  /\ PhaseBar[r] = "open" /\ AskBar[r].by \in User
                  /\ owned'[r] \subseteq owned[r] \cup HeldBar'[AskBar[r].by]
  <2>1. owned'[r] = IF pc'[r] \in {"queued", "auth"} /\ Verifiable(msg'[r])
                      THEN owned[r] \cup Holdings(profile'[msg'[r].token])
                      ELSE owned[r]
    BY DEF HNext, ObserveRequests
  <2>2. CASE pc[r] \in {"queued", "auth"} /\ Verifiable(msg[r])
    <3>1. PhaseBar[r] = "open"
      BY <2>2, PhaseFacts DEF Waits
    <3>2. AskBar[r].by = msg[r].token
      BY <2>2, AskFacts DEF Mapped
    <3>3. HeldBar'[msg[r].token] = Holdings(profile'[msg[r].token])
      BY <2>2 DEF HeldBar, Holdings, Identities, Verifiable
    <3>4. owned'[r] = owned[r] \cup Holdings(profile'[msg[r].token])
      BY <1>1, <2>1, <2>2
    <3> QED
      BY <2>2, <3>1, <3>2, <3>3, <3>4 DEF Verifiable
  <2>3. CASE ~ (pc[r] \in {"queued", "auth"} /\ Verifiable(msg[r]))
    BY <1>1, <2>1, <2>3
  <2> QED
    BY <2>2, <2>3
<1>4. owned' \in [Request -> SUBSET D!Key]
  BY SameKeys DEF HTypeOK
<1>5. AskBar' = AskBar /\ PhaseBar' = PhaseBar /\ EffectBar' = EffectBar
  BY <1>1 DEF AskBar, AskOf, Addressed, PhaseBar, EffectBar
<1> QED
  BY <1>1, <1>2, <1>3, <1>4, <1>5 DEF D!Regrant

\* Every step of the service is one of the directory, or is not seen.
LEMMA StepMaps ==
  ASSUME Mapped, TypeInv', HTypeOK', [HNext]_hvars
  PROVE  [D!Next]_(D!dvars)
<1>1. CASE UNCHANGED hvars
  BY <1>1 DEF hvars, vars, history, D!dvars, AskBar, AskOf, Addressed, PhaseBar, HeldBar,
     Holdings, Identities, EffectBar
<1>2. CASE HNext
  <2>1. CASE \E r \in Request, m \in Payload, p \in Replica : Publish(r, m, p)
    <3> PICK r \in Request, m \in Payload, p \in Replica : Publish(r, m, p)
      BY <2>1
    <3>1. D!Open(r, AskOf(m))
      BY <1>2, PublishOpens
    <3> QED
      BY <3>1 DEF D!Next
  <2>2. CASE \E q \in Subscription : \E r \in First(q) : HandlerStep(q, r)
    BY <1>2, <2>2, HandlerMaps
  <2>3. CASE \E r \in Request : ApplyWrite(r)
    BY <1>2, <2>3, ApplyTakesEffect DEF D!Next
  <2>4. CASE \E r \in Request : RejectWrite(r)
    <3> PICK r \in Request : RejectWrite(r)
      BY <2>4
    <3>1. /\ UNCHANGED <<msg, pc, outcome, key, store, profile>>
          /\ wire[r] # "applied" /\ wire'[r] # "applied"
          /\ \A o \in Request : o = r \/ wire'[o] = wire[o]
      BY DEF RejectWrite, Sent, caller, local, Mapped, TypeInv, TypeOK
    <3> QED
      BY <1>2, <3>1, Unseen
  <2>5. CASE \E p \in Replica : Exit(p)
    <3> PICK p \in Replica : Exit(p)
      BY <2>5
    <3>1. D!GiveUp({r \in Request : Holds(p, r)})
      BY <1>2, ExitGivesUp
    <3> QED
      BY <3>1 DEF D!Next
  <2>6. CASE \E p \in Replica : Restart(p)
    <3>1. UNCHANGED <<msg, pc, outcome, key, store, profile, wire>>
      BY <2>6 DEF Restart, caller, local, remote
    <3> QED
      BY <1>2, <3>1, Unseen
  <2>7. CASE \E u \in User, f \in Profile : Relink(u, f)
    BY <1>2, <2>7, RelinkRegrants DEF D!Next
  <2>8. CASE \E k \in Removable : Remove(k)
    <3> PICK k \in Removable : Remove(k)
      BY <2>8
    <3>1. UNCHANGED <<msg, pc, outcome, key, wire, profile>>
      BY DEF Remove, caller, local
    <3>2. owned' = owned
      BY <1>2, <3>1, ClaimsStay
    <3>3. AskBar' = AskBar /\ PhaseBar' = PhaseBar /\ HeldBar' = HeldBar
          /\ EffectBar' = EffectBar
      BY <3>1 DEF AskBar, AskOf, Addressed, PhaseBar, HeldBar, Holdings, Identities, EffectBar
    <3>4. D!Remove(k)
      BY <3>1, <3>2, <3>3 DEF D!Remove, Remove, Exists
    <3> QED
      BY <3>4 DEF D!Next
  <2> QED
    BY <1>2, <2>1, <2>2, <2>3, <2>4, <2>5, <2>6, <2>7, <2>8 DEF HNext, Next
<1> QED
  BY <1>1, <1>2

\* A service that has just started is a directory that nobody has used.
LEMMA InitMaps == HInit => D!Init
<1> SUFFICES ASSUME HInit PROVE D!Init
  OBVIOUS
<1>1. HeldBar \in [User -> SUBSET D!Key]
  <2>1. \A u \in User : profile[u] \in ProfileType
    BY ServiceAssumption DEF HInit, Init
  <2>2. \A u \in User : Holdings(profile[u]) \subseteq Key
    BY <2>1, HoldingsType
  <2> QED
    BY <2>2, SameKeys DEF HeldBar
<1>2. AskBar = [r \in Request |-> Unsent] /\ PhaseBar = [r \in Request |-> "idle"]
      /\ EffectBar = [r \in Request |-> NoKey]
  BY DEF HInit, Init, AskBar, PhaseBar, EffectBar
<1>3. store \in [D!Key -> Entry \cup {Absent}]
  BY ServiceAssumption, SameKeys DEF HInit, Init
<1> QED
  BY <1>1, <1>2, <1>3 DEF D!Init, HInit, Init

\* The service is a directory whose every operation is indivisible.
THEOREM ServiceIsADirectory == HSpec => Indivisible
<1>1. HInit => HTypeOK /\ QueueDiscipline /\ Owned /\ Replaced /\ Keyed
  BY TypeInvInit DEF HInit, HTypeOK, TypeInv, Init, QueueDiscipline, Waits, Owned, Replaced,
     Keyed
<1>2. TypeInv /\ QueueDiscipline /\ [HNext]_hvars => QueueDiscipline'
  <2>1. [HNext]_hvars => [Next]_vars
    BY DEF HNext, hvars
  <2> QED
    BY <2>1, QueuesStep
<1>3. TypeInv /\ TypeInv' /\ Truthful /\ Replaced /\ [HNext]_hvars => Replaced'
  BY ReplacedStep
<1>4. /\ TypeInv /\ Truthful /\ HTypeOK /\ QueueDiscipline /\ Owned /\ Replaced /\ Keyed
      /\ TypeInv' /\ HTypeOK' /\ [HNext]_hvars
      => [D!Next]_(D!dvars)
  BY StepMaps DEF Mapped
<1> QED
  BY <1>1, <1>2, <1>3, <1>4, BaseInvariant, HTypeStep, OwnedStep, KeyedStep, InitMaps, PTL
     DEF HSpec, Indivisible, D!Spec
=============================================================================
