------------------------ MODULE ForwardServiceProofs ------------------------
(***************************************************************************)
(* Invariants of ForwardService, for every set of requests, replicas,      *)
(* users and messages, every configuration and every initial store.        *)
(***************************************************************************)
EXTENDS ForwardService, TLAPS, WellFoundedInduction, SequenceTheorems

(* What the pure rules return.                                             *)

\* The first index of a non-empty set of indices exists: the loops of
\* resolveDomain and GetAliasForDomain return at it.
LEMMA FirstIndex ==
  ASSUME NEW S, S \subseteq Nat, S # {}
  PROVE  Min(S) \in S /\ \A i \in S : Min(S) <= i
<1>1. \E i \in S : \A j \in S : ~ (<<j, i>> \in OpToRel(<, Nat))
  BY NatLessThanWellFounded, WFMin
<1>2. PICK i \in S : \A j \in S : ~ (<<j, i>> \in OpToRel(<, Nat))
  BY <1>1
<1>3. \A j \in S : <<j, i>> \in OpToRel(<, Nat) <=> j < i
  BY DEF OpToRel
<1>4. \A j \in S : i \in Nat /\ j \in Nat /\ ~ (j < i)
  BY <1>2, <1>3
<1>5. \A j \in S : i <= j
  BY <1>4
<1> QED
  BY <1>5 DEF Min

\* resolveDomain returns a configured domain, the one the request names up to
\* case and surrounding blanks.
LEMMA ResolvedDomainIsManaged ==
  ASSUME NEW requested \in Name, ResolveError(requested) = OK
  PROVE  /\ ResolvedDomain(requested) \in Range(Domains)
         /\ ResolvedDomain(requested) \in Name
         /\ Lower[ResolvedDomain(requested)] = Fold(requested)
<1>1. DomainMatches(requested) # {}
  BY DEF ResolveError, OK
<1>2. DomainMatches(requested) \subseteq Nat
  BY ConfigAssumption DEF DomainMatches
<1>3. Min(DomainMatches(requested)) \in DomainMatches(requested)
  BY <1>1, <1>2, FirstIndex
<1>4. PICK i \in DOMAIN Domains :
        /\ i = Min(DomainMatches(requested))
        /\ Lower[Domains[i]] = Fold(requested)
  BY <1>3 DEF DomainMatches
<1>5. Domains[i] \in Name /\ Domains[i] \in Range(Domains)
  BY ConfigAssumption DEF Range
<1> QED
  BY <1>4, <1>5 DEF ResolvedDomain

\* GetAliasForDomain returns the local part of one of the caller's addresses on
\* the domain, folded, and never an empty one.
LEMMA PickAliasIsOwned ==
  ASSUME NEW emails \in ProfileType, NEW domain \in Name,
         AliasMatches(emails, domain) # {}
  PROVE  /\ PickAlias(emails, domain) \in Name \ {Empty}
         /\ \E e \in Range(emails.alternate) \cup {emails.primary} :
              /\ Lower[e.host] = Fold(domain)
              /\ e.local # Empty
              /\ PickAlias(emails, domain) = Lower[e.local]
<1> DEFINE found == AliasMatches(emails, domain)
           c == Candidates(emails)
<1>1. /\ c \in Seq(Email)
      /\ \A i \in DOMAIN c :
           c[i] \in Range(emails.alternate) \cup {emails.primary}
  <2>1. emails.alternate \in Seq(Email) /\ emails.primary \in Email
    BY DEF ProfileType
  <2> QED
    BY <2>1 DEF Candidates, Range
<1>2. found \subseteq Nat
  BY <1>1 DEF AliasMatches
<1>3. Min(found) \in found
  BY <1>2, FirstIndex
<1>4. PICK i \in DOMAIN c :
        /\ i = Min(found)
        /\ Lower[c[i].host] = Fold(domain)
        /\ c[i].local # Empty
  BY <1>3 DEF AliasMatches
<1>5. c[i] \in Email
  BY <1>1
<1>6. c[i].local \in Name
  BY <1>5 DEF Email
<1>7. Lower[c[i].local] \in Name \ {Empty}
  BY <1>4, <1>6, NameAssumption
<1>8. PickAlias(emails, domain) = Lower[c[i].local]
  BY <1>4 DEF PickAlias
<1> QED
  BY <1>1, <1>4, <1>7, <1>8
-----------------------------------------------------------------------------
(* Types.                                                                  *)

\* Waiting requests have a body, and so has every write.
LEMMA Bodies ==
  ASSUME TypeOK, NEW r \in Request, pc[r] # "idle"
  PROVE  /\ msg[r] \in Payload
         /\ msg[r].subject \in Subject
         /\ msg[r].domain \in Name /\ msg[r].alias \in Name
         /\ msg[r].token \in User \cup {NoUser}
         /\ Target(r) \in Name
<1>1. msg[r] \in PayloadType
  BY ServiceAssumption DEF TypeOK
<1> QED
  BY <1>1, NameAssumption DEF TypeOK, PayloadType, Target

\* The key of a caller is a key of the store.
LEMMA CallerKeyType ==
  ASSUME TypeOK, NEW r \in Request, pc[r] # "idle",
         Addressed(msg[r]), Verifiable(msg[r]), CallerMatches(r) # {}
  PROVE  CallerKey(r) \in Key
<1>1. ResolvedDomain(msg[r].domain) \in Range(Domains) \cap Name
  BY Bodies, ResolvedDomainIsManaged DEF Addressed
<1>2. profile[msg[r].token] \in ProfileType
  BY ServiceAssumption DEF TypeOK, Verifiable
<1>3. PickAlias(profile[msg[r].token], ResolvedDomain(msg[r].domain)) \in Name
  BY <1>1, <1>2, PickAliasIsOwned DEF CallerMatches
<1> QED
  BY <1>1, <1>3 DEF CallerKey, Key

\* A request that waits for auth-service has passed the tests before it.
Admitted ==
  \A r \in Request :
    /\ pc[r] = "auth" => /\ msg[r].subject \in {"set_target", "get_forward"}
                         /\ Addressed(msg[r]) /\ Verifiable(msg[r])
    /\ pc[r] = "check" => msg[r].subject = "check_alias"
    /\ pc[r] = "read" => msg[r].subject = "get_forward"
    /\ pc[r] \in {"exists", "write"} => msg[r].subject = "set_target"
    /\ pc[r] \in {"check", "exists", "read", "write"} => key[r] \in Key

\* Only a request past the existence test has a write.
Written ==
  \A r \in Request :
    wire[r] # "none" => /\ pc[r] \in {"write", "done", "lost"}
                        /\ key[r] \in Key /\ msg[r].subject = "set_target"

\* What waits in a subscription has been published.
Enqueued ==
  \A q \in Subscription : \A i \in DOMAIN queue[q] : pc[queue[q][i]] # "idle"

TypeInv == TypeOK /\ Admitted /\ Written /\ Enqueued
-----------------------------------------------------------------------------
\* The request a goroutine is at heads the messages of its subscription.
LEMMA FirstOfQueue ==
  ASSUME TypeOK, NEW q \in Subscription, NEW r \in First(q)
  PROVE  /\ r \in Request /\ queue[q] \in Seq(Request) /\ queue[q] # <<>>
         /\ r = queue[q][1] /\ Tail(queue[q]) \in Seq(Request)
<1>1. queue[q] \in Seq(Request)
  BY DEF TypeOK
<1>2. 1 \in DOMAIN queue[q] /\ r = queue[q][1]
  BY DEF First
<1>3. queue[q] # <<>>
  BY <1>1, <1>2
<1> QED
  BY <1>1, <1>2, <1>3

\* The four replies are replies.
LEMMA Replies ==
  /\ \A code \in ErrorCode : ErrorReply(code) \in ReplyType
  /\ NotFoundReply \in ReplyType
  /\ \A flag \in BOOLEAN, alias, target \in Name :
       [error |-> OK, flag |-> flag, alias |-> alias, target |-> target] \in ReplyType
<1>1. OK \in ErrorCode
  BY DEF ErrorCode
<1> QED
  BY <1>1, NameAssumption DEF ErrorReply, NotFoundReply, ReplyType

\* An update leaves an entry.
LEMMA UpdatedIsEntry ==
  ASSUME NEW r \in Request, Target(r) \in Name, NEW e \in Entry
  PROVE  Updated(r, e) \in Entry
<1>1. <<Target(r)>> \in Seq(Name)
  OBVIOUS
<1>2. [e EXCEPT !.recipients = <<Target(r)>>] \in Entry
  BY <1>1 DEF Entry
<1>3. \A d \in Entry : [d EXCEPT !.enabled = TRUE] \in Entry
  BY DEF Entry
<1>4. Updated(r, e) = [[e EXCEPT !.recipients = <<Target(r)>>] EXCEPT !.enabled = TRUE]
  BY Zenon DEF Updated
<1> QED
  BY <1>2, <1>3, <1>4

\* A handler that returns keeps the invariant, whatever it returns; one of them
\* has just set its key.
LEMMA FinishWithKey ==
  ASSUME TypeInv, NEW q \in Subscription, NEW r \in First(q), NEW reply \in ReplyType,
         Finish(q, r, reply), pc[r] # "idle",
         key' \in [Request -> Key \cup {NoKey}],
         \A o \in Request : key'[o] # key[o] => o = r /\ wire[r] = "none",
         UNCHANGED <<msg, wire, store, profile, up>>
  PROVE  TypeInv'
<1> USE DEF TypeInv
<1>1. r \in Request /\ Tail(queue[q]) \in Seq(Request)
  BY FirstOfQueue
<1>2. pc' = [pc EXCEPT ![r] = "done"] /\ pc \in [Request -> Stage]
  BY DEF Finish, TypeOK
<1>3. TypeOK'
  <2>1. pc' \in [Request -> Stage]
    BY <1>2 DEF Stage
  <2>2. \A s \in Request : pc'[s] # "idle" => msg'[s] \in Payload
    BY <1>1, <1>2 DEF TypeOK
  <2>3. queue' \in [Subscription -> Seq(Request)]
    BY <1>1 DEF Finish, TypeOK
  <2>4. outcome' \in [Request -> ReplyType \cup {NoOutcome}]
    BY <1>1 DEF Finish, TypeOK
  <2> QED
    BY <2>1, <2>2, <2>3, <2>4 DEF TypeOK
<1>4. Admitted'
  BY <1>1, <1>2 DEF Admitted, Addressed, Verifiable
<1>5. Written'
  BY <1>1, <1>2 DEF Written
<1>6. Enqueued'
  <2>1. \A t \in Subscription : \A i \in DOMAIN queue'[t] :
          \E j \in DOMAIN queue[t] : queue'[t][i] = queue[t][j]
    <3> SUFFICES ASSUME NEW t \in Subscription, NEW i \in DOMAIN queue'[t]
                 PROVE  \E j \in DOMAIN queue[t] : queue'[t][i] = queue[t][j]
      OBVIOUS
    <3>1. CASE t = q
      <4>1. queue[q] \in Seq(Request) /\ queue[q] # <<>> /\ queue'[t] = Tail(queue[q])
        BY <3>1, FirstOfQueue DEF Finish, TypeOK
      <4>2. i \in 1..Len(Tail(queue[q])) /\ i + 1 \in DOMAIN queue[q]
        BY <4>1, HeadTailProperties
      <4> QED
        BY <3>1, <4>1, <4>2, HeadTailProperties
    <3>2. CASE t # q
      BY <3>2 DEF Finish, TypeOK
    <3> QED
      BY <3>1, <3>2
  <2> QED
    BY <1>1, <1>2, <2>1 DEF Enqueued, TypeOK
<1> QED
  BY <1>3, <1>4, <1>5, <1>6

\* The same for a handler that returns and has not touched its key.
LEMMA FinishKeeps ==
  ASSUME TypeInv, NEW q \in Subscription, NEW r \in First(q), NEW reply \in ReplyType,
         Finish(q, r, reply), pc[r] # "idle",
         UNCHANGED <<msg, key, wire, store, profile, up>>
  PROVE  TypeInv'
<1>1. key' \in [Request -> Key \cup {NoKey}]
  BY DEF TypeInv, TypeOK
<1>2. \A o \in Request : key'[o] = key[o]
  OBVIOUS
<1> QED
  BY <1>1, <1>2, FinishWithKey

\* A handler that goes on to its next wait keeps it, when what the wait requires
\* of the message and of its key is there.
LEMMA AdvanceKeeps ==
  ASSUME TypeInv, NEW q \in Subscription, NEW r \in First(q), NEW s \in Waits,
         Advance(r, s), pc[r] # "idle", wire[r] = "none" \/ s = "write",
         s = "auth" => /\ msg[r].subject \in {"set_target", "get_forward"}
                       /\ Addressed(msg[r]) /\ Verifiable(msg[r]),
         s = "check" => msg[r].subject = "check_alias",
         s = "read" => msg[r].subject = "get_forward",
         s \in {"exists", "write"} => msg[r].subject = "set_target",
         s # "auth" => key'[r] \in Key,
         key' \in [Request -> Key \cup {NoKey}],
         \A o \in Request \ {r} : key'[o] = key[o] /\ wire'[o] = wire[o],
         wire' \in [Request -> WireState], wire'[r] = "none" \/ s = "write",
         UNCHANGED <<msg, store, profile, up>>
  PROVE  TypeInv'
<1> USE DEF TypeInv
<1>1. r \in Request
  BY FirstOfQueue
<1>2. pc' = [pc EXCEPT ![r] = s] /\ pc \in [Request -> Stage]
  BY DEF Advance, TypeOK
<1>3. TypeOK'
  <2>1. pc' \in [Request -> Stage]
    BY <1>2 DEF Stage
  <2>2. \A o \in Request : pc'[o] # "idle" => msg'[o] \in Payload
    BY <1>1, <1>2 DEF TypeOK
  <2> QED
    BY <2>1, <2>2 DEF TypeOK, Advance
<1>4. Admitted'
  BY <1>1, <1>2 DEF Admitted, Addressed, Verifiable, Waits
<1>5. Written'
  BY <1>1, <1>2 DEF Written, Waits
<1>6. Enqueued'
  BY <1>1, <1>2 DEF Enqueued, Advance, Waits, TypeOK
<1> QED
  BY <1>3, <1>4, <1>5, <1>6
-----------------------------------------------------------------------------
\* A service that has just started satisfies the invariant.
LEMMA TypeInvInit == Init => TypeInv
<1> SUFFICES ASSUME Init PROVE TypeInv
  OBVIOUS
<1>1. TypeOK
  <2>1. queue \in [Subscription -> Seq(Request)]
    BY DEF Init
  <2>2. profile \in [User -> Profile] /\ store \in [Key -> Entry \cup {Absent}]
    BY ServiceAssumption DEF Init
  <2> QED
    BY <2>1, <2>2 DEF Init, TypeOK, Stage, WireState
<1>2. Admitted /\ Written /\ Enqueued
  BY DEF Init, Admitted, Written, Enqueued
<1> QED
  BY <1>1, <1>2 DEF TypeInv

\* Every step of a handler keeps it: one case for each action.
LEMMA TypeInvHandler ==
  ASSUME TypeInv, NEW q \in Subscription, NEW r \in First(q), HandlerStep(q, r)
  PROVE  TypeInv'
<1> USE DEF TypeInv
<1>1. r \in Request
  BY FirstOfQueue
<1>2. key[r] \in Key \cup {NoKey} /\ key[r][2] \in Name
  BY <1>1, NameAssumption DEF TypeOK, Key, NoKey
<1>3. CASE Refuse(q, r)
  <2>1. pc[r] = "queued" /\ UNCHANGED <<msg, key, wire, store, profile, up>>
    BY <1>3 DEF Refuse, Serves, caller, remote
  <2>2. PICK code \in EarlyErrors(msg[r]) : Finish(q, r, ErrorReply(code))
    BY <1>3 DEF Refuse
  <2>3. code \in ErrorCode
    BY DEF EarlyErrors, ResolveError, ValidateError, ErrorCode, OK
  <2> QED
    BY <2>1, <2>2, <2>3, Replies, FinishKeeps
<1>4. CASE StartCheckAlias(q, r)
  <2>1. pc[r] = "queued" /\ UNCHANGED <<msg, wire, store, profile, up>>
    BY <1>4 DEF StartCheckAlias, Serves, caller, remote
  <2>2. msg[r].domain \in Name /\ msg[r].alias \in Name
    BY <1>1, <2>1, Bodies
  <2>3. ResolvedDomain(msg[r].domain) \in Range(Domains)
    BY <1>4, <2>2, ResolvedDomainIsManaged DEF StartCheckAlias, Addressed
  <2>4. <<ResolvedDomain(msg[r].domain), Normalised(msg[r].alias)>> \in Key
    BY <2>2, <2>3, NameAssumption DEF Key, Normalised, Fold
  <2>5. key' \in [Request -> Key \cup {NoKey}] /\ key'[r] \in Key
        /\ \A o \in Request \ {r} : key'[o] = key[o]
    BY <1>1, <1>4, <2>4 DEF StartCheckAlias, TypeOK
  <2>6. wire[r] = "none" /\ Advance(r, "check") /\ msg[r].subject = "check_alias"
    BY <1>1, <1>4, <2>1 DEF StartCheckAlias, Written
  <2> QED
    BY <2>1, <2>5, <2>6, AdvanceKeeps DEF Waits, TypeOK
<1>5. CASE StartAuthenticated(q, r)
  <2>1. pc[r] = "queued" /\ UNCHANGED <<msg, key, wire, store, profile, up>>
    BY <1>5 DEF StartAuthenticated, Serves, caller, remote
  <2>2. /\ Advance(r, "auth") /\ wire[r] = "none"
        /\ msg[r].subject \in {"set_target", "get_forward"}
        /\ Addressed(msg[r]) /\ Verifiable(msg[r])
    BY <1>1, <1>5, <2>1 DEF StartAuthenticated, Written
  <2> QED
    BY <2>1, <2>2, AdvanceKeeps DEF Waits, TypeOK
<1>6. CASE AuthAnswersAlias(q, r)
  <2>1. pc[r] = "auth" /\ UNCHANGED <<msg, wire, store, profile, up>>
    BY <1>6 DEF AuthAnswersAlias, Serves, caller, remote
  <2>2. Addressed(msg[r]) /\ Verifiable(msg[r])
    BY <1>1, <2>1 DEF Admitted
  <2>3. CallerKey(r) \in Key
    BY <1>1, <1>6, <2>1, <2>2, CallerKeyType DEF AuthAnswersAlias
  <2>4. key' \in [Request -> Key \cup {NoKey}] /\ key'[r] \in Key
        /\ \A o \in Request \ {r} : key'[o] = key[o]
    BY <1>1, <1>6, <2>3 DEF AuthAnswersAlias, TypeOK
  <2>5. wire[r] = "none"
    BY <1>1, <2>1 DEF Written
  <2>6. CASE msg[r].subject = "get_forward" /\ Advance(r, "read")
    BY <2>1, <2>4, <2>5, <2>6, AdvanceKeeps DEF Waits, TypeOK
  <2>7. CASE msg[r].subject = "set_target" /\ Advance(r, "exists")
    BY <2>1, <2>4, <2>5, <2>7, AdvanceKeeps DEF Waits, TypeOK
  <2>8. CASE Finish(q, r, ErrorReply("target_email_invalid"))
    <3>1. ErrorReply("target_email_invalid") \in ReplyType
      BY Replies DEF ErrorCode
    <3> QED
      BY <2>1, <2>4, <2>5, <2>8, <3>1, FinishWithKey
  <2> QED
    BY <1>6, <2>6, <2>7, <2>8 DEF AuthAnswersAlias
<1>7. CASE AuthAnswersNone(q, r)
  <2>1. pc[r] = "auth" /\ UNCHANGED <<msg, key, wire, store, profile, up>>
    BY <1>7 DEF AuthAnswersNone, Serves, caller, remote
  <2>2. ErrorReply("not_found") \in ReplyType /\ NotFoundReply \in ReplyType
    BY Replies DEF ErrorCode
  <2> QED
    BY <1>7, <2>1, <2>2, FinishKeeps DEF AuthAnswersNone
<1>8. CASE AuthFails(q, r)
  <2>1. pc[r] = "auth" /\ UNCHANGED <<msg, key, wire, store, profile, up>>
    BY <1>8 DEF AuthFails, Serves, caller, remote
  <2>2. ErrorReply("unauthorized") \in ReplyType
    BY Replies DEF ErrorCode
  <2> QED
    BY <1>8, <2>1, <2>2, FinishKeeps DEF AuthFails
<1>9. CASE CheckAnswers(q, r)
  <2>1. pc[r] = "check" /\ UNCHANGED <<msg, key, wire, store, profile, up>>
    BY <1>9 DEF CheckAnswers, Serves, caller, remote
  <2>2. [error |-> OK, flag |-> Exists(key[r]), alias |-> key[r][2], target |-> Empty]
          \in ReplyType
    BY <1>2, Replies, NameAssumption DEF Exists
  <2> QED
    BY <1>9, <2>1, <2>2, FinishKeeps DEF CheckAnswers
<1>10. CASE ReadAnswers(q, r)
  <2>1. pc[r] = "read" /\ UNCHANGED <<msg, key, wire, store, profile, up>>
    BY <1>10 DEF ReadAnswers, Serves, caller, remote
  <2>2. Exists(key[r]) => FirstRecipient(store[key[r]]) \in Name
    <3>1. key[r] \in Key
      BY <1>1, <2>1 DEF Admitted
    <3> SUFFICES ASSUME Exists(key[r]) PROVE FirstRecipient(store[key[r]]) \in Name
      OBVIOUS
    <3>2. store[key[r]].recipients \in Seq(Name)
      BY <3>1 DEF Exists, TypeOK, Entry
    <3> QED
      BY <3>2, NameAssumption DEF FirstRecipient
  <2>3. (IF Exists(key[r])
           THEN [error |-> OK, flag |-> TRUE, alias |-> key[r][2],
                 target |-> FirstRecipient(store[key[r]])]
           ELSE NotFoundReply) \in ReplyType
    BY <1>2, <2>2, Replies
  <2> QED
    BY <1>10, <2>1, <2>3, FinishKeeps DEF ReadAnswers
<1>11. CASE ExistsAnswers(q, r)
  <2>1. pc[r] = "exists" /\ UNCHANGED <<msg, key, store, profile, up>>
    BY <1>11 DEF ExistsAnswers, Serves, caller
  <2>2. msg[r].subject = "set_target" /\ key[r] \in Key
    BY <1>1, <2>1 DEF Admitted
  <2>3. /\ wire' \in [Request -> WireState]
        /\ \A o \in Request \ {r} : key'[o] = key[o] /\ wire'[o] = wire[o]
    BY <1>1, <1>11, <2>1 DEF ExistsAnswers, TypeOK, WireState, Sent
  <2>4. Advance(r, "write")
    BY <1>11 DEF ExistsAnswers
  <2> QED
    BY <2>1, <2>2, <2>3, <2>4, AdvanceKeeps DEF Waits, TypeOK
<1>12. CASE ReadFails(q, r)
  <2>1. pc[r] # "idle" /\ UNCHANGED <<msg, key, wire, store, profile, up>>
    BY <1>12 DEF ReadFails, Serves, caller, remote
  <2>2. ErrorReply("forwardemail_error") \in ReplyType
    BY Replies DEF ErrorCode
  <2> QED
    BY <1>12, <2>1, <2>2, FinishKeeps DEF ReadFails
<1>13. CASE WriteAnswers(q, r)
  <2>1. pc[r] = "write" /\ UNCHANGED <<msg, key, wire, store, profile, up>>
    BY <1>13 DEF WriteAnswers, Serves, caller, remote
  <2>2. Target(r) \in Name
    BY <1>1, <2>1, Bodies
  <2>3. [error |-> OK, flag |-> FALSE, alias |-> key[r][2], target |-> Target(r)]
          \in ReplyType
    BY <1>2, <2>2, Replies
  <2> QED
    BY <1>13, <2>1, <2>3, FinishKeeps DEF WriteAnswers
<1>14. CASE WriteFails(q, r)
  <2>1. pc[r] = "write" /\ UNCHANGED <<msg, key, wire, store, profile, up>>
    BY <1>14 DEF WriteFails, Serves, caller, remote
  <2>2. ErrorReply("forwardemail_error") \in ReplyType
    BY Replies DEF ErrorCode
  <2> QED
    BY <1>14, <2>1, <2>2, FinishKeeps DEF WriteFails
<1> QED
  BY <1>3, <1>4, <1>5, <1>6, <1>7, <1>8, <1>9, <1>10, <1>11, <1>12, <1>13, <1>14
     DEF HandlerStep

\* So do the steps of callers, forwardemail.net, replicas and auth-service.
LEMMA TypeInvOutside ==
  ASSUME TypeInv,
         \/ \E r \in Request, m \in Payload, p \in Replica : Publish(r, m, p)
         \/ \E r \in Request : ApplyWrite(r) \/ RejectWrite(r)
         \/ \E p \in Replica : Exit(p) \/ Restart(p)
         \/ \E u \in User, f \in Profile : Relink(u, f)
         \/ \E k \in Removable : Remove(k)
         \/ UNCHANGED vars
  PROVE  TypeInv'
<1> USE DEF TypeInv
<1>1. CASE \E r \in Request, m \in Payload, p \in Replica : Publish(r, m, p)
  <2> PICK r \in Request, m \in Payload, p \in Replica : Publish(r, m, p)
    BY <1>1
  <2>1. /\ pc[r] = "idle"
        /\ msg' = [msg EXCEPT ![r] = m] /\ pc' = [pc EXCEPT ![r] = "queued"]
        /\ UNCHANGED <<key, outcome, wire, store, profile, up>>
    BY DEF Publish, remote
  <2>2. m.subject \in Subject
    BY ServiceAssumption DEF PayloadType
  <2>3. queue' \in [Subscription -> Seq(Request)]
    <3>1. <<p, m.subject>> \in Subscription
      BY <2>2 DEF Subscription
    <3>2. Append(queue[<<p, m.subject>>], r) \in Seq(Request)
      BY <3>1 DEF TypeOK
    <3>3. queue' = [queue EXCEPT ![<<p, m.subject>>] = Append(@, r)]
      BY DEF Publish
    <3> QED
      BY <3>1, <3>2, <3>3 DEF TypeOK
  <2>4. TypeOK'
    BY <2>1, <2>3 DEF TypeOK, Stage
  <2>5. Admitted'
    BY <2>1 DEF Admitted, Addressed, Verifiable, TypeOK
  <2>6. Written'
    BY <2>1 DEF Written, TypeOK
  <2>7. Enqueued'
    <3>1. queue' = [queue EXCEPT ![<<p, m.subject>>] = Append(@, r)]
      BY DEF Publish
    <3>2. \A t \in Subscription : \A i \in DOMAIN queue'[t] :
            \/ queue'[t][i] = r
            \/ i \in DOMAIN queue[t] /\ queue'[t][i] = queue[t][i]
      <4> SUFFICES ASSUME NEW t \in Subscription, NEW i \in DOMAIN queue'[t],
                          queue'[t][i] # r
                   PROVE  i \in DOMAIN queue[t] /\ queue'[t][i] = queue[t][i]
        OBVIOUS
      <4>1. queue[t] \in Seq(Request)
        BY DEF TypeOK
      <4>2. CASE t = <<p, m.subject>>
        <5>1. queue'[t] = Append(queue[t], r)
          BY <3>1, <4>2 DEF TypeOK
        <5> QED
          BY <4>1, <5>1, AppendProperties
      <4>3. CASE t # <<p, m.subject>>
        BY <3>1, <4>3 DEF TypeOK
      <4> QED
        BY <4>2, <4>3
    <3> QED
      BY <2>1, <3>2 DEF Enqueued, TypeOK
  <2> QED
    BY <2>4, <2>5, <2>6, <2>7
<1>2. CASE \E r \in Request : ApplyWrite(r)
  <2> PICK r \in Request : ApplyWrite(r)
    BY <1>2
  <2>1. /\ wire[r] \in Sent /\ wire' = [wire EXCEPT ![r] = "applied"]
        /\ UNCHANGED <<msg, pc, queue, outcome, key, profile, up>>
    BY DEF ApplyWrite, Sent, caller, local
  <2>2. key[r] \in Key /\ pc[r] # "idle"
    BY <2>1 DEF Written, Sent
  <2>3. msg[r].token \in User \cup {NoUser} /\ Target(r) \in Name
    BY <2>2, Bodies
  <2>4. Created(r) \in Entry
    BY <2>3 DEF Created, Entry
  <2>5. \A e \in Entry : Updated(r, e) \in Entry
    BY <2>3, UpdatedIsEntry
  <2>6. store' \in [Key -> Entry \cup {Absent}]
    <3>1. store[key[r]] # Absent => store[key[r]] \in Entry
      BY <2>2 DEF TypeOK
    <3>2. CASE store' = [store EXCEPT ![key[r]] = Created(r)]
      BY <2>4, <3>2 DEF TypeOK
    <3>3. CASE Exists(key[r]) /\ store' = [store EXCEPT ![key[r]] = Updated(r, @)]
      BY <2>2, <2>5, <3>1, <3>3 DEF TypeOK, Exists
    <3> QED
      BY <3>2, <3>3 DEF ApplyWrite
  <2>7. TypeOK'
    BY <2>1, <2>6 DEF TypeOK, WireState
  <2>8. Admitted'
    BY <2>1 DEF Admitted, Addressed, Verifiable
  <2>9. Written'
    BY <2>1 DEF Written, TypeOK, Sent
  <2>10. Enqueued'
    BY <2>1 DEF Enqueued
  <2> QED
    BY <2>7, <2>8, <2>9, <2>10
<1>3. CASE \E r \in Request : RejectWrite(r)
  <2> PICK r \in Request : RejectWrite(r)
    BY <1>3
  <2>1. /\ wire[r] \in Sent /\ wire' = [wire EXCEPT ![r] = "rejected"]
        /\ UNCHANGED <<msg, pc, queue, outcome, key, store, profile, up>>
    BY DEF RejectWrite, caller, local
  <2> QED
    BY <2>1 DEF TypeOK, WireState, Admitted, Addressed, Verifiable, Written, Sent,
               Enqueued
<1>4. CASE \E p \in Replica : Exit(p)
  <2> PICK p \in Replica : Exit(p)
    BY <1>4
  <2>1. /\ pc' = [r \in Request |-> IF Holds(p, r) THEN "lost" ELSE pc[r]]
        /\ queue' = [q \in Subscription |-> IF q[1] = p THEN <<>> ELSE queue[q]]
        /\ up' = up \ {p}
        /\ UNCHANGED <<msg, key, outcome, wire, store, profile>>
    BY DEF Exit, caller, remote
  <2>2. \A r \in Request : Holds(p, r) => pc[r] # "idle"
    BY DEF Holds, Enqueued, Subscription, Range
  <2>3. TypeOK'
    <3>1. pc' \in [Request -> Stage] /\ up' \subseteq Replica
      BY <2>1 DEF TypeOK, Stage
    <3>2. \A r \in Request : pc'[r] # "idle" => msg'[r] \in Payload
      BY <2>1, <2>2 DEF TypeOK
    <3>3. queue' \in [Subscription -> Seq(Request)]
      BY <2>1 DEF TypeOK
    <3> QED
      BY <2>1, <3>1, <3>2, <3>3 DEF TypeOK
  <2>4. Admitted' /\ Written'
    BY <2>1 DEF Admitted, Addressed, Verifiable, Written
  <2>5. Enqueued'
    BY <2>1 DEF Enqueued, TypeOK
  <2> QED
    BY <2>3, <2>4, <2>5
<1>5. CASE \E p \in Replica : Restart(p)
  <2> PICK p \in Replica : Restart(p)
    BY <1>5
  <2> QED
    BY DEF Restart, caller, local, remote, TypeOK, Admitted, Addressed, Verifiable,
           Written, Enqueued
<1>6. CASE \E u \in User, f \in Profile : Relink(u, f)
  <2> PICK u \in User, f \in Profile : Relink(u, f)
    BY <1>6
  <2> QED
    BY DEF Relink, caller, local, remote, TypeOK, Admitted, Addressed, Verifiable,
           Written, Enqueued
<1>7. CASE \E k \in Removable : Remove(k)
  <2> PICK k \in Removable : Remove(k)
    BY <1>7
  <2> QED
    BY ZenonT(40)
       DEF Remove, caller, local, TypeOK, Admitted, Addressed, Verifiable, Written, Enqueued
<1>8. CASE UNCHANGED vars
  BY <1>8 DEF vars, TypeOK, Admitted, Addressed, Verifiable, Written, Enqueued
<1> QED
  BY <1>1, <1>2, <1>3, <1>4, <1>5, <1>6, <1>7, <1>8

\* Every step keeps it.
LEMMA TypeInvStep == TypeInv /\ [Next]_vars => TypeInv'
  BY TypeInvHandler, TypeInvOutside DEF Next

\* It holds in every state the service reaches.
LEMMA TypeInvariant == Spec => []TypeInv
  BY TypeInvInit, TypeInvStep, PTL DEF Spec

\* Every variable keeps its type: no handler stores, sends or returns anything
\* malformed, whatever the messages, the identities and the store hold.
THEOREM TypeCorrect == Spec => []TypeOK
  BY TypeInvariant, PTL DEF TypeInv
-----------------------------------------------------------------------------
(* Replies and writes.                                                     *)

Truthful ==
  \A r \in Request : pc[r] = "done" =>
    /\ outcome[r].error \in Refusals => wire[r] = "none"
    /\ msg[r].subject = "set_target" /\ outcome[r].error = OK =>
         wire[r] = "applied" /\ outcome[r].alias = key[r][2]

\* A reply is truthful when it is sent.
LEMMA FinishTruthful ==
  ASSUME TypeInv, Truthful, NEW q \in Subscription, NEW r \in First(q),
         NEW reply \in ReplyType, Finish(q, r, reply),
         \A o \in Request \ {r} : key'[o] = key[o],
         reply.error \in Refusals => wire[r] = "none",
         msg[r].subject = "set_target" /\ reply.error = OK =>
           wire[r] = "applied" /\ reply.alias = key'[r][2],
         UNCHANGED <<msg, wire>>
  PROVE  Truthful'
<1>1. r \in Request
  BY FirstOfQueue DEF TypeInv
<1>2. /\ pc' = [pc EXCEPT ![r] = "done"] /\ outcome' = [outcome EXCEPT ![r] = reply]
      /\ pc \in [Request -> Stage] /\ outcome \in [Request -> ReplyType \cup {NoOutcome}]
  BY DEF Finish, TypeInv, TypeOK
<1>3. outcome'[r] = reply /\ \A o \in Request \ {r} : outcome'[o] = outcome[o] /\ pc'[o] = pc[o]
  BY <1>1, <1>2
<1> QED
  BY <1>1, <1>3 DEF Truthful, Refusals, OK

\* Every step of a handler keeps the replies of all requests truthful.
LEMMA TruthfulHandler ==
  ASSUME TypeInv, Truthful, NEW q \in Subscription, NEW r \in First(q), HandlerStep(q, r)
  PROVE  Truthful'
<1>1. r \in Request
  BY FirstOfQueue DEF TypeInv
<1>2. pc[r] \in {"queued", "auth", "check", "exists", "read"} => wire[r] = "none"
  BY <1>1 DEF TypeInv, Written
<1>3. key[r][2] \in Name
  BY <1>1, NameAssumption DEF TypeInv, TypeOK, Key, NoKey
<1>4. \A code \in ErrorCode : ErrorReply(code).error = code
  BY DEF ErrorReply
<1>5. ASSUME NEW s \in Waits, Advance(r, s), UNCHANGED msg,
             \A o \in Request \ {r} : key'[o] = key[o] /\ wire'[o] = wire[o]
      PROVE  Truthful'
  BY <1>1, <1>5 DEF Truthful, Advance, Waits, TypeInv, TypeOK
<1>6. CASE Refuse(q, r)
  <2>1. pc[r] = "queued" /\ UNCHANGED <<msg, key, wire>>
    BY <1>6 DEF Refuse, Serves, caller, remote
  <2>2. PICK code \in EarlyErrors(msg[r]) : Finish(q, r, ErrorReply(code))
    BY <1>6 DEF Refuse
  <2>3. code \in ErrorCode \ {OK}
    BY DEF EarlyErrors, Addressed, ResolveError, ValidateError, ErrorCode, OK
  <2> QED
    BY <1>2, <1>4, <2>1, <2>2, <2>3, Replies, FinishTruthful
<1>7. CASE StartCheckAlias(q, r)
  <2>1. Advance(r, "check") /\ UNCHANGED <<msg, wire>>
        /\ \A o \in Request \ {r} : key'[o] = key[o]
    BY <1>1, <1>7 DEF StartCheckAlias, caller, remote, TypeInv, TypeOK
  <2> QED
    BY <1>5, <2>1 DEF Waits
<1>8. CASE StartAuthenticated(q, r)
  <2>1. Advance(r, "auth") /\ UNCHANGED <<msg, key, wire>>
    BY <1>8 DEF StartAuthenticated, caller, remote
  <2> QED
    BY <1>5, <2>1 DEF Waits
<1>9. CASE AuthAnswersAlias(q, r)
  <2>1. pc[r] = "auth" /\ UNCHANGED <<msg, wire>>
        /\ \A o \in Request \ {r} : key'[o] = key[o]
    BY <1>1, <1>9 DEF AuthAnswersAlias, Serves, caller, remote, TypeInv, TypeOK
  <2>2. CASE Advance(r, "read") \/ Advance(r, "exists")
    BY <1>5, <2>1, <2>2 DEF Waits
  <2>3. CASE Finish(q, r, ErrorReply("target_email_invalid"))
    <3>1. "target_email_invalid" \in ErrorCode \ {OK}
      BY DEF ErrorCode, OK
    <3> QED
      BY <1>2, <1>4, <2>1, <2>3, <3>1, Replies, FinishTruthful
  <2> QED
    BY <1>9, <2>2, <2>3 DEF AuthAnswersAlias
<1>10. CASE AuthAnswersNone(q, r)
  <2>1. pc[r] = "auth" /\ UNCHANGED <<msg, key, wire>>
    BY <1>10 DEF AuthAnswersNone, Serves, caller, remote
  <2>2. "not_found" \in ErrorCode \ {OK}
    BY DEF ErrorCode, OK
  <2>3. CASE msg[r].subject = "set_target"
    <3>1. Finish(q, r, ErrorReply("not_found"))
      BY <1>10, <2>3 DEF AuthAnswersNone
    <3> QED
      BY <1>2, <1>4, <2>1, <2>2, <3>1, Replies, FinishTruthful
  <2>4. CASE msg[r].subject # "set_target"
    <3>1. Finish(q, r, NotFoundReply)
      BY <1>10, <2>4 DEF AuthAnswersNone
    <3> QED
      BY <1>2, <2>1, <2>4, <3>1, Replies, FinishTruthful
  <2> QED
    BY <2>3, <2>4
<1>11. CASE AuthFails(q, r)
  <2>1. pc[r] = "auth" /\ UNCHANGED <<msg, key, wire>>
    BY <1>11 DEF AuthFails, Serves, caller, remote
  <2>2. "unauthorized" \in ErrorCode \ {OK} /\ Finish(q, r, ErrorReply("unauthorized"))
    BY <1>11 DEF AuthFails, ErrorCode, OK
  <2> QED
    BY <1>2, <1>4, <2>1, <2>2, Replies, FinishTruthful
<1>12. CASE CheckAnswers(q, r) \/ ReadAnswers(q, r)
  <2>1. pc[r] \in {"check", "read"} /\ UNCHANGED <<msg, key, wire>>
    BY <1>12 DEF CheckAnswers, ReadAnswers, Serves, caller, remote
  <2>2. msg[r].subject # "set_target"
    BY <1>1, <2>1 DEF TypeInv, Admitted
  <2>3. PICK reply : Finish(q, r, reply)
    BY <1>12 DEF CheckAnswers, ReadAnswers
  <2> QED
    BY <1>1, <1>2, <2>1, <2>2, <2>3 DEF Finish, Truthful, TypeInv, TypeOK
<1>13. CASE ExistsAnswers(q, r)
  <2>1. Advance(r, "write") /\ UNCHANGED <<msg, key>>
        /\ \A o \in Request \ {r} : wire'[o] = wire[o]
    BY <1>1, <1>13 DEF ExistsAnswers, caller, TypeInv, TypeOK
  <2> QED
    BY <1>5, <2>1 DEF Waits
<1>14. CASE ReadFails(q, r) \/ WriteFails(q, r)
  <2>1. Finish(q, r, ErrorReply("forwardemail_error")) /\ UNCHANGED <<msg, key, wire>>
    BY <1>14 DEF ReadFails, WriteFails, caller, remote
  <2>2. "forwardemail_error" \in ErrorCode \ (Refusals \cup {OK})
    BY DEF ErrorCode, Refusals, OK
  <2> QED
    BY <1>4, <2>1, <2>2, Replies, FinishTruthful
<1>15. CASE WriteAnswers(q, r)
  <2>1. /\ pc[r] = "write" /\ wire[r] = "applied" /\ UNCHANGED <<msg, key, wire>>
        /\ Finish(q, r, [error |-> OK, flag |-> FALSE, alias |-> key[r][2],
                         target |-> Target(r)])
    BY <1>15 DEF WriteAnswers, Serves, caller, remote
  <2>2. Target(r) \in Name
    BY <1>1, <2>1, Bodies DEF TypeInv
  <2>3. [error |-> OK, flag |-> FALSE, alias |-> key[r][2], target |-> Target(r)]
          \in ReplyType
    BY <1>3, <2>2, Replies
  <2>4. OK \notin Refusals
    BY DEF Refusals
  <2> QED
    BY <2>1, <2>3, <2>4, FinishTruthful
<1> QED
  BY <1>6, <1>7, <1>8, <1>9, <1>10, <1>11, <1>12, <1>13, <1>14, <1>15 DEF HandlerStep

\* So does every step: a reply stays truthful after it was sent.
LEMMA TruthfulStep == TypeInv /\ Truthful /\ [Next]_vars => Truthful'
<1> SUFFICES ASSUME TypeInv, Truthful, [Next]_vars PROVE Truthful'
  OBVIOUS
<1>1. CASE \E q \in Subscription : \E r \in First(q) : HandlerStep(q, r)
  BY <1>1, TruthfulHandler
<1>2. CASE \E r \in Request, m \in Payload, p \in Replica : Publish(r, m, p)
  <2> PICK r \in Request, m \in Payload, p \in Replica : Publish(r, m, p)
    BY <1>2
  <2>1. /\ msg' = [msg EXCEPT ![r] = m] /\ pc' = [pc EXCEPT ![r] = "queued"]
        /\ UNCHANGED <<key, outcome, wire>>
    BY DEF Publish, remote
  <2> QED
    BY <2>1 DEF Truthful, TypeInv, TypeOK
<1>3. CASE \E r \in Request : ApplyWrite(r) \/ RejectWrite(r)
  <2> PICK r \in Request : ApplyWrite(r) \/ RejectWrite(r)
    BY <1>3
  <2>1. /\ wire[r] \in Sent /\ \A o \in Request \ {r} : wire'[o] = wire[o]
        /\ UNCHANGED <<msg, pc, outcome, key>>
    BY DEF ApplyWrite, RejectWrite, Sent, caller, local, TypeInv, TypeOK
  <2> QED
    BY <2>1 DEF Truthful, Sent
<1>4. CASE \E p \in Replica : Exit(p)
  <2> PICK p \in Replica : Exit(p)
    BY <1>4
  <2>1. /\ pc' = [r \in Request |-> IF Holds(p, r) THEN "lost" ELSE pc[r]]
        /\ UNCHANGED <<msg, key, outcome, wire>>
    BY DEF Exit, caller, remote
  <2> QED
    BY <2>1 DEF Truthful
<1>5. CASE \/ \E p \in Replica : Restart(p)
           \/ \E u \in User, f \in Profile : Relink(u, f)
           \/ \E k \in Removable : Remove(k)
           \/ UNCHANGED vars
  <2>1. UNCHANGED <<msg, pc, outcome, key, wire>>
    BY <1>5 DEF Restart, Relink, Remove, vars, caller, local, remote
  <2> QED
    BY <2>1 DEF Truthful
<1> QED
  BY <1>1, <1>2, <1>3, <1>4, <1>5 DEF Next

\* The replies of all requests are truthful in every state the service reaches.
LEMMA TruthfulInvariant == Spec => [](TypeInv /\ Truthful)
<1>1. Init => Truthful
  BY DEF Init, Truthful
<1> QED
  BY <1>1, TypeInvInit, TypeInvStep, TruthfulStep, PTL DEF Spec

\* A refusal is final: neither before nor after the reply is anything done for
\* the request at forwardemail.net.
THEOREM RefusalIsFinal == Spec => []RefusedMeansUntouched
<1>1. Truthful => RefusedMeansUntouched
  BY DEF Truthful, RefusedMeansUntouched
<1> QED
  BY <1>1, TruthfulInvariant, PTL

\* A success reply follows the effect, on the key it names, and only set_target
\* writes.
THEOREM SuccessFollowsEffect == Spec => []SuccessMeansWritten
<1>1. TypeInv /\ Truthful => SuccessMeansWritten
  BY DEF TypeInv, Written, Truthful, SuccessMeansWritten
<1> QED
  BY <1>1, TruthfulInvariant, PTL
-----------------------------------------------------------------------------
(* The store.                                                              *)

\* Handlers, callers, replicas and auth-service leave the store to forwardemail.net.
LEMMA StoreChanges ==
  ASSUME Next
  PROVE  \/ store' = store
         \/ \E r \in Request : ApplyWrite(r)
         \/ \E k \in Removable : Remove(k)
<1>1. CASE \E q \in Subscription : \E r \in First(q) : HandlerStep(q, r)
  BY <1>1 DEF HandlerStep, Refuse, StartCheckAlias, StartAuthenticated,
       AuthAnswersAlias, AuthAnswersNone, AuthFails, CheckAnswers, ReadAnswers,
       ExistsAnswers, ReadFails, WriteAnswers, WriteFails, remote
<1>2. CASE \/ \E r \in Request, m \in Payload, p \in Replica : Publish(r, m, p)
           \/ \E r \in Request : RejectWrite(r)
           \/ \E p \in Replica : Exit(p) \/ Restart(p)
           \/ \E u \in User, f \in Profile : Relink(u, f)
  BY <1>2 DEF Publish, RejectWrite, Exit, Restart, Relink, remote
<1> QED
  BY <1>1, <1>2 DEF Next

\* A write that is carried out on an existing entry keeps its label, and one that
\* creates an entry finds none there.
LEMMA WritesKeepCreator ==
  ASSUME TypeInv, NEW r \in Request, ApplyWrite(r), NEW k \in Key, Exists(k)
  PROVE  store'[k].label = store[k].label
<1>1. key[r] \in Key /\ store \in [Key -> Entry \cup {Absent}]
  BY DEF TypeInv, TypeOK, Written, ApplyWrite
<1>2. CASE wire[r] = "POST" /\ ~Exists(key[r])
            /\ store' = [store EXCEPT ![key[r]] = Created(r)]
  BY <1>1, <1>2 DEF Exists
<1>3. CASE wire[r] = "PUT" /\ Exists(key[r])
            /\ store' = [store EXCEPT ![key[r]] = Updated(r, @)]
  <2>1. CASE k = key[r]
    <3>1. store[k] \in Entry
      BY <1>1 DEF Exists
    <3>2. Updated(r, store[k]).label = store[k].label
      BY <3>1 DEF Updated, Entry
    <3> QED
      BY <1>1, <1>3, <2>1, <3>2
  <2>2. CASE k # key[r]
    BY <1>1, <1>3, <2>2
  <2> QED
    BY <2>1, <2>2
<1> QED
  BY <1>2, <1>3 DEF ApplyWrite

\* The label of an entry keeps naming its creator, whoever races to create it
\* and whoever updates it later.
THEOREM CreatorIsKept == Spec => CreatorKept
<1> DEFINE Kept == \A k \in Key : Exists(k) /\ store'[k] # Absent =>
                     store'[k].label = store[k].label
<1>1. TypeInv /\ [Next]_vars => [Kept]_store
  <2> SUFFICES ASSUME TypeInv, Next, NEW k \in Key, Exists(k), store'[k] # Absent
               PROVE  store'[k].label = store[k].label \/ store' = store
    BY DEF vars
  <2>1. CASE \E r \in Request : ApplyWrite(r)
    BY <2>1, WritesKeepCreator
  <2>2. CASE \E j \in Removable : Remove(j)
    BY <2>2 DEF Remove, TypeInv, TypeOK
  <2> QED
    BY <2>1, <2>2, StoreChanges
<1> QED
  BY <1>1, TypeInvariant, PTL DEF Spec, CreatorKept
-----------------------------------------------------------------------------
(* The queues.                                                             *)

\* A message has one place.
LEMMA OnePlace ==
  ASSUME QueueDiscipline, NEW q \in Subscription, NEW t \in Subscription,
         NEW i \in DOMAIN queue[q], NEW j \in DOMAIN queue[t], queue[q][i] = queue[t][j]
  PROVE  q = t /\ i = j
  BY DEF QueueDiscipline

\* A message that is published comes last in one subscription.
LEMMA PublishKeepsQueues ==
  ASSUME TypeInv, QueueDiscipline, NEW r \in Request, NEW m \in Payload, NEW p \in Replica,
         Publish(r, m, p)
  PROVE  QueueDiscipline'
<1> DEFINE t == <<p, m.subject>>
<1>1. t \in Subscription
  BY ServiceAssumption DEF Subscription, PayloadType
<1>2. /\ queue[t] \in Seq(Request) /\ queue \in [Subscription -> Seq(Request)]
      /\ pc \in [Request -> Stage] /\ pc[r] = "idle" /\ up' = up /\ p \in up
      /\ pc' = [pc EXCEPT ![r] = "queued"] /\ msg' = [msg EXCEPT ![r] = m]
      /\ msg \in [Request -> Payload \cup {Unsent}]
      /\ queue' = [queue EXCEPT ![t] = Append(@, r)]
  BY <1>1 DEF Publish, TypeInv, TypeOK
<1>3. \A q \in Subscription : \A i \in DOMAIN queue[q] : queue[q][i] \in Request \ {r}
  BY <1>2 DEF TypeInv, Enqueued
<1> HIDE DEF t
<1>3a. /\ DOMAIN queue'[t] = 1..(Len(queue[t]) + 1) /\ DOMAIN queue[t] = 1..Len(queue[t])
       /\ Len(queue[t]) \in Nat
       /\ \A i \in 1..Len(queue[t]) : queue'[t][i] = queue[t][i]
       /\ queue'[t][Len(queue[t]) + 1] = r
  <2>1. queue'[t] = Append(queue[t], r) /\ queue[t] \in Seq(Request)
    BY <1>1, <1>2
  <2> QED
    BY <2>1, AppendProperties
<1>3b. \A q \in Subscription : q # t => queue'[q] = queue[q]
  BY <1>2
<1>4. \A q \in Subscription : \A i \in DOMAIN queue'[q] :
        \/ i \in DOMAIN queue[q] /\ queue'[q][i] = queue[q][i]
        \/ q = t /\ i = Len(queue[t]) + 1 /\ queue'[q][i] = r
  BY <1>1, <1>2, <1>3a, <1>3b
<1>5. \A q \in Subscription : \A i \in DOMAIN queue[q] :
        i \in DOMAIN queue'[q] /\ queue'[q][i] = queue[q][i]
  BY <1>1, <1>2, <1>3a, <1>3b
<1>6. Len(queue[t]) + 1 \in DOMAIN queue'[t] /\ queue'[t][Len(queue[t]) + 1] = r
  BY <1>3a
<1>7. \A q \in Subscription : \A i \in DOMAIN queue'[q] :
        /\ InPlace(q, i, queue[q][i])'
        /\ pc'[queue'[q][i]] \in {"queued"} \cup Waits
  <2> SUFFICES ASSUME NEW q \in Subscription, NEW i \in DOMAIN queue'[q]
               PROVE  /\ InPlace(q, i, queue[q][i])'
                      /\ pc'[queue'[q][i]] \in {"queued"} \cup Waits
    OBVIOUS
  <2>1. CASE i \in DOMAIN queue[q] /\ queue'[q][i] = queue[q][i]
    BY <1>2, <1>3, <2>1 DEF QueueDiscipline, InPlace
  <2>2. CASE q = t /\ queue'[q][i] = r
    BY <1>2, <2>2 DEF InPlace, t
  <2> QED
    BY <1>4, <2>1, <2>2
<1>8. \A s \in Request : pc'[s] \in {"queued"} \cup Waits =>
        \E q \in Subscription : \E i \in DOMAIN queue'[q] : queue'[q][i] = s
  <2> SUFFICES ASSUME NEW s \in Request, pc'[s] \in {"queued"} \cup Waits
               PROVE  \E q \in Subscription : \E i \in DOMAIN queue'[q] : queue'[q][i] = s
    OBVIOUS
  <2>1. CASE s = r
    BY <1>1, <1>6, <2>1
  <2>2. CASE s # r
    <3>1. PICK q \in Subscription : \E i \in DOMAIN queue[q] : queue[q][i] = s
      BY <1>2, <2>2 DEF QueueDiscipline
    <3> QED
      BY <1>5, <3>1
  <2> QED
    BY <2>1, <2>2
<1>9. \A q, u \in Subscription : \A i \in DOMAIN queue'[q], j \in DOMAIN queue'[u] :
        queue'[q][i] = queue'[u][j] => q = u /\ i = j
  BY <1>3, <1>4 DEF QueueDiscipline
<1> QED
  BY <1>7, <1>8, <1>9 DEF QueueDiscipline

\* A handler that returns leaves its subscription to the next message.
LEMMA FinishKeepsQueues ==
  ASSUME TypeInv, QueueDiscipline, NEW q \in Subscription, NEW r \in First(q),
         NEW reply, Finish(q, r, reply), UNCHANGED <<msg, up>>
  PROVE  QueueDiscipline'
<1>1. /\ r \in Request /\ queue[q] \in Seq(Request) /\ queue[q] # <<>>
      /\ r = queue[q][1] /\ 1 \in DOMAIN queue[q]
  BY FirstOfQueue DEF TypeInv
<1>2. /\ queue \in [Subscription -> Seq(Request)] /\ pc \in [Request -> Stage]
      /\ pc' = [pc EXCEPT ![r] = "done"] /\ queue' = [queue EXCEPT ![q] = Tail(@)]
  BY DEF Finish, TypeInv, TypeOK
<1>3. \A u \in Subscription : \A i \in DOMAIN queue'[u] :
        \E j \in DOMAIN queue[u] :
          /\ queue'[u][i] = queue[u][j] /\ i \in Nat /\ j \in Nat
          /\ j = IF u = q THEN i + 1 ELSE i
          /\ i >= 1
  <2> SUFFICES ASSUME NEW u \in Subscription, NEW i \in DOMAIN queue'[u]
               PROVE  \E j \in DOMAIN queue[u] :
                        /\ queue'[u][i] = queue[u][j] /\ i \in Nat /\ j \in Nat
                        /\ j = IF u = q THEN i + 1 ELSE i
                        /\ i >= 1
    OBVIOUS
  <2>1. CASE u = q
    <3>1. queue'[u] = Tail(queue[q])
      BY <1>2, <2>1
    <3>2. i \in 1..Len(Tail(queue[q])) /\ i + 1 \in DOMAIN queue[q]
      BY <1>1, <3>1, HeadTailProperties
    <3> QED
      BY <1>1, <2>1, <3>1, <3>2, HeadTailProperties
  <2>2. CASE u # q
    <3>1. queue'[u] = queue[u] /\ queue[u] \in Seq(Request)
      BY <1>2, <2>2
    <3> QED
      BY <2>2, <3>1
  <2> QED
    BY <2>1, <2>2
<1>4. \A u \in Subscription : \A j \in DOMAIN queue[u] :
        queue[u][j] # r => \E i \in DOMAIN queue'[u] : queue'[u][i] = queue[u][j]
  <2> SUFFICES ASSUME NEW u \in Subscription, NEW j \in DOMAIN queue[u], queue[u][j] # r
               PROVE  \E i \in DOMAIN queue'[u] : queue'[u][i] = queue[u][j]
    OBVIOUS
  <2>1. CASE u = q
    <3>1. j \in 1..Len(queue[q]) /\ j # 1 /\ queue'[u] = Tail(queue[q])
      BY <1>1, <1>2, <2>1
    <3>2. j - 1 \in DOMAIN Tail(queue[q]) /\ Tail(queue[q])[j - 1] = queue[q][j]
      BY <1>1, <3>1, HeadTailProperties
    <3> QED
      BY <2>1, <3>1, <3>2
  <2>2. CASE u # q
    BY <1>2, <2>2
  <2> QED
    BY <2>1, <2>2
<1>5. \A u \in Subscription : \A i \in DOMAIN queue'[u] : queue'[u][i] \in Request \ {r}
  <2> SUFFICES ASSUME NEW u \in Subscription, NEW i \in DOMAIN queue'[u]
               PROVE  queue'[u][i] \in Request \ {r}
    OBVIOUS
  <2>1. PICK j \in DOMAIN queue[u] :
          /\ queue'[u][i] = queue[u][j] /\ i \in Nat /\ j \in Nat
          /\ j = (IF u = q THEN i + 1 ELSE i) /\ i >= 1
    BY <1>3
  <2>2. ~(u = q /\ j = 1)
    BY <2>1
  <2>3. queue[u][j] # r
    BY <1>1, <2>2 DEF QueueDiscipline
  <2> QED
    BY <1>2, <2>1, <2>3
<1>6. \A u \in Subscription : \A i \in DOMAIN queue'[u] :
        /\ InPlace(u, i, queue[u][i])'
        /\ pc'[queue'[u][i]] \in {"queued"} \cup Waits
  <2> SUFFICES ASSUME NEW u \in Subscription, NEW i \in DOMAIN queue'[u]
               PROVE  /\ InPlace(u, i, queue[u][i])'
                      /\ pc'[queue'[u][i]] \in {"queued"} \cup Waits
    OBVIOUS
  <2>1. PICK j \in DOMAIN queue[u] :
          /\ queue'[u][i] = queue[u][j] /\ i \in Nat /\ j \in Nat
          /\ j = (IF u = q THEN i + 1 ELSE i) /\ i >= 1
    BY <1>3
  <2>2. j = 1 => i = 1
    BY <2>1
  <2>3. pc'[queue[u][j]] = pc[queue[u][j]]
    BY <1>2, <1>5, <2>1
  <2> QED
    BY <2>1, <2>2, <2>3 DEF QueueDiscipline, InPlace
<1>7. \A s \in Request : pc'[s] \in {"queued"} \cup Waits =>
        \E u \in Subscription : \E i \in DOMAIN queue'[u] : queue'[u][i] = s
  <2> SUFFICES ASSUME NEW s \in Request, pc'[s] \in {"queued"} \cup Waits
               PROVE  \E u \in Subscription : \E i \in DOMAIN queue'[u] : queue'[u][i] = s
    OBVIOUS
  <2>1. s # r /\ pc[s] \in {"queued"} \cup Waits
    BY <1>1, <1>2 DEF Waits
  <2>2. PICK u \in Subscription : \E j \in DOMAIN queue[u] : queue[u][j] = s
    BY <2>1 DEF QueueDiscipline
  <2> QED
    BY <1>4, <2>1, <2>2
<1>8. \A u, v \in Subscription : \A i \in DOMAIN queue'[u], j \in DOMAIN queue'[v] :
        queue'[u][i] = queue'[v][j] => u = v /\ i = j
  <2> SUFFICES ASSUME NEW u \in Subscription, NEW v \in Subscription,
                      NEW i \in DOMAIN queue'[u], NEW j \in DOMAIN queue'[v],
                      queue'[u][i] = queue'[v][j]
               PROVE  u = v /\ i = j
    OBVIOUS
  <2>1. PICK k \in DOMAIN queue[u] :
          /\ queue'[u][i] = queue[u][k] /\ i \in Nat /\ k \in Nat
          /\ k = (IF u = q THEN i + 1 ELSE i)
    BY <1>3
  <2>2. PICK l \in DOMAIN queue[v] :
          /\ queue'[v][j] = queue[v][l] /\ j \in Nat /\ l \in Nat
          /\ l = (IF v = q THEN j + 1 ELSE j)
    BY <1>3
  <2>3. queue[u][k] = queue[v][l]
    BY <2>1, <2>2
  <2>4. u = v /\ k = l
    BY <2>3, OnePlace
  <2> QED
    BY <2>1, <2>2, <2>4
<1> QED
  BY <1>6, <1>7, <1>8 DEF QueueDiscipline

\* A handler that goes on stays at the head of its subscription.
LEMMA AdvanceKeepsQueues ==
  ASSUME TypeInv, QueueDiscipline, NEW q \in Subscription, NEW r \in First(q),
         NEW s \in Waits, Advance(r, s), pc[r] \in {"queued"} \cup Waits,
         UNCHANGED <<msg, up>>
  PROVE  QueueDiscipline'
<1>1. r \in Request /\ r = queue[q][1] /\ 1 \in DOMAIN queue[q]
  BY FirstOfQueue DEF TypeInv, First
<1>2. pc' = [pc EXCEPT ![r] = s] /\ pc \in [Request -> Stage] /\ queue' = queue
  BY DEF Advance, TypeInv, TypeOK
<1>3. \A u \in Subscription : \A i \in DOMAIN queue[u] :
        /\ queue[u][i] = r => u = q /\ i = 1
        /\ queue[u][i] \in Request
  BY <1>1 DEF QueueDiscipline, TypeInv, TypeOK
<1>4. \A u \in Subscription : \A i \in DOMAIN queue[u] :
        /\ InPlace(u, i, queue[u][i])'
        /\ pc'[queue[u][i]] \in {"queued"} \cup Waits
  BY <1>2, <1>3 DEF QueueDiscipline, InPlace
<1>5. \A o \in Request : pc'[o] \in {"queued"} \cup Waits =>
        pc[o] \in {"queued"} \cup Waits
  BY <1>1, <1>2
<1> QED
  BY <1>2, <1>4, <1>5 DEF QueueDiscipline

\* A replica that ends takes what its subscriptions hold with it.
LEMMA ExitKeepsQueues ==
  ASSUME TypeInv, QueueDiscipline, NEW p \in Replica, Exit(p)
  PROVE  QueueDiscipline'
<1>1. /\ pc' = [r \in Request |-> IF Holds(p, r) THEN "lost" ELSE pc[r]]
      /\ queue' = [q \in Subscription |-> IF q[1] = p THEN <<>> ELSE queue[q]]
      /\ up' = up \ {p} /\ msg' = msg
      /\ queue \in [Subscription -> Seq(Request)]
  BY DEF Exit, caller, TypeInv, TypeOK
<1>2. \A q \in Subscription : q[1] # p => queue'[q] = queue[q]
  BY <1>1
<1>3. \A q \in Subscription : q[1] = p => DOMAIN queue'[q] = {}
  BY <1>1
<1>4. \A q \in Subscription : \A i \in DOMAIN queue[q] :
        q[1] # p => queue[q][i] \in Request /\ ~Holds(p, queue[q][i])
  <2> SUFFICES ASSUME NEW q \in Subscription, NEW i \in DOMAIN queue[q], q[1] # p
               PROVE  queue[q][i] \in Request /\ ~Holds(p, queue[q][i])
    OBVIOUS
  <2>1. queue[q][i] \in Request
    BY <1>1
  <2>2. ASSUME Holds(p, queue[q][i]) PROVE FALSE
    <3>1. PICK s \in Subject : queue[q][i] \in Range(queue[<<p, s>>])
      BY <2>2 DEF Holds
    <3>2. PICK j \in DOMAIN queue[<<p, s>>] : queue[<<p, s>>][j] = queue[q][i]
      BY <3>1 DEF Range
    <3>3. <<p, s>> \in Subscription
      BY DEF Subscription
    <3>4. <<p, s>> = q
      BY <3>2, <3>3, OnePlace
    <3> QED
      BY <3>4
  <2> QED
    BY <2>1, <2>2
<1>5. \A q \in Subscription : \A i \in DOMAIN queue'[q] :
        /\ q[1] # p /\ i \in DOMAIN queue[q] /\ queue'[q][i] = queue[q][i]
        /\ pc'[queue[q][i]] = pc[queue[q][i]]
  BY <1>1, <1>2, <1>3, <1>4
<1>6. \A q \in Subscription : \A i \in DOMAIN queue'[q] :
        /\ InPlace(q, i, queue[q][i])'
        /\ pc'[queue'[q][i]] \in {"queued"} \cup Waits
  <2> SUFFICES ASSUME NEW q \in Subscription, NEW i \in DOMAIN queue'[q]
               PROVE  /\ InPlace(q, i, queue[q][i])'
                      /\ pc'[queue'[q][i]] \in {"queued"} \cup Waits
    OBVIOUS
  <2>1. /\ q[1] # p /\ i \in DOMAIN queue[q] /\ queue'[q][i] = queue[q][i]
        /\ pc'[queue[q][i]] = pc[queue[q][i]] /\ up' = up \ {p} /\ msg' = msg
    BY <1>1, <1>5
  <2>2. InPlace(q, i, queue[q][i]) /\ pc[queue[q][i]] \in {"queued"} \cup Waits
    BY <2>1 DEF QueueDiscipline
  <2> QED
    BY <2>1, <2>2 DEF InPlace
<1>7. \A r \in Request : pc'[r] \in {"queued"} \cup Waits =>
        \E q \in Subscription : \E i \in DOMAIN queue'[q] : queue'[q][i] = r
  <2> SUFFICES ASSUME NEW r \in Request, pc'[r] \in {"queued"} \cup Waits
               PROVE  \E q \in Subscription : \E i \in DOMAIN queue'[q] : queue'[q][i] = r
    OBVIOUS
  <2>1. ~Holds(p, r) /\ pc[r] \in {"queued"} \cup Waits
    BY <1>1 DEF Waits
  <2>2. PICK q \in Subscription : \E i \in DOMAIN queue[q] : queue[q][i] = r
    BY <2>1 DEF QueueDiscipline
  <2>3. q[1] # p
    BY <2>1, <2>2 DEF Holds, Range, Subscription
  <2> QED
    BY <1>2, <2>2, <2>3
<1>8. \A q, t \in Subscription : \A i \in DOMAIN queue'[q], j \in DOMAIN queue'[t] :
        queue'[q][i] = queue'[t][j] => q = t /\ i = j
  BY <1>5 DEF QueueDiscipline
<1> QED
  BY <1>6, <1>7, <1>8 DEF QueueDiscipline

\* Every step keeps the queues in order.
LEMMA QueuesStep == TypeInv /\ QueueDiscipline /\ [Next]_vars => QueueDiscipline'
<1> SUFFICES ASSUME TypeInv, QueueDiscipline, [Next]_vars PROVE QueueDiscipline'
  OBVIOUS
<1>1. CASE \E r \in Request, m \in Payload, p \in Replica : Publish(r, m, p)
  BY <1>1, PublishKeepsQueues
<1>2. CASE \E q \in Subscription : \E r \in First(q) : HandlerStep(q, r)
  <2> PICK q \in Subscription : \E r \in First(q) : HandlerStep(q, r)
    BY <1>2
  <2> PICK r \in First(q) : HandlerStep(q, r)
    OBVIOUS
  <2>1. UNCHANGED <<msg, up>> /\ pc[r] \in {"queued"} \cup Waits
    BY DEF HandlerStep, Refuse, StartCheckAlias, StartAuthenticated,
       AuthAnswersAlias, AuthAnswersNone, AuthFails, CheckAnswers, ReadAnswers,
       ExistsAnswers, ReadFails, WriteAnswers, WriteFails, Serves, Waits, caller
  <2>2. (\E reply : Finish(q, r, reply)) \/ (\E s \in Waits : Advance(r, s))
    BY DEF HandlerStep, Refuse, StartCheckAlias, StartAuthenticated,
       AuthAnswersAlias, AuthAnswersNone, AuthFails, CheckAnswers, ReadAnswers,
       ExistsAnswers, ReadFails, WriteAnswers, WriteFails, Waits
  <2> QED
    BY <2>1, <2>2, FinishKeepsQueues, AdvanceKeepsQueues
<1>3. CASE \E p \in Replica : Exit(p)
  BY <1>3, ExitKeepsQueues
<1>4. CASE \E p \in Replica : Restart(p)
  BY <1>4 DEF Restart, caller, local, QueueDiscipline, InPlace
<1>5. CASE \/ \E r \in Request : ApplyWrite(r) \/ RejectWrite(r)
           \/ \E u \in User, f \in Profile : Relink(u, f)
           \/ \E k \in Removable : Remove(k)
           \/ UNCHANGED vars
  <2>1. UNCHANGED <<msg, pc, queue, up>>
    BY <1>5 DEF ApplyWrite, RejectWrite, Relink, Remove, vars, caller, local
  <2> QED
    BY <2>1 DEF QueueDiscipline, InPlace
<1> QED
  BY <1>1, <1>2, <1>3, <1>4, <1>5 DEF Next

\* No message is dropped by a running replica, served twice, or served by two
\* goroutines, however many replicas come and go.
THEOREM MessagesAreInPlace == Spec => []QueueDiscipline
<1>1. Init => QueueDiscipline
  BY DEF Init, QueueDiscipline, Waits
<1> QED
  BY <1>1, QueuesStep, TypeInvariant, PTL DEF Spec
=============================================================================
