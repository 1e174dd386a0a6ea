-------------------------- MODULE RoutingDirectory --------------------------
(***************************************************************************)
(* What the forwards service promises its callers, without its replicas,   *)
(* queues, lookups and remote calls: a directory of routings in which      *)
(* every request takes effect, or reads, in one indivisible step.          *)
(*                                                                         *)
(*  - A route request takes effect at most once, on a key its caller held  *)
(*    while the request was open.  Confirmed: it has.  Refused: it has not *)
(*    and never will.  Given up: nobody knows, it may have or yet may.     *)
(*  - A read or a probe reports the directory at one moment while it was   *)
(*    open.                                                                *)
(***************************************************************************)
EXTENDS Sequences

CONSTANTS Request, User, Domain, Name, Empty, NoKey, Entry, Absent, Nothing,
          Ask, Unasked, Refusal, Removable

Key == Domain \X Name

\* An answer: an error code ("" for none), the flag of a probe or a read, and the
\* routing reported or confirmed.
Reply(flag, alias, target) ==
  [error |-> "", flag |-> flag, alias |-> alias, target |-> target]
Error(code) ==
  [error |-> code, flag |-> FALSE, alias |-> Empty, target |-> Empty]

VARIABLES
  ask,        \* ask[r]: what r asks for: kind, by, domain, name, target
  phase,      \* phase[r]
  held,       \* held[u]: the keys user u holds
  claim,      \* claim[r]: keys the caller of r held while r was open
  effect,     \* effect[r]: the key r took effect on, or NoKey
  answer,     \* answer[r]
  directory   \* the routing of every key

dvars == <<ask, phase, held, claim, effect, answer, directory>>

Init ==
  /\ ask = [r \in Request |-> Unasked]
  /\ phase = [r \in Request |-> "idle"]
  /\ held \in [User -> SUBSET Key]
  /\ claim = [r \in Request |-> {}]
  /\ effect = [r \in Request |-> NoKey]
  /\ answer = [r \in Request |-> Nothing]
  /\ directory \in [Key -> Entry \cup {Absent}]
-----------------------------------------------------------------------------
Open(r, a) ==
  /\ phase[r] = "idle"
  /\ ask' = [ask EXCEPT ![r] = a]
  /\ phase' = [phase EXCEPT ![r] = "open"]
  /\ claim' = [claim EXCEPT ![r] = IF a.by \in User THEN held[a.by] ELSE {}]
  /\ UNCHANGED <<held, effect, answer, directory>>

\* Users gain and lose keys; an open request may count on what is gained.
Regrant ==
  /\ held' \in [User -> SUBSET Key]
  /\ \A r \in Request :
       /\ claim[r] \subseteq claim'[r]
       /\ claim'[r] # claim[r] =>
            /\ phase[r] = "open" /\ ask[r].by \in User
            /\ claim'[r] \subseteq claim[r] \cup held'[ask[r].by]
  /\ claim' \in [Request -> SUBSET Key]
  /\ UNCHANGED <<ask, phase, effect, answer, directory>>

\* The keys a request may use.
Usable(r) == {k \in claim[r] : k[1] = ask[r].domain}

Routed(r, entry) ==
  IF entry = Absent
    THEN [recipients |-> <<ask[r].target>>, label |-> ask[r].by, enabled |-> TRUE]
    ELSE [entry EXCEPT !.recipients = <<ask[r].target>>, !.enabled = TRUE]

TakeEffect(r, k) ==
  /\ phase[r] \in {"open", "given up"} /\ effect[r] = NoKey
  /\ ask[r].kind = "set_target" /\ k \in Usable(r)
  /\ directory' = [directory EXCEPT ![k] = Routed(r, @)]
  /\ effect' = [effect EXCEPT ![r] = k]
  /\ UNCHANGED <<ask, phase, held, claim, answer>>

Awaits(r, kind) == phase[r] = "open" /\ ask[r].kind = kind

Answer(r, p, reply) ==
  /\ phase[r] = "open"
  /\ phase' = [phase EXCEPT ![r] = p]
  /\ answer' = [answer EXCEPT ![r] = reply]
  /\ UNCHANGED <<ask, held, claim, effect, directory>>

Confirm(r) ==
  /\ Awaits(r, "set_target") /\ effect[r] # NoKey
  /\ Answer(r, "answered", Reply(FALSE, effect[r][2], ask[r].target))

Refuse(r, code) ==
  /\ effect[r] = NoKey
  /\ Answer(r, "refused", Error(code))

Probe(r) ==
  /\ Awaits(r, "check_alias")
  /\ Answer(r, "answered",
            Reply(directory[<<ask[r].domain, ask[r].name>>] # Absent, ask[r].name, Empty))

Read(r, k) ==
  /\ Awaits(r, "get_forward") /\ k \in Usable(r)
  /\ Answer(r, "answered",
            IF directory[k] = Absent THEN Reply(FALSE, Empty, Empty)
            ELSE Reply(TRUE, k[2], IF directory[k].recipients = <<>> THEN Empty
                                   ELSE Head(directory[k].recipients)))

\* The caller holds no key of the domain.
ReadNothing(r) ==
  /\ Awaits(r, "get_forward") /\ ask[r].by \in User
  /\ \A k \in held[ask[r].by] : k[1] # ask[r].domain
  /\ Answer(r, "answered", Reply(FALSE, Empty, Empty))

\* Requests end without their callers learning what became of them.
GiveUp(rs) ==
  /\ \A r \in rs : phase[r] = "open"
  /\ phase' = [r \in Request |-> IF r \in rs THEN "given up" ELSE phase[r]]
  /\ UNCHANGED <<ask, held, claim, effect, answer, directory>>

GiveUpWithError(r) == Answer(r, "given up", Error("forwardemail_error"))

Remove(k) ==
  /\ directory[k] # Absent
  /\ directory' = [directory EXCEPT ![k] = Absent]
  /\ UNCHANGED <<ask, phase, held, claim, effect, answer>>
-----------------------------------------------------------------------------
Next ==
  \/ \E r \in Request, a \in Ask : Open(r, a)
  \/ Regrant
  \/ \E r \in Request : \E k \in claim[r] : TakeEffect(r, k) \/ Read(r, k)
  \/ \E r \in Request, code \in Refusal : Refuse(r, code)
  \/ \E r \in Request :
       Confirm(r) \/ Probe(r) \/ ReadNothing(r) \/ GiveUpWithError(r)
  \/ \E rs \in SUBSET Request : GiveUp(rs)
  \/ \E k \in Removable : Remove(k)

Spec == Init /\ [][Next]_dvars
=============================================================================
