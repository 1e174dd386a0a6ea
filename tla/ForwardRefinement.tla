------------------------- MODULE ForwardRefinement -------------------------
(***************************************************************************)
(* The service implements RoutingDirectory: the moment a set_target takes  *)
(* effect is the one at which forwardemail.net carries out its write, and  *)
(* the moment a read happens is the one at which its answer is made.       *)
(***************************************************************************)
EXTENDS ForwardHistory

\* What a message asks for, once its domain and its alias are normalised.  The
\* domain of a message that will be refused for it does not matter.
AskOf(m) ==
  [kind |-> m.subject, by |-> m.token,
   domain |-> IF Addressed(m) THEN ResolvedDomain(m.domain) ELSE Domains[1],
   name |-> Normalised(m.alias), target |-> Trim[m.target]]

AskBar == [r \in Request |-> IF msg[r] = Unsent THEN Unsent ELSE AskOf(msg[r])]

PhaseBar ==
  [r \in Request |->
     IF pc[r] = "idle" THEN "idle"
     ELSE IF pc[r] \in {"queued"} \cup Waits THEN "open"
     ELSE IF pc[r] = "lost" \/ outcome[r].error = "forwardemail_error" THEN "given up"
     ELSE IF outcome[r].error = OK THEN "answered" ELSE "refused"]

HeldBar == [u \in User |-> Holdings(profile[u])]

EffectBar == [r \in Request |-> IF wire[r] = "applied" THEN key[r] ELSE NoKey]

D == INSTANCE RoutingDirectory
       WITH Domain <- Range(Domains), Nothing <- NoOutcome,
            Ask <- {AskOf(m) : m \in Payload}, Unasked <- Unsent,
            Refusal <- Refusals,
            ask <- AskBar, phase <- PhaseBar, held <- HeldBar, claim <- owned,
            effect <- EffectBar, answer <- outcome, directory <- store

\* The caller of a set_target that was confirmed, refused or given up, and the
\* reader of a routing, see what a directory with indivisible operations shows:
\* no interleaving of replicas, lookups, remote calls, crashes and late writes
\* can be told from it.
Indivisible == D!Spec
=============================================================================
