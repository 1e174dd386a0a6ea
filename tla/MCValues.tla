------------------------------ MODULE MCValues ------------------------------
(***************************************************************************)
(* The values the configurations give the constants of ForwardService and  *)
(* of the modules built on it.                                             *)
(***************************************************************************)
EXTENDS Sequences, FiniteSets, TLC

\* Names: the small set is for the runs about timing, the large one, with odd
\* spellings and a second domain, for the runs about identity.
MCSmallName == {"", "linux.com", "johndoe", "me@x.org", "you@y.org"}
MCSmallTrim == [n \in MCSmallName |-> n]
MCSmallLower == [n \in MCSmallName |-> n]
MCSmallDomains == <<"linux.com">>

MCName ==
  MCSmallName \cup {" linux.com", "LINUX.COM", "Kernel.org", "kernel.org",
                    "other.net", "JohnDoe", "admin", "lead", "a b", " me@x.org "}
MCTrim == (" linux.com" :> "linux.com" @@ " me@x.org " :> "me@x.org")
            @@ [n \in MCName |-> n]
MCLower == ("LINUX.COM" :> "linux.com" @@ "Kernel.org" :> "kernel.org"
              @@ "JohnDoe" :> "johndoe")
             @@ [n \in MCName |-> n]
MCDomains == <<"linux.com", "Kernel.org">>

MCMalformed == {"a b"}
MCReserved == {"admin"}
MCExtraReserved == {"lead"}
MCAddresses == {"me@x.org", "you@y.org"}
MCNone == {}

\* Identities.
At(local, host) == [local |-> local, host |-> host]
NoAddress == At("", "")
MCJohn == [alternate |-> <<At("johndoe", "linux.com")>>, primary |-> NoAddress]

\* Messages.
Check(alias, domain) ==
  [subject |-> "check_alias", parses |-> TRUE, domain |-> domain,
   alias |-> alias, token |-> "nobody", target |-> ""]
Set(user, domain, target) ==
  [subject |-> "set_target", parses |-> TRUE, domain |-> domain,
   alias |-> "", token |-> user, target |-> target]
Get(user, domain) ==
  [subject |-> "get_forward", parses |-> TRUE, domain |-> domain,
   alias |-> "", token |-> user, target |-> ""]
Garbled(subject) ==
  [subject |-> subject, parses |-> FALSE, domain |-> "", alias |-> "",
   token |-> "nobody", target |-> ""]

\* Stores.
Entry0(recipients, enabled) ==
  [recipients |-> recipients, label |-> "nobody", enabled |-> enabled]

\* The timing runs: one alias.  Its user may lose it where only deliveries count;
\* in the race two users hold it at once, the worst of an address that moves from
\* one to the other while both have requests.
MCOneSet == {Set("u", "linux.com", "me@x.org")}
MCRivalsAndReader ==
  {Set("ann", "linux.com", "me@x.org"), Set("bob", "linux.com", "you@y.org"),
   Get("ann", "linux.com")}
MCTimingProfile == {MCJohn}

\* The identity runs: two users, whose addresses are swapped and dropped while
\* requests are under way, spellings that fold together, and every refusal.
MCIdentities ==
  {[alternate |-> <<At("johndoe", "other.net"), At("JohnDoe", "LINUX.COM")>>,
    primary |-> At("admin", "kernel.org")],
   [alternate |-> <<At("", "linux.com")>>, primary |-> At("johndoe", "linux.com")],
   [alternate |-> <<>>, primary |-> NoAddress]}
MCHasOrNot == {f \in MCIdentities : f.primary \in {NoAddress, At("johndoe", "linux.com")}}

MCWrites ==
  {Set("ann", " linux.com", " me@x.org "), Set("bob", "linux.com", "you@y.org"),
   Set("bob", "kernel.org", "you@y.org")}
MCReads == {Get("ann", "LINUX.COM"), Get("bob", "linux.com"), Check("JohnDoe", "linux.com")}
MCBadWrites ==
  {Set("ann", "linux.com", "a b"), Set("nobody", "linux.com", "me@x.org"),
   Set("ann", "other.net", "me@x.org"), Garbled("set_target")}
MCBadReads ==
  {Get("bob", ""), Garbled("get_forward"), Check("admin", "linux.com"),
   Check("lead", "linux.com"), Check("a b", "Kernel.org")}
MCAllMessages == MCWrites \cup MCReads \cup MCBadWrites \cup MCBadReads
MCMixedMessages ==
  {Set("ann", " linux.com", " me@x.org "), Get("ann", "LINUX.COM"),
   Check("JohnDoe", "linux.com")}
=============================================================================
