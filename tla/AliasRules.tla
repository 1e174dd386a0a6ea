----------------------------- MODULE AliasRules -----------------------------
(***************************************************************************)
(* The pure rules of the service: which managed domain a request names,    *)
(* which alias names are acceptable, and which alias the auth-service's    *)
(* answer gives the caller on a domain.                                    *)
(*                                                                         *)
(* A name (a domain, a local part, an e-mail address) is an atomic value;  *)
(* the two conversions the code applies to it, strings.TrimSpace and       *)
(* strings.ToLower, are functions on names given as constants, so that two *)
(* spellings of the same name are two values with one image.               *)
(***************************************************************************)
EXTENDS Sequences, FiniteSetsExt

CONSTANTS
  Name,                \* every spelling of a domain, local part or address
  Empty,               \* the empty string
  Trim,                \* Trim[n]: strings.TrimSpace(n)
  Lower,               \* Lower[n]: strings.ToLower(n)
  Domains,             \* FORWARDS_DOMAINS, in its configured order
  Malformed,           \* normalised local parts that fail the length, the
                       \*   character or the net/mail round-trip test
  ReservedLocalParts,  \* the built-in reserved local parts
  ExtraReserved,       \* FORWARDS_RESERVED_NAMES, as configured
  Addresses            \* the names net/mail accepts as an address

ASSUME NameAssumption ==
  /\ Empty \in Name
  /\ Trim \in [Name -> Name] /\ Lower \in [Name -> Name]
  /\ Trim[Empty] = Empty
  /\ \A n \in Name : /\ Trim[Trim[n]] = Trim[n]
                     /\ Lower[Lower[n]] = Lower[n]
                     /\ Trim[Lower[n]] = Lower[Trim[n]]
                     /\ Lower[n] = Empty <=> n = Empty

ASSUME ConfigAssumption ==
  /\ Domains \in Seq(Name) /\ Domains # <<>>
  /\ \A i \in DOMAIN Domains : Trim[Domains[i]] = Domains[i] /\ Domains[i] # Empty
  /\ Malformed \subseteq Name
  /\ ReservedLocalParts \subseteq Name /\ ExtraReserved \subseteq Name
  /\ Addresses \subseteq Name \ {Empty}

\* The error code of a call that succeeded.
OK == ""

Fold(n) == Lower[Trim[n]]
-----------------------------------------------------------------------------
(* resolveDomain: the first configured domain that equals the requested    *)
(* one up to case and surrounding blanks.                                  *)

DomainMatches(requested) ==
  {i \in DOMAIN Domains : Lower[Domains[i]] = Fold(requested)}

ResolveError(requested) ==
  IF Fold(requested) = Empty THEN "domain_required"
  ELSE IF DomainMatches(requested) = {} THEN "domain_not_allowed"
  ELSE OK

\* Not the code: the requested spelling is returned in place of the configured one.
ResolvedDomainAsAsked(requested) == Fold(requested)

ResolvedDomain(requested) == Domains[Min(DomainMatches(requested))]
-----------------------------------------------------------------------------
(* ValidateAlias: the syntax test comes first, the reserved names second.  *)
(* strings.EqualFold is taken for equal lower cases; Spelling has the      *)
(* letters for which it is not.                                            *)

Normalised(alias) == Fold(alias)

ReservedName(alias) ==
  \/ alias \in ReservedLocalParts
  \/ \E extra \in ExtraReserved : Lower[alias] = Fold(extra)

ValidateError(alias) ==
  IF Normalised(alias) \in Malformed \cup {Empty} THEN "alias_invalid"
  ELSE IF ReservedName(Normalised(alias)) THEN "alias_reserved"
  ELSE OK
-----------------------------------------------------------------------------
(* GetAliasForDomain: the first of the caller's addresses, alternates      *)
(* before the primary, that lies on the domain and has a local part.  An   *)
(* Email is an address as TrimSpace leaves it, split at its last "@"; an   *)
(* answer without data is a profile without addresses.                     *)

Email == [local : Name, host : Name]
NoEmail == [local |-> Empty, host |-> Empty]
ProfileType == [alternate : Seq(Email), primary : Email]

Candidates(profile) == Append(profile.alternate, profile.primary)

\* Not the code: the domain of the address is not compared.
AliasMatchesAnyHost(profile, domain) ==
  {i \in DOMAIN Candidates(profile) : Candidates(profile)[i].local # Empty}

AliasMatches(profile, domain) ==
  {i \in DOMAIN Candidates(profile) :
     /\ Lower[Candidates(profile)[i].host] = Fold(domain)
     /\ Candidates(profile)[i].local # Empty}

PickAlias(profile, domain) ==
  Lower[Candidates(profile)[Min(AliasMatches(profile, domain))].local]
=============================================================================
