------------------------------ MODULE Spelling ------------------------------
(***************************************************************************)
(* The texts behind the names of AliasRules: what somebody types, one      *)
(* character after another, is read as a list of an environment variable,  *)
(* as an alias to check, and as an address that auth-service returns.      *)
(* Characters are classes of characters that the code tells apart.         *)
(***************************************************************************)
EXTENDS SequencesExt

CONSTANTS
  Char,         \* the characters
  Lower,        \* Lower[c]: its lower case
  Fold,         \* Fold[c]: what strings.EqualFold equates it with; the long s, a
                \*   lower-case letter, is equated with s, and the dotted capital I
                \*   of Turkish (U+0130), whose lower case is i, with itself alone
  Width,        \* Width[c]: its bytes
  Blank,        \* the white space of unicode.IsSpace
  Comma, Dot, At,
  Banned,       \* bannedAliasChars; of the blanks, the space alone is among them
  Atext,        \* the characters net/mail takes in an atom: of the blanks, those of
                \*   more than one byte, such as the no-break space
  Reserved,     \* a set of local parts, the built-in reserved ones
  MaxBytes,     \* the longest alias, 64 bytes
  ManagedDomain,\* a configured domain
  MaxLength     \* bound: the length of what is typed

ASSUME CharAssumption ==
  /\ Lower \in [Char -> Char] /\ \A c \in Char : Lower[Lower[c]] = Lower[c]
  \* What is equated with a lower case is equated with its own lower case.
  /\ Fold \in [Char -> Char]
  /\ \A c, d \in Char : Fold[Lower[c]] = Fold[d] => Fold[Lower[d]] = Fold[d]
  /\ Width \in [Char -> Nat \ {0}]
  /\ Blank \subseteq Char /\ Banned \subseteq Char /\ Atext \subseteq Char
  /\ {Comma, At} \subseteq Banned
  /\ \A c \in Blank \cup Banned \cup {Dot} : {d \in Char : Lower[d] = c} = {c}

\* ParseCSV, whose entries the domains are, leaves none that is empty or has a comma
\* or blanks around it.  That a domain has no "@" nobody checks: it is what the name
\* of a domain is.
ASSUME DomainAssumption ==
  /\ ManagedDomain \in Seq(Char \ {At, Comma}) /\ ManagedDomain # <<>>
  /\ ManagedDomain[1] \notin Blank /\ ManagedDomain[Len(ManagedDomain)] \notin Blank

VARIABLE text   \* what was typed

Init == text = <<>>
Type(c) == Len(text) < MaxLength /\ text' = Append(text, c)
Next == \E c \in Char : Type(c)
Spec == Init /\ [][Next]_text
-----------------------------------------------------------------------------
(* strings.                                                                *)

TrimSpace(t) ==
  LET ink == {i \in DOMAIN t : t[i] \notin Blank}
  IN IF ink = {} THEN <<>> ELSE SubSeq(t, Min(ink), Max(ink))

ToLower(t) == [i \in DOMAIN t |-> Lower[t[i]]]
EqualFold(t, u) == [i \in DOMAIN t |-> Fold[t[i]]] = [i \in DOMAIN u |-> Fold[u[i]]]
Bytes(t) == FoldLeft(LAMBDA n, c : n + Width[c], 0, t)

\* strings.Split; a text without a separator is one field.
Split(t, sep) ==
  LET fields[n \in 0..Len(t)] ==
        IF n = 0 THEN << <<>> >>
        ELSE IF t[n] = sep THEN Append(fields[n - 1], <<>>)
        ELSE [fields[n - 1] EXCEPT ![Len(fields[n - 1])] = Append(@, t[n])]
  IN fields[Len(t)]
-----------------------------------------------------------------------------
(* parseCSV and resolveDomain.                                             *)

\* Not the code: the entries are not trimmed.
ParseCSVUntrimmed(raw) == SelectSeq(Split(raw, Comma), LAMBDA s : s # <<>>)

ParseCSV(raw) ==
  LET parts == Split(raw, Comma)
      out[n \in 0..Len(parts)] ==
        IF n = 0 THEN <<>>
        ELSE IF TrimSpace(parts[n]) = <<>> THEN out[n - 1]
        ELSE Append(out[n - 1], TrimSpace(parts[n]))
  IN out[Len(parts)]

\* The configured spelling of the requested domain: one text, or none.
ResolveDomain(requested, domains) ==
  LET same == {i \in DOMAIN domains : ToLower(domains[i]) = ToLower(TrimSpace(requested))}
  IN IF TrimSpace(requested) = <<>> \/ same = {} THEN {} ELSE {domains[Min(same)]}
-----------------------------------------------------------------------------
(* ValidateAlias.                                                          *)

\* net/mail, for local parts without a banned character: atoms between dots.
\* What it parses it gives back as it was.
DotAtom(t) == \A atom \in ToSet(Split(t, Dot)) : atom # <<>> /\ ToSet(atom) \subseteq Atext

Normal(alias) == ToLower(TrimSpace(alias))

\* Not the code: the length is that of the text as it was sent.
TooLongAsSent(alias) == Bytes(TrimSpace(alias)) > MaxBytes

TooLong(alias) == Bytes(Normal(alias)) > MaxBytes

\* Not the code: the extra names are compared as they were written.
IsExtraVerbatim(alias, extra) == Normal(alias) \in extra

IsExtra(alias, extra) == \E e \in extra : EqualFold(Normal(alias), TrimSpace(e))

\* The error of ValidateAlias, "" for none; extra are the extraReserved.
ValidateAlias(alias, extra) ==
  IF Normal(alias) = <<>> \/ TooLong(alias) THEN "alias_invalid"
  ELSE IF ToSet(Normal(alias)) \cap Banned # {} \/ ~DotAtom(Normal(alias)) THEN "alias_invalid"
  ELSE IF Normal(alias) \in Reserved \/ IsExtra(alias, extra) THEN "alias_reserved"
  ELSE ""
-----------------------------------------------------------------------------
(* GetAliasForDomain, for one address.                                     *)

\* Not the code: any address that ends in the domain will do.
SuffixWithoutAt(domain) == ToLower(TrimSpace(domain))

Suffix(domain) == <<At>> \o ToLower(TrimSpace(domain))

\* The local part of an address on the domain: one text, or none.
LocalPart(email, domain) ==
  LET lower == ToLower(TrimSpace(email))
      rest == Len(lower) - Len(Suffix(domain))
  IN IF IsSuffix(Suffix(domain), lower) /\ rest > 0 THEN {SubSeq(lower, 1, rest)} ELSE {}
-----------------------------------------------------------------------------
(* Properties, of whatever was typed.                                      *)

\* The text read as a list: a domain may be written in it with any spacing and any
\* case, and the requests for it, spelled like that, are served.  Every entry is
\* trimmed and none is empty, as the rules of AliasRules assume.
EveryEntryIsServed ==
  LET parts == Split(text, Comma)
  IN /\ \A i \in DOMAIN parts :
          TrimSpace(parts[i]) # <<>> =>
            \E d \in ResolveDomain(parts[i], ParseCSV(text)) :
              ToLower(d) = ToLower(TrimSpace(parts[i]))
     /\ \A d \in ToSet(ParseCSV(text)) : d # <<>> /\ TrimSpace(d) = d

\* The text read as an alias: its case and its blanks do not matter, though they
\* change its bytes, and what is accepted is accepted again as it was returned.
OneVerdictPerAlias ==
  ValidateAlias(text, {}) = ValidateAlias(Normal(text), {})

\* Two names that differ in nothing but spelling.
SameName(a, e) == EqualFold(Normal(a), Normal(e))

\* A name whose letters EqualFold equates with their lower case: one without U+0130.
Steady(e) == \A i \in DOMAIN e : Fold[Lower[e[i]]] = Fold[e[i]]

\* The text as a list of extra names, or of some of them, and as the aliases that are
\* asked for: an acceptable alias is refused in every spelling of a name on the list,
\* and for no other name.  A listed name with U+0130 reserves nothing, though:
\* alias.go:47 lowers the alias, alias.go:69 does not lower the name.
ListedNamesAreRefused ==
  \A a \in ToSet(Split(text, Comma)), extra \in SUBSET ToSet(ParseCSV(text)) :
    ValidateAlias(a, {}) = "" =>
      ValidateAlias(a, extra) =
        IF \E e \in extra : SameName(a, e) /\ Steady(e) THEN "alias_reserved" ELSE ""

\* The text read as an address: it lies on the domain when what follows its last
\* "@" is the domain, and its alias is what precedes it.
HostDecides ==
  LET lower == ToLower(TrimSpace(text))
      ats == {i \in DOMAIN lower : lower[i] = At}
  IN LocalPart(text, ManagedDomain) =
       IF ats # {} /\ Max(ats) > 1
          /\ SubSeq(lower, Max(ats) + 1, Len(lower)) = ToLower(TrimSpace(ManagedDomain))
       THEN {SubSeq(lower, 1, Max(ats) - 1)} ELSE {}
=============================================================================
