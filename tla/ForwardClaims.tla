---------------------------- MODULE ForwardClaims ----------------------------
(***************************************************************************)
(* Two statements of the repository about the service that the code does   *)
(* not keep.                                                               *)
(***************************************************************************)
EXTENDS ForwardService

\* README.md:80-89, the table of error codes: a reply carries one of them or none.
\* A body that does not parse is answered with a code the table does not have.
TableOfErrorCodes ==
  {"alias_invalid", "alias_reserved", "domain_required", "domain_not_allowed",
   "unauthorized", "not_found", "target_email_invalid", "forwardemail_error"}

DocumentedErrors ==
  \A r \in Request :
    pc[r] = "done" => outcome[r].error \in TableOfErrorCodes \cup {OK}

\* internal/domain/model/alias.go:11-12, of the built-in reserved local parts: they
\* "may not be claimed as forwarding aliases on any managed domain".  No entry that
\* the service creates would have one.  set_target creates whatever alias
\* auth-service names.
ReservedNeverRouted ==
  \A k \in Key :
    Exists(k) /\ store[k].label \in User => k[2] \notin ReservedLocalParts
=============================================================================
