-------------------------- MODULE IdentityProfile --------------------------
(***************************************************************************)
(* IdentityProfile and TenancyContext: what an application may ask of the  *)
(* identity fetch_identity returned.                                       *)
(*                                                                         *)
(* A domain as a provider or an application spells it is a record: name is *)
(* what is left once it is trimmed and lower-cased, "" for a blank one,    *)
(* and odd tells a spelling that differs from it (case or whitespace).     *)
(***************************************************************************)
CONSTANTS Absent, \* Python's None
          Domain  \* domains, normalized

Spelling == [name : Domain \cup {""}, odd : BOOLEAN]

\* strip().lower()
Fold(d) == d.name

\* Python's `not d`: whitespace is no empty string.
Falsy(d) == d = Absent \/ d = [name |-> "", odd |-> FALSE]

Tenancy == [domain : Spelling \cup {Absent}, owns_email_domain : BOOLEAN]

\* Mutant: a blank domain is taken for one.
VerifiedDomainBlank(t) ==
    IF t.owns_email_domain /\ t.domain # Absent THEN Fold(t.domain) ELSE Absent

\* _verified_domain
VerifiedDomain(t) ==
    IF t.owns_email_domain /\ t.domain # Absent /\ Fold(t.domain) # ""
    THEN Fold(t.domain) ELSE Absent

DomainOwningTenancies(p) == {t \in p.tenancies : VerifiedDomain(t) # Absent}

OwnsDomain(p, d) ==
    Fold(d) # "" /\ \E t \in p.tenancies : VerifiedDomain(t) = Fold(d)

\* verified_email; a profile's flag is "true", "false" or None.
VerifiedEmail(p) == IF p.email_verified = "true" THEN p.email ELSE Absent
=============================================================================
