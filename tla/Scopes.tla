------------------------------- MODULE Scopes -------------------------------
(***************************************************************************)
(* The scope registry of app/auth/scopes.py: which scope strings exist,    *)
(* how one is parsed, and when a granted scope covers a required one.      *)
(*                                                                         *)
(* A scope string is modelled by what str.split(":") makes of it: the      *)
(* sequence of its parts.  "finance:xero:read" is <<FINANCE, "xero", READ>>*)
(* and "openid" is a sequence of one part.                                 *)
(***************************************************************************)
EXTENDS Integers, Sequences, FiniteSets

CONSTANTS
    Names,              \* the parts a scope string may consist of
    None,               \* Python's None: the provider of a domain-wide scope
    FINANCE,            \* the one domain that has routes
    RESERVED_DOMAINS,   \* domains that are registered but have no routes
    FINANCE_PROVIDERS,  \* the providers mounted under /finance
    READ, WRITE         \* the two actions

ASSUME NoneAssumption == None \notin Names
ASSUME VocabularyAssumption ==
    /\ {FINANCE, READ, WRITE} \subseteq Names
    /\ RESERVED_DOMAINS \subseteq Names \ {FINANCE}
    /\ FINANCE_PROVIDERS \subseteq Names
ASSUME ActionsDiffer == READ # WRITE

Actions == {READ, WRITE}
Scope == Seq(Names)
Parsed == [domain : Names, provider : Names \cup {None}, action : Names]

finance_scopes ==
    {<<FINANCE, a>> : a \in Actions}
      \cup {<<FINANCE, p, a>> : p \in FINANCE_PROVIDERS, a \in Actions}

reserved_scopes == {<<d, a>> : d \in RESERVED_DOMAINS, a \in Actions}

KNOWN_SCOPES == finance_scopes \cup reserved_scopes

\* parse returns for these shapes and raises ValueError for any other.
WellFormed(s) == Len(s) \in {2, 3}

parse(s) ==
    IF Len(s) = 2
    THEN [domain |-> s[1], provider |-> None, action |-> s[2]]
    ELSE [domain |-> s[1], provider |-> s[2], action |-> s[3]]

\* Slip: the leaves of a domain are taken to cover the whole domain.
LeafCoversDomain(g, r) ==
    /\ g.domain = r.domain
    /\ g.provider \in {None, r.provider} \/ r.provider = None
    /\ g.action = r.action \/ (g.action = WRITE /\ r.action = READ)

grant_satisfies(g, r) ==
    /\ g.domain = r.domain
    /\ g.provider \in {None, r.provider}
    /\ \/ g.action = r.action
       \/ g.action = WRITE /\ r.action = READ

\* Slip: all() for the any() of the loop.
EveryGrantSatisfies(granted, required) ==
    \A s \in granted : WellFormed(s) => grant_satisfies(parse(s), parse(required))

\* Defined for a well-formed `required`; malformed grants are skipped.
satisfies(granted, required) ==
    \E s \in granted : WellFormed(s) /\ grant_satisfies(parse(s), parse(required))

-----------------------------------------------------------------------------
(* The reference meaning of a scope: the set of elementary permissions it  *)
(* carries.  A domain-wide scope carries every provider of the domain and  *)
(* the domain itself; write carries read.                                  *)

Implied(a) == {a} \cup {b \in {READ} : a = WRITE}

Authority(p) ==
    [domain   : {p.domain},
     provider : IF p.provider = None THEN Names \cup {None} ELSE {p.provider},
     action   : Implied(p.action)]

AuthorityOf(granted) ==
    UNION {Authority(parse(s)) : s \in {t \in granted : WellFormed(t)}}
=============================================================================
