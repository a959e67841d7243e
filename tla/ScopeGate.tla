----------------------------- MODULE ScopeGate ------------------------------
(***************************************************************************)
(* One scope-gated route over time: require_scopes builds the gate when    *)
(* the routers are imported, and each call is decided from the claims of   *)
(* the caller's token.  Whose token comes next, and what the identity      *)
(* provider wrote into it, is up to the outside.                           *)
(***************************************************************************)
EXTENDS Scopes

CONSTANTS
    Requirements,   \* the argument lists require_scopes may be wired with
    Tokens          \* the claims of the valid tokens that are presented

\* The claims that matter here.  listed: `permissions` is a list, if an empty
\* one; scope: the words of the scope claim, none when it is blank or absent.
TokenClaims ==
    [sub : BOOLEAN, listed : BOOLEAN, permissions : SUBSET Scope, scope : SUBSET Scope]

ASSUME RequirementsAssumption == Requirements \subseteq Seq(Scope)
ASSUME TokensAssumption == Tokens \subseteq TokenClaims

VARIABLES
    required,   \* the scopes this gate was wired with
    wiring,     \* "pending", then "wired", or "failed" on ValueError
    token,      \* the claims of the token of the last call
    verdict     \* how that call was decided

vars == <<required, wiring, token, verdict>>

Elements(seq) == {seq[i] : i \in DOMAIN seq}

Allow == [kind |-> "allow", scope |-> <<>>]
Deny(s) == [kind |-> "deny", scope |-> s]
Raise(s) == [kind |-> "raise", scope |-> s]
Refuse == [kind |-> "refuse", scope |-> <<>>]
NotCalled == [kind |-> "none", scope |-> <<>>]
NoToken == [sub |-> FALSE, listed |-> FALSE, permissions |-> {}, scope |-> {}]

\* Slip: only the first argument is looked up.
FirstUnknown(req) == {req[i] : i \in DOMAIN req \cap {1}} \ KNOWN_SCOPES

\* `unknown` of require_scopes: any of them and the factory raises ValueError.
unknown(req) == Elements(req) \ KNOWN_SCOPES

\* has_scope either returns, or raises ValueError from parsing the requirement.
Held(s, grants) == WellFormed(s) /\ satisfies(grants, s)

\* Slip: the loop runs over reversed(required).
StopsAtLast(req, grants, i) ==
    /\ ~Held(req[i], grants)
    /\ \A j \in DOMAIN req : j > i => Held(req[j], grants)

\* The loop of the inner dependency stops at the first scope it cannot tick off.
StopsAt(req, grants, i) ==
    /\ ~Held(req[i], grants)
    /\ \A j \in DOMAIN req : j < i => Held(req[j], grants)

\* Slip: the exception is raised without the scope.
NamelessDenial(req, grants) ==
    IF \A i \in DOMAIN req : Held(req[i], grants) THEN Allow ELSE Deny(<<>>)

dependency(req, grants) ==
    IF \A i \in DOMAIN req : Held(req[i], grants)
    THEN Allow
    ELSE LET s == req[CHOOSE i \in DOMAIN req : StopsAt(req, grants, i)]
         IN  IF WellFormed(s) THEN Deny(s) ELSE Raise(s)

\* Slip: `if permissions:` for the isinstance test.
NonEmptyPermissionsFirst(c) == IF c.permissions # {} THEN c.permissions ELSE c.scope

\* The `granted` of _principal_from_claims: RBAC first, scope as the fallback.
granted(c) == IF c.listed THEN c.permissions ELSE c.scope

Init ==
    /\ required \in Requirements
    /\ wiring = "pending"
    /\ token = NoToken
    /\ verdict = NotCalled

\* Import time: the factory validates its arguments once.
Wire ==
    /\ wiring = "pending"
    /\ wiring' = IF unknown(required) = {} THEN "wired" ELSE "failed"
    /\ UNCHANGED <<required, token, verdict>>

\* Request time: without a subject there is no principal to decide about.
Call(c) ==
    /\ wiring = "wired"
    /\ token' = c
    /\ verdict' = IF c.sub THEN dependency(required, granted(c)) ELSE Refuse
    /\ UNCHANGED <<required, wiring>>

Next == Wire \/ \E c \in Tokens : Call(c)

Spec == Init /\ [][Next]_vars
-----------------------------------------------------------------------------
TypeOK ==
    /\ required \in Requirements
    /\ wiring \in {"pending", "wired", "failed"}
    /\ token \in Tokens \cup {NoToken}
    /\ verdict \in {Allow, Refuse, NotCalled}
                   \cup {Deny(s) : s \in Elements(required)}
                   \cup {Raise(s) : s \in Elements(required)}

\* What a requirement asks for, all of it: the elementary permissions of every
\* listed scope.
Demand == AuthorityOf(Elements(required))

\* A call is let in exactly when its token has a subject and the elementary
\* permissions of its grants include everything the route demands (scopes.py
\* satisfies, over all of the hierarchy: domain-wide grants, write implying
\* read, malformed entries).
AllowedByAuthority ==
    verdict # NotCalled =>
        (verdict = Allow <=> token.sub /\ Demand \subseteq AuthorityOf(granted(token)))

\* A refusal names a scope the caller really lacks, and every scope listed
\* before it is one the caller has (dependencies.py: "naming the first missing
\* scope"): getting the named scope is always progress.
RefusalNamesFirstMissing ==
    verdict.kind = "deny" =>
        \E i \in DOMAIN required :
            /\ required[i] = verdict.scope
            /\ ~ Authority(parse(required[i])) \subseteq AuthorityOf(granted(token))
            /\ \A j \in 1 .. i - 1 :
                  Authority(parse(required[j])) \subseteq AuthorityOf(granted(token))

\* "A typo fails loudly at wiring time, not at request time": no call on a wired
\* gate ends in the ValueError of a malformed requirement.
NoRequestTimeError == verdict.kind # "raise"

\* A caller that was let in, and whose next token carries at least the same
\* grants, is let in again: an extra grant never takes access away.
GrantsAreMonotone ==
    [][ (verdict = Allow /\ token'.sub /\ granted(token) \subseteq granted(token'))
          => verdict' = Allow ]_vars

\* Where the tenant writes a permissions list, be it empty, that list decides: two
\* tokens that agree on it are treated alike, whatever scopes their clients asked
\* for (auth0.py: "RBAC first, scope fallback").
PermissionsDecideAlone ==
    [][ (/\ verdict # NotCalled
         /\ token.listed /\ token'.listed
         /\ token.sub = token'.sub /\ token.permissions = token'.permissions)
          => verdict' = verdict ]_vars
=============================================================================
