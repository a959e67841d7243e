---------------------------- MODULE MCScopeGate -----------------------------
(* A small vocabulary for ScopeGate: two finance providers, one reserved   *)
(* domain, grants on every level of the hierarchy and two entries that are *)
(* no scopes of the registry, one of them malformed.                       *)
EXTENDS ScopeGate

CONSTANTS finance, csc, xero, netcash, read, write, openid, admin

MCNames == {finance, csc, xero, netcash, read, write, openid, admin}
MCReserved == {csc}
MCProviders == {xero, netcash}

MCGrantable ==
    {<<finance, read>>, <<finance, write>>,
     <<finance, xero, read>>, <<finance, xero, write>>,
     <<finance, netcash, read>>, <<openid>>, <<finance, xero, admin>>}

\* Every set of grants in the claim that decides, beside a few in the one that
\* does not; and tokens without a subject.
Few == {{}, {<<openid>>}, {<<finance, write>>}, {<<finance, xero, read>>, <<openid>>}}

Claims(sub, listed, permissions, scope) ==
    [sub |-> sub, listed |-> listed, permissions |-> permissions, scope |-> scope]

MCTokens ==
    {Claims(TRUE, TRUE, p, s) : p \in SUBSET MCGrantable, s \in Few}
      \cup {Claims(TRUE, FALSE, {}, s) : s \in SUBSET MCGrantable}
      \cup {Claims(FALSE, b, p, {<<finance, write>>}) : b \in BOOLEAN, p \in Few}

\* Single requirements, lists of two and of three, a repeated and an empty
\* list, one with an unknown but well-formed scope and one with a malformed one.
MCRequirements ==
    {<<s>> : s \in {<<finance, xero, read>>, <<finance, xero, write>>,
                    <<finance, read>>, <<finance, write>>, <<csc, read>>}}
    \cup {<<>>,
          <<<<finance, xero, read>>, <<finance, netcash, read>>>>,
          <<<<finance, netcash, read>>, <<finance, xero, write>>>>,
          <<<<finance, xero, read>>, <<finance, xero, read>>, <<finance, write>>>>,
          <<<<finance, xero, read>>, <<finance, xero, admin>>>>,
          <<<<finance, read>>, <<openid>>>>}
=============================================================================
