-------------------------- MODULE ScopeGateProofs ---------------------------
(* What ScopeGate promises, proved for every vocabulary, every argument    *)
(* list of require_scopes and every set of tokens.                         *)
EXTENDS ScopeGate, ScopesProofs, WellFoundedInduction, TLAPS

-----------------------------------------------------------------------------
(* The least position of a non-empty set of naturals.                      *)

LessNat == {ss \in Nat \X Nat : ss[1] < ss[2]}

LEMMA LessNatWellFounded == IsWellFoundedOn(LessNat, Nat)
  BY NatLessThanWellFounded DEF OpToRel, LessNat

LEMMA LeastElement ==
  ASSUME NEW T \in SUBSET Nat, T # {}
  PROVE  \E x \in T : \A y \in T : x <= y
<1>1. PICK x \in T : \A y \in T : ~ (<<y, x>> \in LessNat)
  BY LessNatWellFounded, WFMin
<1>2. ASSUME NEW y \in T PROVE x <= y
  <2>1. <<y, x>> \in Nat \X Nat
    OBVIOUS
  <2>2. ~ (<<y, x>>[1] < <<y, x>>[2])
    BY <1>1, <2>1 DEF LessNat
  <2> QED BY <2>2
<1> QED BY <1>2

-----------------------------------------------------------------------------
(* The decision.                                                           *)

\* The dependency lets a call in exactly when every listed scope is held.
LEMMA AllowMeansAllHeld ==
  ASSUME NEW req, NEW grants
  PROVE  dependency(req, grants) = Allow <=> \A i \in DOMAIN req : Held(req[i], grants)
  BY DEF dependency, Allow, Deny, Raise

\* When it does not, the loop stops at the first scope that is not held.
LEMMA StopPositionExists ==
  ASSUME NEW req \in Seq(Scope), NEW grants,
         ~ \A i \in DOMAIN req : Held(req[i], grants)
  PROVE  \E i \in DOMAIN req : StopsAt(req, grants, i)
<1> DEFINE T == {i \in DOMAIN req : ~ Held(req[i], grants)}
<1>1. T \in SUBSET Nat /\ T # {}
  OBVIOUS
<1>2. PICK i \in T : \A j \in T : i <= j
  <2> HIDE DEF T
  <2> QED BY <1>1, LeastElement
<1>3. ASSUME NEW j \in DOMAIN req, j < i PROVE Held(req[j], grants)
  <2>1. j \notin T
    BY <1>2, <1>3
  <2> QED BY <2>1
<1> QED BY <1>2, <1>3 DEF StopsAt

LEMMA RefusalStops ==
  ASSUME NEW req \in Seq(Scope), NEW grants, dependency(req, grants) # Allow
  PROVE  \E i \in DOMAIN req :
            /\ StopsAt(req, grants, i)
            /\ dependency(req, grants)
                 = IF WellFormed(req[i]) THEN Deny(req[i]) ELSE Raise(req[i])
<1>1. ~ \A i \in DOMAIN req : Held(req[i], grants)
  BY AllowMeansAllHeld
<1>2. \E i \in DOMAIN req : StopsAt(req, grants, i)
  BY <1>1, StopPositionExists
<1> DEFINE i == CHOOSE k \in DOMAIN req : StopsAt(req, grants, k)
<1>3. i \in DOMAIN req /\ StopsAt(req, grants, i)
  BY <1>2
<1>4. dependency(req, grants)
        = IF WellFormed(req[i]) THEN Deny(req[i]) ELSE Raise(req[i])
  BY <1>1 DEF dependency
<1> HIDE DEF i
<1> QED BY <1>3, <1>4

\* Every registered scope has a shape parse accepts.
LEMMA KnownAreWellFormed == \A s \in KNOWN_SCOPES : WellFormed(s)
  BY DEF KNOWN_SCOPES, finance_scopes, reserved_scopes, WellFormed

-----------------------------------------------------------------------------
(* The inductive invariant: a gate that answers calls passed its wiring    *)
(* check, and its last verdict is what dependency makes of the grants of   *)
(* the token that call carried.                                            *)

Judgement(c) == IF c.sub THEN dependency(required, granted(c)) ELSE Refuse

IInv ==
    /\ required \in Requirements
    /\ token \in Tokens \cup {NoToken}
    /\ wiring \in {"pending", "wired", "failed"}
    /\ wiring = "wired" => unknown(required) = {}
    /\ verdict # NotCalled => wiring = "wired" /\ verdict = Judgement(token)

LEMMA Invariance == Spec => []IInv
<1>1. Init => IInv
  BY DEF Init, IInv
<1>2. IInv /\ [Next]_vars => IInv'
  <2> SUFFICES ASSUME IInv, [Next]_vars PROVE IInv'
    OBVIOUS
  <2> USE DEF IInv
  <2>1. CASE Wire
    <3>1. verdict = NotCalled
      BY <2>1 DEF Wire
    <3> QED BY <2>1, <3>1 DEF Wire, unknown
  <2>2. ASSUME NEW c \in Tokens, Call(c) PROVE IInv'
    BY <2>2 DEF Call, Judgement
  <2>3. CASE UNCHANGED vars
    BY <2>3 DEF vars, Judgement
  <2> QED BY <2>1, <2>2, <2>3 DEF Next
<1> QED BY <1>1, <1>2, PTL DEF Spec

\* The claims that decide are scopes, whichever claim they come from.
LEMMA GrantedAreScopes == ASSUME IInv PROVE granted(token) \in SUBSET Scope
  BY TokensAssumption DEF IInv, granted, TokenClaims, NoToken

\* What the wiring check buys: every listed scope of a wired gate parses.
LEMMA WiredRequirement ==
  ASSUME IInv, wiring = "wired"
  PROVE  /\ required \in Seq(Scope)
         /\ \A i \in DOMAIN required : required[i] \in Scope /\ WellFormed(required[i])
<1>1. required \in Seq(Scope)
  BY RequirementsAssumption DEF IInv
<1>2. ASSUME NEW i \in DOMAIN required PROVE required[i] \in KNOWN_SCOPES
  BY <1>2 DEF IInv, unknown, Elements
<1> QED BY <1>1, <1>2, KnownAreWellFormed

\* A token without a subject is refused, and no other one is.
LEMMA SubjectDecidesFirst ==
  ASSUME IInv, verdict # NotCalled
  PROVE  /\ wiring = "wired"
         /\ token.sub => verdict = dependency(required, granted(token))
         /\ ~ token.sub => verdict = Refuse
  BY DEF IInv, Judgement

\* A call with a subject that is not let in was stopped at a listed scope.
LEMMA VerdictShape ==
  ASSUME IInv, verdict \notin {NotCalled, Allow, Refuse}
  PROVE  \E i \in DOMAIN required :
            /\ verdict = Deny(required[i])
            /\ StopsAt(required, granted(token), i)
<1>1. wiring = "wired" /\ verdict = dependency(required, granted(token))
  BY SubjectDecidesFirst
<1>2. PICK i \in DOMAIN required :
         /\ StopsAt(required, granted(token), i)
         /\ verdict = IF WellFormed(required[i]) THEN Deny(required[i]) ELSE Raise(required[i])
  BY <1>1, WiredRequirement, RefusalStops
<1> QED BY <1>1, <1>2, WiredRequirement

\* Held, for a listed scope of a wired gate, is inclusion of authority.
LEMMA HeldIsInclusion ==
  ASSUME IInv, wiring = "wired", NEW i \in DOMAIN required
  PROVE  Held(required[i], granted(token))
           <=> Authority(parse(required[i])) \subseteq AuthorityOf(granted(token))
<1>1. granted(token) \in SUBSET Scope
  BY GrantedAreScopes
<1>2. required[i] \in Scope /\ WellFormed(required[i])
  BY WiredRequirement
<1> QED BY <1>1, <1>2, SatisfiesIsInclusion DEF Held

-----------------------------------------------------------------------------
(* The theorems.                                                           *)

\* Type correctness of the gate (dependencies.py, require_scopes).
THEOREM TypeCorrect == Spec => []TypeOK
<1>1. IInv => TypeOK
  <2> SUFFICES ASSUME IInv PROVE TypeOK
    OBVIOUS
  <2>1. CASE verdict \in {Allow, Refuse, NotCalled}
    BY <2>1 DEF IInv, TypeOK
  <2>2. CASE verdict \notin {Allow, Refuse, NotCalled}
    <3>1. PICK i \in DOMAIN required : verdict = Deny(required[i])
      BY <2>2, VerdictShape
    <3>2. required[i] \in Elements(required)
      BY DEF Elements
    <3> QED BY <3>1, <3>2 DEF IInv, TypeOK
  <2> QED BY <2>1, <2>2
<1> QED BY <1>1, Invariance, PTL

\* A wired route never answers a call with the ValueError of a malformed
\* requirement: the factory's check at import time is enough.
THEOREM NeverRaises == Spec => []NoRequestTimeError
<1>1. IInv => NoRequestTimeError
  <2> SUFFICES ASSUME IInv PROVE NoRequestTimeError
    OBVIOUS
  <2>1. CASE verdict \in {Allow, Refuse, NotCalled}
    BY <2>1 DEF NoRequestTimeError, Allow, Refuse, NotCalled
  <2>2. CASE verdict \notin {Allow, Refuse, NotCalled}
    BY <2>2, VerdictShape DEF NoRequestTimeError, Deny
  <2> QED BY <2>1, <2>2
<1> QED BY <1>1, Invariance, PTL

\* Access is decided by authority: a call passes exactly when its token has a
\* subject and grants that carry every elementary permission the route demands,
\* for every registry and every token.
THEOREM AccessIsAuthority == Spec => []AllowedByAuthority
<1>1. IInv => AllowedByAuthority
  <2> SUFFICES ASSUME IInv, verdict # NotCalled
               PROVE  verdict = Allow
                        <=> token.sub /\ Demand \subseteq AuthorityOf(granted(token))
    BY DEF AllowedByAuthority
  <2>1. CASE ~ token.sub
    <3>1. verdict = Refuse
      BY <2>1, SubjectDecidesFirst
    <3> QED BY <2>1, <3>1 DEF Refuse, Allow
  <2>2. CASE token.sub
    <3>1. wiring = "wired" /\ verdict = dependency(required, granted(token))
      BY <2>2, SubjectDecidesFirst
    <3>2. verdict = Allow <=> \A i \in DOMAIN required : Held(required[i], granted(token))
      BY <3>1, AllowMeansAllHeld
    <3>3. verdict = Allow <=>
            \A i \in DOMAIN required :
               Authority(parse(required[i])) \subseteq AuthorityOf(granted(token))
      BY <3>1, <3>2, HeldIsInclusion
    <3>4. Demand = UNION {Authority(parse(required[i])) : i \in DOMAIN required}
      <4>1. {s \in Elements(required) : WellFormed(s)} = Elements(required)
        BY <3>1, WiredRequirement DEF Elements
      <4> QED BY <4>1 DEF Demand, AuthorityOf, Elements
    <3>5. Demand \subseteq AuthorityOf(granted(token)) <=>
            \A i \in DOMAIN required :
               Authority(parse(required[i])) \subseteq AuthorityOf(granted(token))
      BY <3>4
    <3> QED BY <2>2, <3>3, <3>5
  <2> QED BY <2>1, <2>2
<1> QED BY <1>1, Invariance, PTL

\* A refusal names the first scope that is missing.
THEOREM RefusalIsFirst == Spec => []RefusalNamesFirstMissing
<1>1. IInv => RefusalNamesFirstMissing
  <2> SUFFICES ASSUME IInv, verdict.kind = "deny"
               PROVE  RefusalNamesFirstMissing
    BY DEF RefusalNamesFirstMissing
  <2>1. verdict \notin {NotCalled, Allow, Refuse}
    BY DEF NotCalled, Allow, Refuse
  <2>2. wiring = "wired"
    BY <2>1 DEF IInv
  <2>3. PICK i \in DOMAIN required :
          /\ verdict = Deny(required[i])
          /\ StopsAt(required, granted(token), i)
    BY <2>1, VerdictShape
  <2>4. verdict.scope = required[i]
    BY <2>3 DEF Deny
  <2>5. ~ Authority(parse(required[i])) \subseteq AuthorityOf(granted(token))
    BY <2>2, <2>3, HeldIsInclusion DEF StopsAt
  <2>6. ASSUME NEW j \in 1 .. i - 1
        PROVE  Authority(parse(required[j])) \subseteq AuthorityOf(granted(token))
    <3>1. j \in DOMAIN required /\ j < i
      BY <2>2, WiredRequirement
    <3>2. Held(required[j], granted(token))
      BY <2>3, <3>1 DEF StopsAt
    <3> QED BY <2>2, <3>1, <3>2, HeldIsInclusion
  <2> QED BY <2>4, <2>5, <2>6 DEF RefusalNamesFirstMissing
<1> QED BY <1>1, Invariance, PTL

\* A token with at least the grants of one that was let in is let in.
THEOREM MoreGrantsMoreAccess == Spec => GrantsAreMonotone
<1> DEFINE Monotone ==
      (verdict = Allow /\ token'.sub /\ granted(token) \subseteq granted(token'))
        => verdict' = Allow
<1>1. IInv /\ [Next]_vars => [Monotone]_vars
  <2> SUFFICES ASSUME IInv, Next, verdict = Allow, token'.sub,
                      granted(token) \subseteq granted(token')
               PROVE  verdict' = Allow
    BY DEF vars
  <2>1. ASSUME NEW c \in Tokens, Call(c) PROVE verdict' = Allow
    <3>1. token' = c /\ verdict' = dependency(required, granted(c))
      BY <2>1 DEF Call
    <3>2. verdict = dependency(required, granted(token))
      BY SubjectDecidesFirst DEF Allow, NotCalled, Refuse
    <3>3. ASSUME NEW i \in DOMAIN required PROVE Held(required[i], granted(c))
      <4>1. Held(required[i], granted(token))
        BY <3>2, AllowMeansAllHeld
      <4> QED BY <3>1, <4>1 DEF Held, satisfies
    <3> QED BY <3>1, <3>3, AllowMeansAllHeld
  <2>2. CASE Wire
    BY <2>2 DEF Wire
  <2> QED BY <2>1, <2>2 DEF Next
<1> QED BY <1>1, Invariance, PTL DEF Spec, GrantsAreMonotone

\* Where a permissions list is present, the scope claim has no say.
THEOREM PermissionsAreDecisive == Spec => PermissionsDecideAlone
<1> DEFINE Decisive ==
      (/\ verdict # NotCalled
       /\ token.listed /\ token'.listed
       /\ token.sub = token'.sub /\ token.permissions = token'.permissions)
        => verdict' = verdict
<1>1. IInv /\ [Next]_vars => [Decisive]_vars
  <2> SUFFICES ASSUME IInv, Next, verdict # NotCalled, token.listed, token'.listed,
                      token.sub = token'.sub, token.permissions = token'.permissions
               PROVE  verdict' = verdict
    BY DEF vars
  <2>1. ASSUME NEW c \in Tokens, Call(c) PROVE verdict' = verdict
    <3>1. token' = c /\ verdict' = Judgement(c)
      BY <2>1 DEF Call, Judgement
    <3>2. granted(c) = granted(token)
      BY <3>1 DEF granted
    <3> QED BY <3>1, <3>2 DEF IInv, Judgement
  <2>2. CASE Wire
    BY <2>2 DEF Wire
  <2> QED BY <2>1, <2>2 DEF Next
<1> QED BY <1>1, Invariance, PTL DEF Spec, PermissionsDecideAlone
=============================================================================
