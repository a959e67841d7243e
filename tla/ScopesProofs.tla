---------------------------- MODULE ScopesProofs ----------------------------
(* Lemmas about the scope hierarchy of Scopes, for every vocabulary.       *)
EXTENDS Scopes, TLAPS

LEMMA ParsedType ==
  ASSUME NEW s \in Scope, WellFormed(s)
  PROVE  parse(s) \in Parsed
<1>1. CASE Len(s) = 2
  BY <1>1 DEF Scope, parse, Parsed
<1>2. CASE Len(s) = 3
  BY <1>2 DEF Scope, parse, Parsed
<1> QED BY <1>1, <1>2 DEF WellFormed

\* A parsed scope belongs to its own authority, and to another's exactly when
\* that other one covers it.
LEMMA CoversIsMembership ==
  ASSUME NEW g \in Parsed, NEW r \in Parsed
  PROVE  grant_satisfies(g, r) <=> r \in Authority(g)
<1>1. r \in Authority(g) <=> /\ r.domain = g.domain
                             /\ r.provider \in (IF g.provider = None THEN Names \cup {None} ELSE {g.provider})
                             /\ r.action \in Implied(g.action)
  BY DEF Authority, Parsed
<1>2. r.action \in Implied(g.action) <=> \/ g.action = r.action
                                         \/ g.action = WRITE /\ r.action = READ
  BY DEF Implied
<1>3. r.provider \in (IF g.provider = None THEN Names \cup {None} ELSE {g.provider})
        <=> g.provider \in {None, r.provider}
  BY DEF Parsed
<1> QED BY <1>1, <1>2, <1>3 DEF grant_satisfies

\* Covering is transitive: what a grant covers through another it covers itself.
\* (Scopes may be delegated in any number of steps without gaining access.)
THEOREM CoversIsTransitive ==
  ASSUME NEW g \in Parsed, NEW h \in Parsed, NEW r \in Parsed,
         grant_satisfies(g, h), grant_satisfies(h, r)
  PROVE  grant_satisfies(g, r)
<1>1. g.action = r.action \/ (g.action = WRITE /\ r.action = READ)
  BY ActionsDiffer DEF grant_satisfies
<1>2. g.provider \in {None, r.provider}
  BY DEF grant_satisfies
<1> QED BY <1>1, <1>2 DEF grant_satisfies

\* A single grant covers a requirement exactly when it carries every elementary
\* permission the requirement stands for (_grant_satisfies of scopes.py).
THEOREM CoversIsInclusion ==
  ASSUME NEW g \in Parsed, NEW r \in Parsed
  PROVE  grant_satisfies(g, r) <=> Authority(r) \subseteq Authority(g)
<1>1. r \in Authority(r)
  BY CoversIsMembership DEF grant_satisfies
<1>2. ASSUME grant_satisfies(g, r), NEW p \in Authority(r) PROVE p \in Authority(g)
  <2>1. p \in Parsed
    <3>1. Authority(r) \subseteq Parsed
      BY VocabularyAssumption DEF Authority, Parsed, Implied
    <3> QED BY <3>1, <1>2
  <2>2. grant_satisfies(r, p)
    BY <1>2, <2>1, CoversIsMembership
  <2>3. grant_satisfies(g, p)
    BY <1>2, <2>1, <2>2, CoversIsTransitive
  <2> QED BY <2>1, <2>3, CoversIsMembership
<1>3. ASSUME Authority(r) \subseteq Authority(g) PROVE grant_satisfies(g, r)
  BY <1>1, <1>3, CoversIsMembership
<1> QED BY <1>2, <1>3

\* satisfies() over a token's grants: the union of what they carry includes the
\* requirement only when one of them covers it alone.
LEMMA SatisfiesIsInclusion ==
  ASSUME NEW grants \in SUBSET Scope, NEW s \in Scope, WellFormed(s)
  PROVE  satisfies(grants, s) <=> Authority(parse(s)) \subseteq AuthorityOf(grants)
<1> DEFINE r == parse(s)
<1>0. r \in Parsed
  BY ParsedType
<1>1. r \in Authority(r)
  BY <1>0, CoversIsMembership DEF grant_satisfies
<1>2. ASSUME satisfies(grants, s) PROVE Authority(r) \subseteq AuthorityOf(grants)
  <2>1. PICK t \in grants : WellFormed(t) /\ grant_satisfies(parse(t), r)
    BY <1>2 DEF satisfies
  <2>2. parse(t) \in Parsed
    BY <2>1, ParsedType
  <2>3. Authority(r) \subseteq Authority(parse(t))
    BY <1>0, <2>1, <2>2, CoversIsInclusion
  <2>4. Authority(parse(t)) \subseteq AuthorityOf(grants)
    BY <2>1 DEF AuthorityOf
  <2> QED BY <2>3, <2>4
<1>3. ASSUME Authority(r) \subseteq AuthorityOf(grants) PROVE satisfies(grants, s)
  <2>1. r \in AuthorityOf(grants)
    BY <1>1, <1>3
  <2>2. PICK t \in grants : WellFormed(t) /\ r \in Authority(parse(t))
    BY <2>1 DEF AuthorityOf
  <2>3. parse(t) \in Parsed
    BY <2>2, ParsedType
  <2>4. grant_satisfies(parse(t), r)
    BY <1>0, <2>2, <2>3, CoversIsMembership
  <2> QED BY <2>2, <2>4 DEF satisfies
<1> QED BY <1>2, <1>3
=============================================================================
