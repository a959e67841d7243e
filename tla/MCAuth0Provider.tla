-------------------------- MODULE MCAuth0Provider ---------------------------
(* Two threads and two keys; tokens that expire within the clock's bound,  *)
(* tokens that fail a check of jwt.decode, and tokens whose header cannot  *)
(* be read.                                                                *)
EXTENDS Auth0Provider, TLC

CONSTANTS t1, t2, k1, k2

MCThreads == {t1, t2}
MCKeys == {k1, k2}

Signed(k, form, expires) == [kid |-> k, form |-> form, expires |-> expires]

\* Of either key, and of one.
MCTokens == {Signed(k, form, 2) : k \in Keys, form \in {"good", "bad", "malformed"}}
OneKey == {Signed(k1, form, 1) : form \in {"good", "bad", "malformed"}}
Symmetry == Permutations(Threads) \cup Permutations(Keys)
=============================================================================
