-------------------------- MODULE MCFileTokenStore --------------------------
(* Two threads saving, each as often as it likes, one thread loading.      *)
EXTENDS FileTokenStore

CONSTANTS old, new, s1, s2, l1

MCTokens == {old, new}
MCSavers == {s1, s2}
MCLoaders == {l1}
=============================================================================
