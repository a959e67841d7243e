-------------------------- MODULE MCLazySingletons --------------------------
(* Three threads: two race while the third comes before, between or after. *)
EXTENDS LazySingletons

CONSTANTS t1, t2, t3

MCThreads == {t1, t2, t3}
=============================================================================
