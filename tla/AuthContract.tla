---------------------------- MODULE AuthContract -----------------------------
(* How AuthProvider.verify may end (app/auth/provider.py), as its caller   *)
(* current_principal and its implementation Auth0Provider both see it.     *)

\* "vendor": whatever else an implementation lets through.
Outcomes == {"principal", "InvalidTokenError", "RuntimeError", "vendor"}

\* The promise: an unconfigured provider fails fast; a configured one may refuse
\* any token, with InvalidTokenError only, and accepts a sound one only.
Promised(configured, sound) ==
    IF ~ configured THEN {"RuntimeError"}
    ELSE {"InvalidTokenError"} \cup {o \in {"principal"} : sound}

\* What the caller meets all the same, once the source of the keys may fail.
MayEnd(configured, sound) ==
    Promised(configured, sound) \cup {o \in {"vendor"} : configured}
=============================================================================
