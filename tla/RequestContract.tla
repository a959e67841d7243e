-------------------------- MODULE RequestContract ---------------------------
(***************************************************************************)
(* What each client of the gateway may rely on, as if its request were the *)
(* only one: an effect needs a title, an effect is out of the gateway's    *)
(* hands from when it is set off until it is settled, and the one answer   *)
(* tells as much of it as its status and its reason stand for.             *)
(***************************************************************************)
EXTENDS Naturals

CONSTANTS
    Clients,
    Response,   \* records of a status and a reason
    NoResponse

VARIABLES
    title,      \* what a request may have done: "nothing", "read" or "write"
    effect,     \* "none", "pending" at the provider, or "settled"
    applied,    \* writes carried out for the request
    response    \* its answer

vars == <<title, effect, applied, response>>

\* Answers that say nothing was done.
Declines(r) == \/ r.status \in {307, 400, 401, 403, 404, 422, 429}
               \/ r.why = "login"

Init ==
    /\ title \in [Clients -> {"nothing", "read", "write"}]
    /\ effect = [c \in Clients |-> "none"]
    /\ applied = [c \in Clients |-> 0]
    /\ response = [c \in Clients |-> NoResponse]

\* At most one write, and only where the request may have one done.
Apply(c) ==
    \E n \in {0, 1} :
       /\ n = 1 => title[c] = "write"
       /\ applied' = [applied EXCEPT ![c] = @ + n]

\* Carried out at once, before there is an answer.
Act(c) ==
    /\ response[c] = NoResponse
    /\ effect[c] = "none"
    /\ title[c] # "nothing"
    /\ effect' = [effect EXCEPT ![c] = "settled"]
    /\ Apply(c)
    /\ UNCHANGED <<title, response>>

\* Handed to the provider.
Send(c) ==
    /\ response[c] = NoResponse
    /\ effect[c] = "none"
    /\ title[c] # "nothing"
    /\ effect' = [effect EXCEPT ![c] = "pending"]
    /\ UNCHANGED <<title, applied, response>>

\* The provider carries it out, or never will, with or without an answer.
Settle(c) ==
    /\ effect[c] = "pending"
    /\ effect' = [effect EXCEPT ![c] = "settled"]
    /\ Apply(c)
    /\ UNCHANGED <<title, response>>

\* Only a 502 leaves the matter open; a 201 says that it was decided; a request
\* without a title is not served, and a refused one had no effect at all.
Answer(c, r) ==
    /\ response[c] = NoResponse
    /\ response' = [response EXCEPT ![c] = r]
    /\ effect[c] = "pending" => r.status = 502
    /\ Declines(r) => applied[c] = 0
    /\ r.status = 201 => effect[c] = "settled"
    /\ r.status \in {401, 403} => effect[c] = "none"
    /\ r.why = "served" => title[c] # "nothing"
    /\ UNCHANGED <<title, effect, applied>>

Next ==
    \E c \in Clients :
       Act(c) \/ Send(c) \/ Settle(c) \/ \E r \in Response : Answer(c, r)

Spec == Init /\ [][Next]_vars
=============================================================================
