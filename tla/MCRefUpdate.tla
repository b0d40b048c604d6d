------------------------------ MODULE MCRefUpdate ------------------------------
(* A small instance of RefUpdate for TLC. *)
EXTENDS RefUpdate

CONSTANTS old, new

Update(next, expected, force) ==
  [kind |-> "update", variable |-> "GIT_REF", next |-> next,
   expected |-> expected, force |-> force]

\* An update, its forced and its unforced retry, the way back, a first update,
\* and a rotation of the token.
MCRequests ==
  { Update(new, old, FALSE), Update(new, new, TRUE), Update(new, new, FALSE),
    Update(old, new, FALSE), Update(new, Unset, FALSE),
    [Update(old, Unset, FALSE) EXCEPT !.kind = "rotate", !.variable = "GATEWAY_TOKEN"] }

\* A rotation asks only whether there is a token: one value stands for both.
MCInit == Init /\ variables["GATEWAY_TOKEN"] # new

MCSpec == MCInit /\ [][Next]_vars /\ \A c \in Call : WF_vars(Step(c))
=============================================================================
