------------------------------ MODULE MCAccess ------------------------------
(* Access on a small instance: two requests of one user, a key set that     *)
(* rotates once, a TTL of two ticks and answers that take up to two.        *)
EXTENDS Access, TLC

CONSTANTS r1, r2, g1, g2

MCCaller == {r1, r2}
MCOrg == {g1, g2}
MCGivenRole == {none, "admin"}
MCInitialMembership == [g \in MCOrg |-> IF g = g1 THEN none ELSE "admin"]

Of(key, expires) == [kid |-> key, key |-> key, aud |-> FALSE, begins |-> 0, expires |-> expires,
                     active |-> TRUE, sub |-> "uuid", email |-> TRUE, org |-> g1]

Expiring == [Of(1, 1) EXCEPT !.org = malformed]
Nobody == [Of(1, 9) EXCEPT !.sub = "malformed"]
Unsigned == [Of(1, 9) EXCEPT !.key = none, !.active = FALSE]
ForOthers == [Of(1, 9) EXCEPT !.aud = TRUE]
Early == [Of(1, 9) EXCEPT !.begins = 2]

MCToken == {Of(1, 9), Of(3, 9), Expiring, Nobody, Unsigned, ForOthers, Early}

\* Every path, every token, and every place an organization can be named.
MCRequest ==
  {[path |-> "/organizations", token |-> Of(1, 9), query |-> g2],
   [path |-> "/users", token |-> Unsigned, query |-> none]}
    \cup [path : {"/organizations"}, token : {Of(3, 9), Nobody, none}, query : {none}]
    \cup [path : {"/organizations"}, token : {Expiring}, query : {none, malformed, g2}]
    \cup {[path |-> "/health", token |-> Of(1, 9), query |-> none],
           [path |-> "/redoc", token |-> Early, query |-> none],
           [path |-> "/users", token |-> ForOthers, query |-> none]}

Symmetry == Permutations(MCCaller)

=============================================================================
