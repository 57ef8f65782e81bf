--------------------------- MODULE MCEventStorage ---------------------------
(* Small instances of EventStorage: three ids, two bodies, two sessions.   *)
EXTENDS EventStorage

CONSTANTS e1, e2, e3, s1, s2, plain, other, secret

E(id, session, body) == [id |-> id, session |-> session, body |-> body]
R(session, events) == [session |-> session, events |-> events]

MCIds == {e1, e2, e3}
MCSessions == {s1, s2}
MCBodies == {plain, other, secret}
MCSecretBodies == {secret}

\* An event on its own, the same id with another payload, another event, a
\* batch of both and a third, and a batch of refused events.
MCRequests ==
    {R(s1, <<E(e1, s1, plain)>>),
     R(s1, <<E(e1, s1, other)>>),
     R(s1, <<E(e2, s1, plain)>>),
     R(s1, <<E(e1, s1, plain), E(e2, s1, plain), E(e3, s1, plain)>>),
     R(s1, <<E(e3, s2, plain), E(e2, s1, secret)>>)}
=============================================================================
