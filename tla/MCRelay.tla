------------------------------- MODULE MCRelay -------------------------------
(* Envelopes of a small exchange between owner o, with device od, and device d. *)
EXTENDS Relay

Env(kind, kid, req) == [kind |-> kind, kid |-> kid, owner |-> "o", fid |-> "f", req |-> req]

OneRelay == <<"r1">>
TwoRelays == <<"r1", "r2">>

\* d asks twice for one file; the owner answers the first request and pulls it back,
\* and d reports a version it wrote.
Exchange ==
    {Env("announce", "d", 0), Env("announce", "od", 0), Env("request", "d", 1),
     Env("request", "d", 2), Env("grant", "od", 1), Env("version", "d", 1),
     Env("revoke", "od", 1)}

\* d runs ahead by the skew allowed, the owner runs late by it.
Clocks == [k \in Kids |-> IF k = "d" THEN MAX_SKEW ELSE -MAX_SKEW]

OneDevice == {Env("announce", "d", 0), Env("request", "d", 1)}
=============================================================================
