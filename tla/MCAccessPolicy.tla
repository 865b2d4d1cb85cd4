--------------------------- MODULE MCAccessPolicy ---------------------------
(* A small instance of the contracts: two owners (a smart account and an    *)
(* EOA), two files, two header hashes, and terms that differ in the fields   *)
(* grant() compares: version, window, budget, permission and both nonces.    *)
EXTENDS AccessPolicy, TLC

CONSTANTS f1, f2, h1, h2, d1, r1, r2

Terms(f, h, perm, nb, exp, opens, r, n) ==
    [fileId |-> f, headerHash |-> h, deviceKeyHash |-> d1, permission |-> perm,
     notBefore |-> nb, expiry |-> exp, maxOpens |-> opens, requestNonce |-> r, grantNonce |-> n]

MCSubmitted ==
    {Terms(f1, h1, ReadOnly, 0, 2, 1, r1, 0),
     Terms(f1, h2, Edit, 1, 2, 0, r2, 0),
     Terms(f1, h1, Edit, 1, 2, 0, r2, 1),
     Terms(f2, h1, Deny, 0, 1, 0, r2, 0),
     Terms(f2, h2, ReadOnly, 0, 2, 2, r1, 1),
     Terms(f1, h1, 3, 0, 2, 0, r2, 0),
     Terms(f1, h1, ReadOnly, 2, 2, 0, r2, 0)}
=============================================================================
