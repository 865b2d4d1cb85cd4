------------------------------- MODULE Rights -------------------------------
(***************************************************************************)
(* What the contracts promise together, without nonces, signatures,        *)
(* versions or clocks: a file has one owner for good, an owner's answer to *)
(* a request is given once, and what has ended never begins again.         *)
(***************************************************************************)
CONSTANTS
    Account,    \* those who can own a file
    Nobody,     \* the owner of a file that nobody has registered
    FileId,     \* files
    Terms       \* the grants that can be asked for; each names a fileId and a requestNonce

VARIABLES
    owner,      \* owner[f] : Account or Nobody
    closed,     \* files the owner gives no further right to
    landed,     \* grants given so far
    ended       \* grants given and since revoked or used up

rights == <<owner, closed, landed, ended>>

Init ==
    /\ owner = [f \in FileId |-> Nobody]
    /\ closed = {}
    /\ landed = {}
    /\ ended = {}

Claim(a, f) ==
    /\ owner[f] = Nobody
    /\ owner' = [owner EXCEPT ![f] = a]
    /\ UNCHANGED <<closed, landed, ended>>

Close(f) ==
    /\ owner[f] # Nobody
    /\ closed' = closed \cup {f}
    /\ UNCHANGED <<owner, landed, ended>>

Give(g) ==
    /\ owner[g.fileId] # Nobody
    /\ g.fileId \notin closed
    /\ \A h \in landed : h.requestNonce # g.requestNonce
    /\ landed' = landed \cup {g}
    /\ UNCHANGED <<owner, closed, ended>>

End(g) ==
    /\ ended' = ended \cup {g}
    /\ UNCHANGED <<owner, closed, landed>>

Next ==
    \/ \E a \in Account, f \in FileId : Claim(a, f)
    \/ \E f \in FileId : Close(f)
    \/ \E g \in Terms : Give(g)
    \/ \E g \in landed : End(g)

Spec == Init /\ [][Next]_rights

=============================================================================
