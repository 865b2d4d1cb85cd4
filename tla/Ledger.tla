------------------------------- MODULE Ledger --------------------------------
(***************************************************************************)
(* apps/agent/src-tauri/src/ledger.rs: sealed.json, what the owner's       *)
(* machine remembers across a restart.  Every operation loads, changes and *)
(* replaces the whole file under one mutex, by a rename, so it is one step *)
(* and a crash leaves the state before it or the state after it.  The disk *)
(* itself does not fail.                                                   *)
(*                                                                         *)
(* A version of a file is named by the requests whose holders wrote it,    *)
(* in order: <<>> is what seal_file wrote, Append(h, r) what the holder of *)
(* an approval of r saved on top of h.  Len + 1 is its version number.     *)
(***************************************************************************)
EXTENDS Integers, Sequences

CONSTANTS
    File,
    Req,            \* requests, by their nonce
    Slot,           \* the calls of the Agent's commands; a call has its own time
    MaxVer          \* bound of the model on the versions of a file

VARIABLES
    grant_nonce,
    files,          \* by file id, for the files locked here
    grants,         \* approvals given, by grant id
    deferred_bumps  \* (fid, header) pairs, at most one of a file

ledgerVars == <<grant_nonce, files, grants, deferred_bumps>>

Header == UNION {[1 .. n -> Req] : n \in 0 .. (MaxVer - 1)}
Ver(h) == Len(h) + 1
Prev(h) == SubSeq(h, 1, Len(h) - 1)

\* The grant id is the hash of the terms.  by stands for the terms that depend on
\* when and how the person answered: window and permission.
GrantId == [req : Req, header : Header, nonce : Nat, by : Slot]

Entry == [header : Header, registered_tx : BOOLEAN]
Grant == [tx_hash : BOOLEAN, revoked_at : BOOLEAN, revoke_tx : BOOLEAN]

ASSUME LedgerAssumption == MaxVer \in Nat \ {0}

LedgerTypeOK ==
    /\ grant_nonce \in Nat
    /\ DOMAIN files \subseteq File /\ files \in [DOMAIN files -> Entry]
    /\ DOMAIN grants \subseteq GrantId /\ grants \in [DOMAIN grants -> Grant]
    /\ DOMAIN deferred_bumps \subseteq DOMAIN files
    /\ deferred_bumps \in [DOMAIN deferred_bumps -> Header]

LedgerInit ==
    /\ grant_nonce = 0
    /\ files = <<>>
    /\ grants = <<>>
    /\ deferred_bumps = <<>>

Put(f, x, v) == [y \in DOMAIN f \cup {x} |-> IF y = x THEN v ELSE f[y]]

-----------------------------------------------------------------------------
record(f) ==
    /\ files' = Put(files, f, [header |-> <<>>, registered_tx |-> FALSE])
    /\ UNCHANGED <<grant_nonce, grants, deferred_bumps>>

set_registered_tx(f) ==
    /\ files' = [files EXCEPT ![f].registered_tx = TRUE]
    /\ UNCHANGED <<grant_nonce, grants, deferred_bumps>>

Continues(f, h) ==
    /\ f \in DOMAIN files
    /\ files[f].header = Prev(h)
    /\ Ver(h) = Ver(files[f].header) + 1

\* Only the version that follows the one on record (T19).
advance_version(f, h) ==
    /\ files' = [files EXCEPT ![f].header = h]
    /\ UNCHANGED <<grant_nonce, grants, deferred_bumps>>

record_grant(g, tx) ==
    /\ grants' = Put(grants, g, [tx_hash |-> tx, revoked_at |-> FALSE, revoke_tx |-> FALSE])
    /\ UNCHANGED <<grant_nonce, files, deferred_bumps>>

\* Idempotent; a transaction once noted is kept.
mark_revoked(g, tx) ==
    /\ grants' = [grants EXCEPT ![g].revoked_at = TRUE, ![g].revoke_tx = @ \/ tx]
    /\ UNCHANGED <<grant_nonce, files, deferred_bumps>>

\* A later version of the same file replaces the queued one.
defer_bump(f, h) ==
    /\ deferred_bumps' = Put(deferred_bumps, f, h)
    /\ UNCHANGED <<grant_nonce, files, grants>>

\* Seeded fault: whatever is queued for a file that landed is forgotten.
clear_deferred_files(landed) ==
    /\ deferred_bumps' = [f \in DOMAIN deferred_bumps \ DOMAIN landed |-> deferred_bumps[f]]
    /\ UNCHANGED <<grant_nonce, files, grants>>

\* Forgets the pairs that landed; a pair queued since then stays.
clear_deferred_bumps(landed) ==
    LET kept == {f \in DOMAIN deferred_bumps :
                    ~(f \in DOMAIN landed /\ landed[f] = deferred_bumps[f])}
    IN  /\ deferred_bumps' = [f \in kept |-> deferred_bumps[f]]
        /\ UNCHANGED <<grant_nonce, files, grants>>

\* Seeded fault: the count is not written back.
next_grant_nonce_unsaved == UNCHANGED ledgerVars

\* Hands out grant_nonce; the increment is on disk before the caller has the value.
next_grant_nonce ==
    /\ grant_nonce' = grant_nonce + 1
    /\ UNCHANGED <<files, grants, deferred_bumps>>
=============================================================================
