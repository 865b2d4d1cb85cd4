---------------------------- MODULE AccessPolicy ----------------------------
(***************************************************************************)
(* contracts/src/AccessPolicy.sol on top of FileRegistry.sol and           *)
(* P256Validator.sol: the contracts as one system.  A grant's id is the    *)
(* hash of all its terms; the hash is taken as injective, so the terms     *)
(* themselves are the id.  Block time moves in steps of one unit.          *)
(***************************************************************************)
EXTENDS FileRegistry, P256Validator, FiniteSets

CONSTANTS
    Device,         \* device key hashes, keccak256 of the device's public keys
    ReqNonce,       \* request nonces
    U16Max,         \* largest uint16; 65535 in the code
    MaxTime,        \* bound of the model on block.timestamp
    Submitted       \* the terms somebody submits: the inputs of grant()

VARIABLES
    nonces,             \* nonces[owner]
    usedRequestNonce,   \* the request nonces n with usedRequestNonce[n]
    grants,             \* _grants, on the ids that were written
    timestamp           \* block.timestamp

policyVars == <<nonces, usedRequestNonce, grants, timestamp>>
vars == <<files, enrolled, keyIds, nonces, usedRequestNonce, grants, timestamp>>

AccessGrant ==
    [fileId : FileId, headerHash : Hash \cup {ZeroHash}, deviceKeyHash : Device,
     permission : Nat, notBefore : Nat, expiry : Nat, maxOpens : 0 .. U16Max,
     requestNonce : ReqNonce, grantNonce : Nat]

ASSUME PolicyAssumption ==
    /\ SmartAccount \subseteq Account
    /\ U16Max \in Nat
    /\ MaxTime \in Nat
    /\ Submitted \subseteq AccessGrant

\* The part of a GrantRecord that is not a copy of the terms it is stored under.
GrantRecord == [owner : Account, opens : 0 .. U16Max, revoked : BOOLEAN]

TypeOK ==
    /\ RegistryTypeOK
    /\ ValidatorTypeOK
    /\ nonces \in [Account -> Nat]
    /\ usedRequestNonce \subseteq ReqNonce
    /\ DOMAIN grants \subseteq AccessGrant
    /\ grants \in [DOMAIN grants -> GrantRecord]
    /\ timestamp \in 0 .. MaxTime

Init ==
    /\ RegistryInit
    /\ ValidatorInit
    /\ nonces = [a \in Account |-> 0]
    /\ usedRequestNonce = {}
    /\ grants = <<>>
    /\ timestamp = 0

-----------------------------------------------------------------------------
Deny == 0
ReadOnly == 1
Edit == 2

InWindow(g, t) == g.notBefore <= t /\ t < g.expiry

isValid(id) ==
    /\ id \in DOMAIN grants
    /\ ~grants[id].revoked
    /\ InWindow(id, timestamp)
    /\ id.maxOpens = 0 \/ grants[id].opens < id.maxOpens

\* SignatureChecker: an ERC-1271 account asks its validator, an EOA checks ECDSA.
isValidSignatureNow(owner, sig) ==
    IF owner \in SmartAccount THEN verify(owner, sig) ELSE sig.wellSigned

Store(f, x, v) == [y \in DOMAIN f \cup {x} |-> IF y = x THEN v ELSE f[y]]

\* Seeded faults of grant(): the replay check, the request check or the retirement
\* check is missing.
GrantableReplayed(sender, g, sig) ==
    LET owner == ownerOf(g.fileId) IN
    /\ owner # Nobody
    /\ ~files[g.fileId].retired
    /\ g.headerHash = files[g.fileId].headerHash
    /\ g.permission <= Edit
    /\ g.notBefore < g.expiry
    /\ timestamp < g.expiry
    /\ g.requestNonce \notin usedRequestNonce
    /\ sender = owner \/ isValidSignatureNow(owner, sig)

GrantableTwicePerRequest(sender, g, sig) ==
    LET owner == ownerOf(g.fileId) IN
    /\ owner # Nobody
    /\ ~files[g.fileId].retired
    /\ g.headerHash = files[g.fileId].headerHash
    /\ g.permission <= Edit
    /\ g.notBefore < g.expiry
    /\ timestamp < g.expiry
    /\ g.grantNonce = nonces[owner]
    /\ sender = owner \/ isValidSignatureNow(owner, sig)

GrantableRetired(sender, g, sig) ==
    LET owner == ownerOf(g.fileId) IN
    /\ owner # Nobody
    /\ g.headerHash = files[g.fileId].headerHash
    /\ g.permission <= Edit
    /\ g.notBefore < g.expiry
    /\ timestamp < g.expiry
    /\ g.grantNonce = nonces[owner]
    /\ g.requestNonce \notin usedRequestNonce
    /\ sender = owner \/ isValidSignatureNow(owner, sig)

\* Every condition under which grant() does not revert, in the code's order.
Grantable(sender, g, sig) ==
    LET owner == ownerOf(g.fileId) IN
    /\ owner # Nobody
    /\ ~files[g.fileId].retired
    /\ g.headerHash = files[g.fileId].headerHash
    /\ g.permission <= Edit
    /\ g.notBefore < g.expiry
    /\ timestamp < g.expiry
    /\ g.grantNonce = nonces[owner]
    /\ g.requestNonce \notin usedRequestNonce
    /\ sender = owner \/ isValidSignatureNow(owner, sig)

grant(sender, g, sig) ==
    LET owner == ownerOf(g.fileId) IN
    /\ Grantable(sender, g, sig)
    /\ nonces' = [nonces EXCEPT ![owner] = g.grantNonce + 1]
    /\ usedRequestNonce' = usedRequestNonce \cup {g.requestNonce}
    /\ grants' = Store(grants, g, [owner |-> owner, opens |-> 0, revoked |-> FALSE])
    /\ UNCHANGED <<files, enrolled, keyIds, timestamp>>

\* Seeded fault: the second revoke takes the first one back.
revokeToggles(sender, id) ==
    /\ id \in DOMAIN grants
    /\ grants[id].owner = sender
    /\ grants' = [grants EXCEPT ![id].revoked = ~@]
    /\ UNCHANGED <<files, enrolled, keyIds, nonces, usedRequestNonce, timestamp>>

\* Revoking twice is allowed and changes nothing the second time.
revoke(sender, id) ==
    /\ id \in DOMAIN grants
    /\ grants[id].owner = sender
    /\ grants' = [grants EXCEPT ![id].revoked = TRUE]
    /\ UNCHANGED <<files, enrolled, keyIds, nonces, usedRequestNonce, timestamp>>

\* Seeded faults of consumeOpen(): the budget is not looked at, or the counter is
\* wider than the field it is stored in.
consumeOpenPastBudget(id, device) ==
    /\ id \in DOMAIN grants /\ ~grants[id].revoked /\ InWindow(id, timestamp)
    /\ device = id.deviceKeyHash
    /\ grants[id].opens < U16Max
    /\ grants' = [grants EXCEPT ![id].opens = @ + 1]
    /\ UNCHANGED <<files, enrolled, keyIds, nonces, usedRequestNonce, timestamp>>

consumeOpenUnchecked(id, device) ==
    /\ isValid(id)
    /\ device = id.deviceKeyHash
    /\ grants' = [grants EXCEPT ![id].opens = @ + 1]
    /\ UNCHANGED <<files, enrolled, keyIds, nonces, usedRequestNonce, timestamp>>

\* opens is a uint16 and += is checked: at the top the call reverts.
consumeOpen(id, device) ==
    /\ isValid(id)
    /\ device = id.deviceKeyHash
    /\ grants[id].opens < U16Max
    /\ grants' = [grants EXCEPT ![id].opens = @ + 1]
    /\ UNCHANGED <<files, enrolled, keyIds, nonces, usedRequestNonce, timestamp>>

-----------------------------------------------------------------------------
Signature == [keyId : Key, wellSigned : BOOLEAN]

NewBlock ==
    /\ timestamp < MaxTime
    /\ timestamp' = timestamp + 1
    /\ UNCHANGED <<files, enrolled, keyIds, nonces, usedRequestNonce, grants>>

RegistryCall ==
    /\ \E sender \in Account, f \in FileId :
          \/ \E h \in Hash \cup {ZeroHash} : register(sender, f, h) \/ bumpVersion(sender, f, h)
          \/ retire(sender, f)
    /\ UNCHANGED <<enrolled, keyIds, nonces, usedRequestNonce, grants, timestamp>>

ValidatorCall ==
    /\ \E a \in SmartAccount :
          \/ \E k \in Key : onInstall(a, k) \/ enrollKey(a, k) \/ revokeKey(a, k)
          \/ onUninstall(a)
    /\ UNCHANGED <<files, nonces, usedRequestNonce, grants, timestamp>>

PolicyCall ==
    \/ \E sender \in Account, g \in Submitted, sig \in Signature : grant(sender, g, sig)
    \/ \E sender \in Account, id \in DOMAIN grants : revoke(sender, id)
    \/ \E id \in DOMAIN grants, d \in Device : consumeOpen(id, d)

Next == RegistryCall \/ ValidatorCall \/ PolicyCall \/ NewBlock

Spec == Init /\ [][Next]_vars

-----------------------------------------------------------------------------
(***************************************************************************)
(* Properties                                                              *)
(***************************************************************************)

LandedBy(o) == {g \in DOMAIN grants : grants[g].owner = o}

\* The nonces an owner's grants carry are exactly 0 .. nonces[owner] - 1, each
\* used once: a signed approval lands at most once (T03, the replay rule of
\* grant()), and the chain never skips one.
NonceCountsLandedGrants ==
    \A o \in Account :
        /\ {g.grantNonce : g \in LandedBy(o)} = 0 .. (nonces[o] - 1)
        /\ \A g, h \in LandedBy(o) : g.grantNonce = h.grantNonce => g = h

\* One request nonce is answered by one grant over all owners and files (T03).
RequestAnsweredOnce ==
    \A g, h \in DOMAIN grants : g.requestNonce = h.requestNonce => g = h

\* consumeOpen never counts past what the owner signed, and a grant always names
\* the account that owns its file in the registry.
GrantWithinTerms ==
    \A g \in DOMAIN grants :
        /\ g.maxOpens # 0 => grants[g].opens <= g.maxOpens
        /\ grants[g].owner = ownerOf(g.fileId)

\* A grant that has started and is no longer valid (revoked, expired or used up)
\* is never valid again, whatever anyone submits afterwards (T20): re-submitting
\* the same terms must not write a fresh record over the old one.
DeadStaysDead ==
    [][\A g \in DOMAIN grants :
          (g.notBefore <= timestamp /\ ~isValid(g)) => ~isValid(g)']_vars

\* A retired file is frozen: its record no longer changes and no grant for it
\* lands after the retirement, although the two contracts keep separate state.
RetiredIsFinal ==
    [][\A f \in FileId : files[f].retired =>
          /\ files'[f] = files[f]
          /\ \A g \in DOMAIN grants' : g.fileId = f => g \in DOMAIN grants]_vars

\* The owner of a registered file never changes, so neither does the nonce
\* sequence that protects its grants (register() cannot be repeated).
OwnerIsForever ==
    [][\A f \in FileId : ownerOf(f) # Nobody => ownerOf(f)' = ownerOf(f)]_vars

\* The list of an account's devices and the keys its signatures are checked
\* against never disagree: a key missing from the list would survive onUninstall
\* and keep approving (T12), a key listed twice would survive revokeKey there.
KeyListMatchesKeys ==
    \A a \in SmartAccount :
        /\ enrolled[a] = {keyIds[a][i] : i \in DOMAIN keyIds[a]}
        /\ \A i, j \in DOMAIN keyIds[a] : keyIds[a][i] = keyIds[a][j] => i = j

-----------------------------------------------------------------------------
\* What a reader of the contracts can rely on, computed from their state.
Retired == {f \in FileId : files[f].retired}
UsedUp(g) == g.maxOpens # 0 /\ grants[g].opens >= g.maxOpens
Ended == {g \in DOMAIN grants : grants[g].revoked \/ UsedUp(g)}

Promise == INSTANCE Rights WITH
    Terms  <- Submitted,
    owner  <- [f \in FileId |-> ownerOf(f)],
    closed <- Retired,
    landed <- DOMAIN grants,
    ended  <- Ended

\* The three contracts, with their separate state, nonces and signatures, keep
\* the promise of Rights: a file is claimed once and never changes hands, no grant
\* lands for a retired file or for a request already answered, none disappears,
\* and one that was revoked or used up is never written afresh.
ImplementsRights == Promise!Spec

=============================================================================
