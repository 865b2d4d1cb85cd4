------------------------- MODULE AccessPolicyProofs -------------------------
(***************************************************************************)
(* Proofs about the contracts, for any accounts, files, terms and bounds.  *)
(* The argument rests on one fact about grants: the terms of a landed      *)
(* grant carry a nonce below nonces[owner] and a request nonce that is     *)
(* marked used, and the owner of the file never changes.  So the same      *)
(* terms can never land twice and a record is never written over.          *)
(***************************************************************************)
EXTENDS AccessPolicy, TLAPS

USE RegistryAssumption, ValidatorAssumption, PolicyAssumption

\* What has landed is closed to replay: the conjuncts of the inductive invariant.
OwnerOfFile == \A g \in DOMAIN grants : grants[g].owner = ownerOf(g.fileId)
NonceSpent == \A g \in DOMAIN grants : g.grantNonce < nonces[grants[g].owner]
RequestSpent == \A g \in DOMAIN grants : g.requestNonce \in usedRequestNonce
RetiredOwned == \A f \in FileId : files[f].retired => ownerOf(f) # Nobody
Budget == \A g \in DOMAIN grants : g.maxOpens # 0 => grants[g].opens <= g.maxOpens

\* An account's key list lists exactly its enrolled keys, each once.
ListMatches(ids, S) ==
    /\ S = {ids[i] : i \in DOMAIN ids}
    /\ \A i, j \in DOMAIN ids : ids[i] = ids[j] => i = j

KeyInv == ValidatorTypeOK /\ \A a \in SmartAccount : ListMatches(keyIds[a], enrolled[a])

IInv ==
    /\ TypeOK
    /\ KeyInv
    /\ RetiredOwned
    /\ OwnerOfFile
    /\ NonceSpent
    /\ RequestSpent
    /\ Budget
    /\ RequestAnsweredOnce
    /\ NonceCountsLandedGrants

-----------------------------------------------------------------------------
\* The zeroed state of a fresh deployment is well typed.
LEMMA InitTypeOK == Init => TypeOK
<1> SUFFICES ASSUME Init PROVE TypeOK
  OBVIOUS
<1>1. RegistryTypeOK
  BY DEF Init, RegistryInit, RegistryTypeOK, FileRecord, ZeroFile
<1>2. ValidatorTypeOK
  BY DEF Init, ValidatorInit, ValidatorTypeOK
<1>3. DOMAIN grants \subseteq AccessGrant /\ grants \in [DOMAIN grants -> GrantRecord]
  BY DEF Init
<1> QED
  BY <1>1, <1>2, <1>3 DEF Init, TypeOK

\* Each function of the registry keeps its records well typed.
LEMMA RegistryCallType ==
    ASSUME TypeOK, RegistryCall PROVE TypeOK'
<1> USE DEF TypeOK, RegistryTypeOK, FileRecord
<1>1. PICK sender \in Account, f \in FileId :
         \/ \E h \in Hash \cup {ZeroHash} : register(sender, f, h) \/ bumpVersion(sender, f, h)
         \/ retire(sender, f)
  BY DEF RegistryCall
<1>2. RegistryTypeOK'
  <2>1. CASE \E h \in Hash \cup {ZeroHash} : register(sender, f, h)
    BY <2>1 DEF register
  <2>2. CASE \E h \in Hash \cup {ZeroHash} : bumpVersion(sender, f, h)
    BY <2>2 DEF bumpVersion
  <2>3. CASE retire(sender, f)
    BY <2>3 DEF retire
  <2> QED
    BY <1>1, <2>1, <2>2, <2>3
<1> QED
  BY <1>2 DEF RegistryCall, ValidatorTypeOK

\* Enrolling a key that is not listed keeps the list and the mapping in step.
LEMMA AppendMatches ==
    ASSUME NEW ids \in Seq(Key), NEW S, NEW k \in Key, ListMatches(ids, S), k \notin S
    PROVE  Append(ids, k) \in Seq(Key) /\ ListMatches(Append(ids, k), S \cup {k})
<1> DEFINE new == Append(ids, k)
<1>1. /\ new \in Seq(Key)
      /\ Len(new) = Len(ids) + 1
      /\ \A i \in 1 .. Len(ids) : new[i] = ids[i]
      /\ new[Len(ids) + 1] = k
  OBVIOUS
<1>2. DOMAIN new = 1 .. (Len(ids) + 1) /\ DOMAIN ids = 1 .. Len(ids) /\ Len(ids) \in Nat
  BY <1>1
<1>3. S \cup {k} = {new[i] : i \in DOMAIN new}
  BY <1>1, <1>2 DEF ListMatches
<1>4. ASSUME NEW i \in DOMAIN new, NEW j \in DOMAIN new, new[i] = new[j] PROVE i = j
  BY <1>1, <1>2, <1>4 DEF ListMatches
<1> QED
  BY <1>1, <1>3, <1>4 DEF ListMatches

\* Moving the last key into the place of the removed one and popping the end
\* removes that key and no other from the list.
LEMMA SwapRemoveMatches ==
    ASSUME NEW ids \in Seq(Key), NEW S, NEW id \in S, ListMatches(ids, S)
    PROVE  SwapRemove(ids, id) \in Seq(Key) /\ ListMatches(SwapRemove(ids, id), S \ {id})
<1> DEFINE n == Len(ids)
           First(j) == ids[j] = id /\ \A h \in 1 .. (j - 1) : ids[h] # id
           i == CHOOSE j \in 1 .. n : First(j)
           new == [j \in 1 .. (n - 1) |-> IF j = i THEN ids[n] ELSE ids[j]]
<1>1. DOMAIN ids = 1 .. n /\ n \in Nat
  OBVIOUS
<1>2. PICK j0 \in 1 .. n : ids[j0] = id
  BY <1>1 DEF ListMatches
<1>3. First(j0)
  BY <1>1, <1>2 DEF ListMatches
<1>4. i \in 1 .. n /\ ids[i] = id
  BY <1>3
<1>5. n - 1 \in Nat /\ n \in DOMAIN ids
  BY <1>1, <1>2
<1>6. new \in Seq(Key) /\ DOMAIN new = 1 .. (n - 1)
  <2>1. \A j \in 1 .. (n - 1) : new[j] \in Key
    BY <1>1, <1>4, <1>5
  <2> QED
    BY <1>5, <2>1
<1>7. new = SwapRemove(ids, id)
  BY DEF SwapRemove
<1>8. \A j \in 1 .. (n - 1) : new[j] = IF j = i THEN ids[n] ELSE ids[j]
  OBVIOUS
<1>9. \A a, b \in 1 .. n : ids[a] = ids[b] => a = b
  BY <1>1 DEF ListMatches
<1> HIDE DEF new, i, n
<1>10. ASSUME NEW a \in DOMAIN new, NEW b \in DOMAIN new, new[a] = new[b] PROVE a = b
  <2>1. a \in 1 .. (n - 1) /\ b \in 1 .. (n - 1) /\ a # n /\ b # n /\ a \in 1 .. n /\ b \in 1 .. n
    BY <1>1, <1>6
  <2>2. n \in 1 .. n
    BY <1>1, <1>5
  <2> QED
    BY <1>8, <1>9, <1>10, <2>1, <2>2
<1>11. ASSUME NEW k \in S \ {id} PROVE \E j \in DOMAIN new : new[j] = k
  <2>1. PICK j \in 1 .. n : ids[j] = k
    BY <1>1 DEF ListMatches
  <2>2. j # i
    BY <1>4, <2>1
  <2>3. CASE j = n
    <3>1. i \in 1 .. (n - 1)
      BY <1>1, <1>4, <2>2, <2>3
    <3> QED
      BY <1>6, <1>8, <2>1, <2>3, <3>1
  <2>4. CASE j # n
    <3>1. j \in 1 .. (n - 1)
      BY <1>1, <2>1, <2>4
    <3> QED
      BY <1>6, <1>8, <2>1, <2>2, <3>1
  <2> QED
    BY <2>3, <2>4
<1>12. ASSUME NEW j \in DOMAIN new PROVE new[j] \in S \ {id}
  <2>1. j \in 1 .. (n - 1) /\ j \in 1 .. n /\ j # n /\ n \in 1 .. n
    BY <1>1, <1>5, <1>6
  <2>2. \A a \in 1 .. n : ids[a] \in S
    BY <1>1 DEF ListMatches
  <2> QED
    BY <1>4, <1>8, <1>9, <2>1, <2>2
<1>13. S \ {id} = {new[j] : j \in DOMAIN new}
  BY <1>11, <1>12
<1>14. ListMatches(new, S \ {id})
  BY <1>10, <1>13 DEF ListMatches
<1> QED
  BY <1>6, <1>7, <1>14

-----------------------------------------------------------------------------
\* _enroll keeps list and mapping in step, whichever of its two callers runs it.
LEMMA EnrollKeyInv ==
    ASSUME KeyInv, NEW a \in SmartAccount, NEW k \in Key, Enroll(a, k)
    PROVE  KeyInv'
<1>1. /\ Append(keyIds[a], k) \in Seq(Key)
      /\ ListMatches(Append(keyIds[a], k), enrolled[a] \cup {k})
  BY AppendMatches DEF KeyInv, ValidatorTypeOK, Enroll
<1>2. ValidatorTypeOK'
  BY <1>1 DEF KeyInv, ValidatorTypeOK, Enroll
<1>3. ASSUME NEW b \in SmartAccount PROVE ListMatches(keyIds'[b], enrolled'[b])
  <2>1. CASE b = a
    BY <1>1, <2>1 DEF KeyInv, ValidatorTypeOK, Enroll
  <2>2. CASE b # a
    BY <2>2 DEF KeyInv, ValidatorTypeOK, Enroll
  <2> QED
    BY <2>1, <2>2
<1> QED
  BY <1>2, <1>3 DEF KeyInv, ListMatches

\* revokeKey keeps list and mapping in step.
LEMMA RevokeKeyInv ==
    ASSUME KeyInv, NEW a \in SmartAccount, NEW k \in Key, revokeKey(a, k)
    PROVE  KeyInv'
<1>1. /\ SwapRemove(keyIds[a], k) \in Seq(Key)
      /\ ListMatches(SwapRemove(keyIds[a], k), enrolled[a] \ {k})
  BY SwapRemoveMatches DEF KeyInv, ValidatorTypeOK, revokeKey
<1>2. ValidatorTypeOK'
  BY <1>1 DEF KeyInv, ValidatorTypeOK, revokeKey
<1>3. ASSUME NEW b \in SmartAccount PROVE ListMatches(keyIds'[b], enrolled'[b])
  <2>1. CASE b = a
    BY <1>1, <2>1 DEF KeyInv, ValidatorTypeOK, revokeKey
  <2>2. CASE b # a
    BY <2>2 DEF KeyInv, ValidatorTypeOK, revokeKey
  <2> QED
    BY <2>1, <2>2
<1> QED
  BY <1>2, <1>3 DEF KeyInv, ListMatches

\* onUninstall clears the list and every key it names.
LEMMA UninstallKeyInv ==
    ASSUME KeyInv, NEW a \in SmartAccount, onUninstall(a)
    PROVE  KeyInv'
<1>1. /\ keyIds' = [keyIds EXCEPT ![a] = <<>>]
      /\ enrolled' = [enrolled EXCEPT ![a] = {}]
  BY DEF KeyInv, ListMatches, ValidatorTypeOK, onUninstall
<1>2. ValidatorTypeOK'
  BY <1>1 DEF KeyInv, ValidatorTypeOK
<1>3. ASSUME NEW b \in SmartAccount PROVE ListMatches(keyIds'[b], enrolled'[b])
  <2>1. CASE b = a
    BY <1>1, <2>1 DEF KeyInv, ValidatorTypeOK, ListMatches
  <2>2. CASE b # a
    BY <1>1, <2>2 DEF KeyInv, ValidatorTypeOK
  <2> QED
    BY <2>1, <2>2
<1> QED
  BY <1>2, <1>3 DEF KeyInv, ListMatches

\* A module nobody has installed lists no key.
LEMMA InitKeyInv == Init => KeyInv
BY DEF Init, ValidatorInit, KeyInv, ValidatorTypeOK, ListMatches

\* Every function of P256Validator keeps the list and the mapping in step.
LEMMA KeyStep == ASSUME KeyInv, ValidatorCall PROVE KeyInv'
<1>1. PICK a \in SmartAccount :
         \/ \E k \in Key : onInstall(a, k) \/ enrollKey(a, k) \/ revokeKey(a, k)
         \/ onUninstall(a)
  BY DEF ValidatorCall
<1>2. CASE \E k \in Key : onInstall(a, k) \/ enrollKey(a, k)
  BY <1>2, EnrollKeyInv DEF onInstall, enrollKey
<1>3. CASE \E k \in Key : revokeKey(a, k)
  BY <1>3, RevokeKeyInv
<1>4. CASE onUninstall(a)
  BY <1>4, UninstallKeyInv
<1> QED
  BY <1>1, <1>2, <1>3, <1>4

-----------------------------------------------------------------------------
\* A call to the registry moves no owner of a registered file.
LEMMA OwnerKept ==
    ASSUME TypeOK, [Next]_vars, NEW f \in FileId, ownerOf(f) # Nobody
    PROVE  ownerOf(f)' = ownerOf(f)
<1> USE DEF TypeOK, RegistryTypeOK, FileRecord, ownerOf
<1>1. CASE RegistryCall
  BY <1>1 DEF RegistryCall, register, bumpVersion, retire
<1>2. CASE ValidatorCall \/ PolicyCall \/ NewBlock \/ UNCHANGED vars
  BY <1>2 DEF ValidatorCall, PolicyCall, NewBlock, vars, grant, revoke, consumeOpen
<1> QED
  BY <1>1, <1>2 DEF Next

\* Terms that land are new: nothing was stored under them before.
LEMMA GrantIsFresh ==
    ASSUME IInv, NEW sender \in Account, NEW g \in Submitted, NEW sig \in Signature,
           grant(sender, g, sig)
    PROVE  /\ g \notin DOMAIN grants
           /\ g \in AccessGrant
           /\ ownerOf(g.fileId) \in Account
<1>1. g \in AccessGrant
  OBVIOUS
<1>2. ownerOf(g.fileId) \in Account
  BY <1>1 DEF grant, Grantable, IInv, TypeOK, RegistryTypeOK, FileRecord, AccessGrant, ownerOf
<1>3. g.grantNonce = nonces[ownerOf(g.fileId)]
  BY DEF grant, Grantable
<1>4. g \notin DOMAIN grants
  BY <1>2, <1>3 DEF IInv, OwnerOfFile, NonceSpent, TypeOK
<1> QED
  BY <1>1, <1>2, <1>4

\* A grant that lands keeps the bookkeeping of nonces, requests and terms.
LEMMA GrantPreserves ==
    ASSUME IInv, NEW sender \in Account, NEW g \in Submitted, NEW sig \in Signature,
           grant(sender, g, sig)
    PROVE  IInv'
<1> DEFINE owner == ownerOf(g.fileId)
           rec == [owner |-> owner, opens |-> 0, revoked |-> FALSE]
<1>1. g \notin DOMAIN grants /\ g \in AccessGrant /\ owner \in Account
  BY GrantIsFresh
<1>2. /\ UNCHANGED <<files, enrolled, keyIds, timestamp>>
      /\ nonces' = [nonces EXCEPT ![owner] = g.grantNonce + 1]
      /\ usedRequestNonce' = usedRequestNonce \cup {g.requestNonce}
      /\ g.grantNonce = nonces[owner]
  BY DEF grant, Grantable
<1>3. /\ DOMAIN grants' = DOMAIN grants \cup {g}
      /\ grants'[g] = rec
      /\ \A x \in DOMAIN grants : grants'[x] = grants[x]
      /\ grants' = [x \in DOMAIN grants' |-> grants'[x]]
  BY <1>1 DEF grant, Store
<1>4. rec \in GrantRecord
  BY <1>1 DEF GrantRecord
<1> HIDE DEF owner, rec
<1>5. TypeOK'
  <2>1. nonces' \in [Account -> Nat] /\ usedRequestNonce' \subseteq ReqNonce
    BY <1>1, <1>2 DEF IInv, TypeOK, AccessGrant
  <2>2. DOMAIN grants' \subseteq AccessGrant /\ grants' \in [DOMAIN grants' -> GrantRecord]
    BY <1>1, <1>3, <1>4 DEF IInv, TypeOK
  <2> QED
    BY <1>2, <2>1, <2>2 DEF IInv, TypeOK, RegistryTypeOK, ValidatorTypeOK
<1>6. OwnerOfFile'
  BY <1>2, <1>3 DEF IInv, OwnerOfFile, owner, rec, ownerOf
<1>7. NonceSpent'
  <2>1. \A x \in DOMAIN grants : grants[x].owner \in Account /\ x.grantNonce \in Nat
    BY DEF IInv, TypeOK, AccessGrant, GrantRecord
  <2>2. \A o \in Account : nonces[o] \in Nat /\ nonces'[o] >= nonces[o]
    BY <1>1, <1>2 DEF IInv, TypeOK
  <2>3. ASSUME NEW x \in DOMAIN grants PROVE x.grantNonce < nonces'[grants'[x].owner]
    BY <1>3, <2>1, <2>2, <1>2, <1>1 DEF IInv, NonceSpent, TypeOK
  <2>4. g.grantNonce < nonces'[grants'[g].owner]
    BY <1>1, <1>2, <1>3 DEF IInv, TypeOK, AccessGrant, rec
  <2> QED
    BY <1>3, <2>3, <2>4 DEF NonceSpent
<1>8. RequestSpent'
  BY <1>2, <1>3 DEF IInv, RequestSpent
<1>9. Budget'
  BY <1>1, <1>3 DEF IInv, Budget, rec, AccessGrant
<1>10. RequestAnsweredOnce'
  <2>1. g.requestNonce \notin usedRequestNonce
    BY DEF grant, Grantable
  <2>2. \A x \in DOMAIN grants : x.requestNonce # g.requestNonce
    BY <2>1 DEF IInv, RequestSpent
  <2> QED
    BY <1>3, <2>2 DEF IInv, RequestAnsweredOnce
<1>11. NonceCountsLandedGrants'
  <2> SUFFICES ASSUME NEW o \in Account
               PROVE  /\ {x.grantNonce : x \in LandedBy(o)'} = 0 .. (nonces'[o] - 1)
                      /\ \A x, y \in LandedBy(o)' : x.grantNonce = y.grantNonce => x = y
    BY DEF NonceCountsLandedGrants
  <2>1. CASE o # owner
    <3>1. LandedBy(o)' = LandedBy(o) /\ nonces'[o] = nonces[o]
      BY <1>2, <1>3, <2>1 DEF LandedBy, rec, IInv, TypeOK
    <3> QED
      BY <3>1 DEF IInv, NonceCountsLandedGrants
  <2>2. CASE o = owner
    <3>1. LandedBy(o)' = LandedBy(o) \cup {g} /\ nonces'[o] = nonces[o] + 1
      BY <1>1, <1>2, <1>3, <2>2 DEF LandedBy, rec, IInv, TypeOK
    <3>2. nonces[o] \in Nat /\ g.grantNonce = nonces[o]
      BY <1>2, <2>2 DEF IInv, TypeOK
    <3>3. {x.grantNonce : x \in LandedBy(o)} = 0 .. (nonces[o] - 1)
      BY DEF IInv, NonceCountsLandedGrants
    <3>4. {x.grantNonce : x \in LandedBy(o) \cup {g}} = 0 .. nonces[o]
      <4>1. {x.grantNonce : x \in LandedBy(o) \cup {g}}
              = {x.grantNonce : x \in LandedBy(o)} \cup {nonces[o]}
        BY <3>2
      <4>2. 0 .. nonces[o] = (0 .. (nonces[o] - 1)) \cup {nonces[o]}
        BY <3>2
      <4> QED
        BY <3>3, <4>1, <4>2
    <3>5. \A x \in LandedBy(o) : x.grantNonce # g.grantNonce
      BY <3>2, <3>3
    <3>6. \A x, y \in LandedBy(o) : x.grantNonce = y.grantNonce => x = y
      BY DEF IInv, NonceCountsLandedGrants
    <3> QED
      BY <3>1, <3>2, <3>4, <3>5, <3>6
  <2> QED
    BY <2>1, <2>2
<1> QED
  <2>1. KeyInv' /\ RetiredOwned'
    BY <1>2 DEF IInv, KeyInv, ValidatorTypeOK, ListMatches, RetiredOwned, ownerOf
  <2> QED
    BY <1>5, <1>6, <1>7, <1>8, <1>9, <1>10, <1>11, <2>1 DEF IInv

\* revoke and consumeOpen rewrite one record and keep its owner.
LEMMA UpdatePreserves ==
    ASSUME IInv, NEW id \in DOMAIN grants,
           \/ grants' = [grants EXCEPT ![id].revoked = TRUE]
           \/ /\ isValid(id)
              /\ grants[id].opens < U16Max
              /\ grants' = [grants EXCEPT ![id].opens = @ + 1],
           UNCHANGED <<files, enrolled, keyIds, nonces, usedRequestNonce, timestamp>>
    PROVE  IInv'
<1>1. id \in AccessGrant /\ grants[id] \in GrantRecord
  BY DEF IInv, TypeOK
<1>2. PICK r \in GrantRecord :
         /\ grants' = [grants EXCEPT ![id] = r]
         /\ r.owner = grants[id].owner
         /\ id.maxOpens # 0 => r.opens <= id.maxOpens
  <2>1. CASE grants' = [grants EXCEPT ![id].revoked = TRUE]
    <3> DEFINE r == [grants[id] EXCEPT !.revoked = TRUE]
    <3>1. r \in GrantRecord /\ r.owner = grants[id].owner /\ r.opens = grants[id].opens
      BY <1>1 DEF GrantRecord
    <3> QED
      BY <2>1, <3>1 DEF IInv, Budget
  <2>2. CASE /\ isValid(id)
             /\ grants[id].opens < U16Max
             /\ grants' = [grants EXCEPT ![id].opens = @ + 1]
    <3> DEFINE r == [grants[id] EXCEPT !.opens = @ + 1]
    <3>1. r \in GrantRecord /\ r.owner = grants[id].owner /\ r.opens = grants[id].opens + 1
      BY <1>1, <2>2 DEF GrantRecord
    <3>2. id.maxOpens # 0 => r.opens <= id.maxOpens
      BY <1>1, <2>2, <3>1 DEF isValid, AccessGrant, GrantRecord
    <3> QED
      BY <2>2, <3>1, <3>2
  <2> QED
    BY <2>1, <2>2
<1>3. /\ DOMAIN grants' = DOMAIN grants
      /\ \A x \in DOMAIN grants : x # id => grants'[x] = grants[x]
      /\ grants'[id] = r
  BY <1>2 DEF IInv, TypeOK
<1>4. TypeOK' /\ KeyInv' /\ RetiredOwned'
  <2>1. grants' \in [DOMAIN grants' -> GrantRecord] /\ DOMAIN grants' \subseteq AccessGrant
    BY <1>2, <1>3 DEF IInv, TypeOK
  <2> QED
    BY <2>1 DEF IInv, TypeOK, RegistryTypeOK, ValidatorTypeOK, KeyInv, ListMatches,
                RetiredOwned, ownerOf
<1>5. \A x \in DOMAIN grants : grants'[x].owner = grants[x].owner
  BY <1>2, <1>3
<1>6. OwnerOfFile' /\ NonceSpent' /\ RequestSpent' /\ RequestAnsweredOnce'
  BY <1>3, <1>5 DEF IInv, OwnerOfFile, NonceSpent, RequestSpent, RequestAnsweredOnce, ownerOf
<1>7. Budget'
  BY <1>2, <1>3 DEF IInv, Budget
<1>8. NonceCountsLandedGrants'
  <2>1. \A o \in Account : LandedBy(o)' = LandedBy(o)
    BY <1>3, <1>5 DEF LandedBy
  <2> QED
    BY <2>1 DEF IInv, NonceCountsLandedGrants
<1> QED
  BY <1>4, <1>6, <1>7, <1>8 DEF IInv

\* Calls to the other two contracts and the clock leave the policy's state alone.
LEMMA OthersPreserve ==
    ASSUME IInv, [Next]_vars, TypeOK', KeyInv', UNCHANGED <<nonces, usedRequestNonce, grants>>
    PROVE  IInv'
<1>1. OwnerOfFile'
  <2> SUFFICES ASSUME NEW g \in DOMAIN grants PROVE grants[g].owner = ownerOf(g.fileId)'
    BY DEF OwnerOfFile
  <2>1. g.fileId \in FileId /\ ownerOf(g.fileId) = grants[g].owner /\ grants[g].owner \in Account
    BY DEF IInv, TypeOK, AccessGrant, GrantRecord, OwnerOfFile
  <2> QED
    BY <2>1, OwnerKept DEF IInv
<1>2. NonceSpent' /\ RequestSpent' /\ Budget' /\ RequestAnsweredOnce'
  BY DEF IInv, NonceSpent, RequestSpent, Budget, RequestAnsweredOnce
<1>3. NonceCountsLandedGrants'
  BY DEF IInv, NonceCountsLandedGrants, LandedBy
<1>4. RetiredOwned'
  <2> SUFFICES ASSUME NEW f \in FileId, files'[f].retired PROVE ownerOf(f)' # Nobody
    BY DEF RetiredOwned
  <2>1. CASE RegistryCall
    BY <2>1 DEF RegistryCall, register, bumpVersion, retire, ownerOf,
                IInv, TypeOK, RegistryTypeOK, FileRecord, RetiredOwned
  <2>2. CASE ValidatorCall \/ PolicyCall \/ NewBlock \/ UNCHANGED vars
    BY <2>2 DEF ValidatorCall, PolicyCall, NewBlock, vars, grant, revoke, consumeOpen,
                IInv, RetiredOwned, ownerOf
  <2> QED
    BY <2>1, <2>2 DEF Next
<1> QED
  BY <1>1, <1>2, <1>3, <1>4 DEF IInv

\* Every step of the contracts preserves the inductive invariant.
LEMMA StepPreserves == ASSUME IInv, [Next]_vars PROVE IInv'
<1>1. CASE RegistryCall
  <2>1. TypeOK' /\ KeyInv'
    BY <1>1, RegistryCallType DEF IInv, RegistryCall, KeyInv, ValidatorTypeOK, ListMatches
  <2> QED
    BY <1>1, <2>1, OthersPreserve DEF RegistryCall
<1>2. CASE ValidatorCall
  <2>1. TypeOK' /\ KeyInv'
    BY <1>2, KeyStep DEF IInv, ValidatorCall, TypeOK, RegistryTypeOK, KeyInv
  <2> QED
    BY <1>2, <2>1, OthersPreserve DEF ValidatorCall
<1>3. CASE PolicyCall
  <2>1. CASE \E sender \in Account, g \in Submitted, sig \in Signature : grant(sender, g, sig)
    BY <2>1, GrantPreserves
  <2>2. CASE \E sender \in Account, id \in DOMAIN grants : revoke(sender, id)
    BY <2>2, UpdatePreserves DEF revoke
  <2>3. CASE \E id \in DOMAIN grants, d \in Device : consumeOpen(id, d)
    BY <2>3, UpdatePreserves DEF consumeOpen
  <2> QED
    BY <1>3, <2>1, <2>2, <2>3 DEF PolicyCall
<1>4. CASE NewBlock \/ UNCHANGED vars
  <2>1. TypeOK' /\ KeyInv' /\ UNCHANGED <<nonces, usedRequestNonce, grants>>
    BY <1>4 DEF IInv, TypeOK, RegistryTypeOK, ValidatorTypeOK, KeyInv, ListMatches, NewBlock, vars
  <2> QED
    BY <2>1, OthersPreserve
<1> QED
  BY <1>1, <1>2, <1>3, <1>4 DEF Next

\* The inductive invariant holds in every reachable state of the contracts.
LEMMA InvariantHolds == Spec => []IInv
<1>1. Init => IInv
  <2> SUFFICES ASSUME Init PROVE IInv
    OBVIOUS
  <2>1. DOMAIN grants = {}
    BY DEF Init
  <2>2. KeyInv
    BY InitKeyInv
  <2>3. NonceCountsLandedGrants
    BY <2>1 DEF Init, NonceCountsLandedGrants, LandedBy
  <2>4. RetiredOwned
    BY DEF Init, RegistryInit, ZeroFile, RetiredOwned
  <2> QED
    BY <2>1, <2>2, <2>3, <2>4, InitTypeOK
       DEF IInv, OwnerOfFile, NonceSpent, RequestSpent, Budget, RequestAnsweredOnce
<1>2. IInv /\ [Next]_vars => IInv'
  BY StepPreserves
<1> QED
  BY <1>1, <1>2, PTL DEF Spec

-----------------------------------------------------------------------------
\* Every reachable state of the contracts is well typed: in particular no version
\* and no open counter leaves the width Solidity gives it.
THEOREM TypeTheorem == Spec => []TypeOK
<1>1. IInv => TypeOK
  BY DEF IInv
<1> QED
  BY <1>1, InvariantHolds, PTL

\* The key list and the key mapping of P256Validator agree in every reachable
\* state, for any set of accounts and keys (KeyListMatchesKeys).
THEOREM KeyListTheorem == Spec => []KeyListMatchesKeys
<1>1. IInv => KeyListMatchesKeys
  BY DEF IInv, KeyInv, ListMatches, KeyListMatchesKeys
<1> QED
  BY <1>1, InvariantHolds, PTL

\* Replay protection (T03): an owner's landed grants carry each nonce below
\* nonces[owner] exactly once (NonceCountsLandedGrants).
THEOREM NonceTheorem == Spec => []NonceCountsLandedGrants
<1>1. IInv => NonceCountsLandedGrants
  BY DEF IInv
<1> QED
  BY <1>1, InvariantHolds, PTL

\* A request nonce is answered by one grant at most, whoever owns the file.
THEOREM RequestTheorem == Spec => []RequestAnsweredOnce
<1>1. IInv => RequestAnsweredOnce
  BY DEF IInv
<1> QED
  BY <1>1, InvariantHolds, PTL

\* A grant stays within the budget its owner signed and belongs to its file's owner.
THEOREM GrantTermsTheorem == Spec => []GrantWithinTerms
<1>1. IInv => GrantWithinTerms
  BY DEF IInv, GrantWithinTerms, OwnerOfFile, Budget
<1> QED
  BY <1>1, InvariantHolds, PTL

\* A record, once written, is never written afresh: an id keeps its owner, a
\* revocation stays, and the open counter never goes back.
LEMMA RecordOnlyAges ==
    ASSUME IInv, [Next]_vars, NEW g \in DOMAIN grants
    PROVE  /\ g \in DOMAIN grants'
           /\ grants[g].revoked => grants'[g].revoked
           /\ grants'[g].opens >= grants[g].opens
           /\ timestamp' >= timestamp
<1>0. grants[g] \in GrantRecord /\ timestamp \in Nat
  BY DEF IInv, TypeOK
<1>1. CASE RegistryCall \/ ValidatorCall \/ UNCHANGED vars
  BY <1>0, <1>1 DEF RegistryCall, ValidatorCall, vars, GrantRecord
<1>2. CASE NewBlock
  BY <1>0, <1>2 DEF NewBlock, GrantRecord
<1>3. CASE PolicyCall
  <2>1. ASSUME NEW sender \in Account, NEW h \in Submitted, NEW sig \in Signature,
               grant(sender, h, sig)
        PROVE  g \in DOMAIN grants' /\ grants'[g] = grants[g] /\ timestamp' = timestamp
    BY <2>1, GrantIsFresh DEF grant, Store
  <2>2. ASSUME NEW sender \in Account, NEW id \in DOMAIN grants, revoke(sender, id)
        PROVE  /\ g \in DOMAIN grants' /\ grants'[g].opens = grants[g].opens
               /\ grants[g].revoked => grants'[g].revoked
               /\ timestamp' = timestamp
    BY <1>0, <2>2 DEF revoke, IInv, TypeOK, GrantRecord
  <2>3. ASSUME NEW id \in DOMAIN grants, NEW d \in Device, consumeOpen(id, d)
        PROVE  /\ g \in DOMAIN grants' /\ grants'[g].opens >= grants[g].opens
               /\ grants'[g].revoked = grants[g].revoked
               /\ timestamp' = timestamp
    BY <1>0, <2>3 DEF consumeOpen, IInv, TypeOK, GrantRecord
  <2> QED
    BY <1>0, <1>3, <2>1, <2>2, <2>3 DEF PolicyCall, GrantRecord
<1> QED
  BY <1>1, <1>2, <1>3 DEF Next

\* A grant that was revoked, expired or used up is never valid again (T20).
THEOREM DeadStaysDeadTheorem == Spec => DeadStaysDead
<1>1. ASSUME IInv, [Next]_vars, NEW g \in DOMAIN grants, g.notBefore <= timestamp, ~isValid(g)
      PROVE  ~isValid(g)'
  <2>1. /\ g \in AccessGrant /\ grants[g] \in GrantRecord
        /\ grants'[g] \in GrantRecord /\ timestamp \in Nat /\ timestamp' \in Nat
    BY <1>1, StepPreserves, RecordOnlyAges DEF IInv, TypeOK
  <2>2. /\ g \in DOMAIN grants'
        /\ grants[g].revoked => grants'[g].revoked
        /\ grants'[g].opens >= grants[g].opens
        /\ timestamp' >= timestamp
    BY <1>1, RecordOnlyAges
  <2> QED
    BY <1>1, <2>1, <2>2 DEF isValid, InWindow, AccessGrant, GrantRecord
<1>2. IInv /\ [Next]_vars =>
        [\A g \in DOMAIN grants : (g.notBefore <= timestamp /\ ~isValid(g)) => ~isValid(g)']_vars
  BY <1>1
<1> QED
  BY <1>2, InvariantHolds, PTL DEF Spec, DeadStaysDead

\* Retirement is final in both contracts: the registry record is frozen and the
\* policy lands no further grant for the file.
THEOREM RetiredTheorem == Spec => RetiredIsFinal
<1>1. ASSUME IInv, [Next]_vars, NEW f \in FileId, files[f].retired
      PROVE  files'[f] = files[f] /\ \A g \in DOMAIN grants' : g.fileId = f => g \in DOMAIN grants
  <2>1. CASE RegistryCall
    BY <1>1, <2>1 DEF RegistryCall, register, bumpVersion, retire, ownerOf,
                      IInv, TypeOK, RegistryTypeOK, FileRecord, RetiredOwned
  <2>2. CASE PolicyCall
    BY <1>1, <2>2 DEF PolicyCall, grant, Grantable, Store, revoke, consumeOpen, IInv, TypeOK
  <2>3. CASE ValidatorCall \/ NewBlock \/ UNCHANGED vars
    BY <2>3 DEF ValidatorCall, NewBlock, vars
  <2> QED
    BY <1>1, <2>1, <2>2, <2>3 DEF Next
<1>2. IInv /\ [Next]_vars =>
        [\A f \in FileId : files[f].retired =>
            /\ files'[f] = files[f]
            /\ \A g \in DOMAIN grants' : g.fileId = f => g \in DOMAIN grants]_vars
  BY <1>1
<1> QED
  BY <1>2, InvariantHolds, PTL DEF Spec, RetiredIsFinal

\* The owner of a registered file never changes.
THEOREM OwnerTheorem == Spec => OwnerIsForever
<1>1. IInv /\ [Next]_vars =>
        [\A f \in FileId : ownerOf(f) # Nobody => ownerOf(f)' = ownerOf(f)]_vars
  BY OwnerKept DEF IInv
<1> QED
  BY <1>1, InvariantHolds, PTL DEF Spec, OwnerIsForever
-----------------------------------------------------------------------------
\* register claims an unowned file, retire closes an owned one, and a reseal is a
\* stutter: the registry's calls are steps of Rights.
LEMMA RegistryStep ==
    ASSUME IInv, RegistryCall PROVE [Promise!Next]_(Promise!rights)
<1> USE DEF IInv, TypeOK, RegistryTypeOK, FileRecord, ownerOf
<1> DEFINE own == [f \in FileId |-> ownerOf(f)]
<1>1. UNCHANGED grants /\ Ended' = Ended
  BY DEF RegistryCall, Ended, UsedUp
<1>2. PICK sender \in Account, f \in FileId :
         \/ \E h \in Hash \cup {ZeroHash} : register(sender, f, h) \/ bumpVersion(sender, f, h)
         \/ retire(sender, f)
  BY DEF RegistryCall
<1>3. CASE \E h \in Hash \cup {ZeroHash} : register(sender, f, h)
  <2>1. own[f] = Nobody /\ own' = [own EXCEPT ![f] = sender]
    <3>1. ownerOf(f) = Nobody /\ files'[f].owner = sender
      BY <1>3 DEF register
    <3>2. \A x \in FileId : x # f => files'[x] = files[x]
      BY <1>3 DEF register
    <3> QED
      BY <3>1, <3>2
  <2>2. Retired' = Retired
    BY <1>3 DEF register, Retired, RetiredOwned
  <2>3. Promise!Claim(sender, f)
    BY <1>1, <2>1, <2>2 DEF Promise!Claim
  <2> QED
    BY <2>3 DEF Promise!Next
<1>4. CASE \E h \in Hash \cup {ZeroHash} : bumpVersion(sender, f, h)
  <2>1. own' = own /\ Retired' = Retired
    BY <1>4 DEF bumpVersion, Retired
  <2> QED
    BY <1>1, <2>1 DEF Promise!rights
<1>5. CASE retire(sender, f)
  <2>1. own' = own /\ own[f] # Nobody /\ Retired' = Retired \cup {f}
    BY <1>5 DEF retire, Retired
  <2>2. Promise!Close(f)
    BY <1>1, <2>1 DEF Promise!Close
  <2> QED
    BY <2>2 DEF Promise!Next
<1> QED
  BY <1>2, <1>3, <1>4, <1>5

\* A grant that lands is one step of Rights: it is for an owned, unretired file and
\* a request nobody has answered, and it starts out neither revoked nor used up.
LEMMA GrantStep ==
    ASSUME IInv, NEW sender \in Account, NEW g \in Submitted, NEW sig \in Signature,
           grant(sender, g, sig)
    PROVE  Promise!Next
<1>1. g \notin DOMAIN grants /\ g \in AccessGrant /\ ownerOf(g.fileId) \in Account
  BY GrantIsFresh
<1>2. /\ DOMAIN grants' = DOMAIN grants \cup {g}
      /\ ~grants'[g].revoked /\ grants'[g].opens = 0
      /\ \A x \in DOMAIN grants : grants'[x] = grants[x]
  BY <1>1 DEF grant, Store
<1>3. Ended' = Ended
  <2>1. g.maxOpens # 0 => ~(0 >= g.maxOpens)
    BY <1>1 DEF AccessGrant
  <2>2. g \notin Ended'
    BY <1>2, <2>1 DEF Ended, UsedUp
  <2>3. \A x \in DOMAIN grants : x \in Ended' <=> x \in Ended
    BY <1>2 DEF Ended, UsedUp
  <2> QED
    BY <1>2, <2>2, <2>3 DEF Ended
<1>4. [f \in FileId |-> ownerOf(f)]' = [f \in FileId |-> ownerOf(f)] /\ Retired' = Retired
  BY DEF grant, ownerOf, Retired
<1>5. /\ g.fileId \in FileId
      /\ ownerOf(g.fileId) # Nobody
      /\ g.fileId \notin Retired
      /\ \A h \in DOMAIN grants : h.requestNonce # g.requestNonce
  BY <1>1 DEF grant, Grantable, Retired, IInv, RequestSpent, AccessGrant
<1>6. Promise!Give(g)
  BY <1>2, <1>3, <1>4, <1>5 DEF Promise!Give
<1> QED
  BY <1>6 DEF Promise!Next

\* revoke ends a grant; consumeOpen ends it with the last open of its budget and
\* is a stutter before that.
LEMMA UpdateStep ==
    ASSUME IInv, NEW id \in DOMAIN grants,
           \/ \E sender \in Account : revoke(sender, id)
           \/ \E d \in Device : consumeOpen(id, d)
    PROVE  [Promise!Next]_(Promise!rights)
<1>1. DOMAIN grants' = DOMAIN grants /\ \A x \in DOMAIN grants : x # id => grants'[x] = grants[x]
  BY DEF revoke, consumeOpen, IInv, TypeOK
<1>2. [f \in FileId |-> ownerOf(f)]' = [f \in FileId |-> ownerOf(f)] /\ Retired' = Retired
  BY DEF revoke, consumeOpen, ownerOf, Retired
<1>3. id \in AccessGrant /\ grants[id] \in GrantRecord
  BY DEF IInv, TypeOK
<1>4. \A x \in DOMAIN grants : x # id => (x \in Ended' <=> x \in Ended)
  BY <1>1 DEF Ended, UsedUp
<1>5. id \in Ended => id \in Ended'
  <2>1. CASE \E sender \in Account : revoke(sender, id)
    BY <1>1, <1>3, <2>1 DEF revoke, Ended, UsedUp, IInv, TypeOK, GrantRecord
  <2>2. CASE \E d \in Device : consumeOpen(id, d)
    BY <1>1, <1>3, <2>2 DEF consumeOpen, isValid, Ended, UsedUp, IInv, TypeOK, GrantRecord, AccessGrant
  <2> QED
    BY <2>1, <2>2
<1>6. Ended \subseteq DOMAIN grants /\ Ended' \subseteq DOMAIN grants
  BY <1>1 DEF Ended
<1>7. CASE id \in Ended \/ id \notin Ended'
  <2>1. Ended' = Ended
    BY <1>4, <1>5, <1>6, <1>7
  <2> QED
    BY <1>1, <1>2, <2>1 DEF Promise!rights
<1>8. CASE id \notin Ended /\ id \in Ended'
  <2>1. Ended' = Ended \cup {id}
    BY <1>4, <1>6, <1>8
  <2>2. Promise!End(id)
    BY <1>1, <1>2, <2>1 DEF Promise!End
  <2> QED
    BY <2>2 DEF Promise!Next
<1> QED
  BY <1>7, <1>8

\* The contracts implement Rights, for any accounts, files and terms: nonces,
\* request nonces and the retirement flag together keep its promise
\* (ImplementsRights).
THEOREM RefinementTheorem == Spec => ImplementsRights
<1>1. Init => Promise!Init
  <2> SUFFICES ASSUME Init PROVE Promise!Init
    OBVIOUS
  <2>1. [f \in FileId |-> ownerOf(f)] = [f \in FileId |-> Nobody] /\ Retired = {}
    BY DEF Init, RegistryInit, ZeroFile, ownerOf, Retired
  <2>2. DOMAIN grants = {} /\ Ended = {}
    BY DEF Init, Ended
  <2> QED
    BY <2>1, <2>2 DEF Promise!Init
<1>2. ASSUME IInv, [Next]_vars PROVE [Promise!Next]_(Promise!rights)
  <2>1. CASE RegistryCall
    BY <1>2, <2>1, RegistryStep
  <2>2. CASE PolicyCall
    BY <1>2, <2>2, GrantStep, UpdateStep DEF PolicyCall
  <2>3. CASE ValidatorCall \/ NewBlock \/ UNCHANGED vars
    <3>1. UNCHANGED <<files, grants>>
      BY <2>3 DEF ValidatorCall, NewBlock, vars
    <3> QED
      BY <3>1 DEF Promise!rights, ownerOf, Retired, Ended, UsedUp
  <2> QED
    BY <1>2, <2>1, <2>2, <2>3 DEF Next
<1> QED
  BY <1>1, <1>2, InvariantHolds, PTL DEF Spec, ImplementsRights, Promise!Spec

=============================================================================
