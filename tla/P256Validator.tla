---------------------------- MODULE P256Validator ----------------------------
(***************************************************************************)
(* contracts/src/P256Validator.sol: the device keys of each owner account. *)
(* A key is stored twice, as an entry of the mapping _keys and as an       *)
(* element of the list _keyIds; the two are maintained by separate code.   *)
(* x, y and the recorded requireOsConfirm choice are left out: no function *)
(* of the contract branches on them.                                       *)
(***************************************************************************)
EXTENDS Naturals, Sequences

CONSTANTS
    SmartAccount,   \* accounts that install this validator
    Key,            \* device keys, by keyId = keccak256(x || y)
    OnCurve         \* the keys P256.isValidPublicKey accepts

ASSUME ValidatorAssumption == OnCurve \subseteq Key

VARIABLES
    enrolled,       \* enrolled[a]: the ids k with _keys[a][k].enrolled
    keyIds          \* _keyIds

validatorVars == <<enrolled, keyIds>>

ValidatorTypeOK ==
    /\ enrolled \in [SmartAccount -> SUBSET Key]
    /\ keyIds \in [SmartAccount -> Seq(Key)]

ValidatorInit ==
    /\ enrolled = [a \in SmartAccount |-> {}]
    /\ keyIds = [a \in SmartAccount |-> <<>>]

isInitialized(a) == Len(keyIds[a]) > 0

\* Seeded fault: no AlreadyEnrolled.
EnrollAgain(a, k) ==
    /\ k \in OnCurve
    /\ enrolled' = [enrolled EXCEPT ![a] = @ \cup {k}]
    /\ keyIds' = [keyIds EXCEPT ![a] = Append(@, k)]

\* _enroll: "InvalidPublicKey", "AlreadyEnrolled", else the key is added to both.
Enroll(a, k) ==
    /\ k \in OnCurve
    /\ k \notin enrolled[a]
    /\ enrolled' = [enrolled EXCEPT ![a] = @ \cup {k}]
    /\ keyIds' = [keyIds EXCEPT ![a] = Append(@, k)]

\* "AlreadyInstalled" when a first key is there, else the first key.
onInstall(a, k) == ~isInitialized(a) /\ Enroll(a, k)

enrollKey(a, k) == Enroll(a, k)

\* The first place of id, the last element moved into it, the end popped.
SwapRemove(ids, id) ==
    LET n == Len(ids)
        i == CHOOSE j \in 1 .. n : ids[j] = id /\ \A h \in 1 .. (j - 1) : ids[h] # id
    IN  [j \in 1 .. (n - 1) |-> IF j = i THEN ids[n] ELSE ids[j]]

revokeKey(a, k) ==
    /\ k \in enrolled[a]
    /\ Len(keyIds[a]) # 1
    /\ enrolled' = [enrolled EXCEPT ![a] = @ \ {k}]
    /\ keyIds' = [keyIds EXCEPT ![a] = SwapRemove(@, k)]

\* Clears every listed key, and only those, of the calling account.
onUninstall(a) ==
    /\ enrolled' = [enrolled EXCEPT ![a] = @ \ {keyIds[a][i] : i \in DOMAIN keyIds[a]}]
    /\ keyIds' = [keyIds EXCEPT ![a] = <<>>]

\* sig.wellSigned is what P256.verify answers for the key named in the signature.
verify(a, sig) == sig.keyId \in enrolled[a] /\ sig.wellSigned

=============================================================================
